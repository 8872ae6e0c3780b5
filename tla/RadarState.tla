------------------------------ MODULE RadarState ------------------------------
(***************************************************************************)
(* The shared application state: RadarState behind its RwLock, the pure    *)
(* applier state::apply, the bounded EventLog, and the renderer's revision *)
(* check, which decides from one counter whether the GPU copy is current.  *)
(*                                                                         *)
(* Every operation holds the lock for its whole duration, so each one is a *)
(* single action.  A VolumeId is a number ordered as (julian_date,         *)
(* scan_time_ms) is.  The BTreeMap of sweeps is a function that is None at *)
(* the elevations without one.  Grids are opaque: an Arc is its identity.  *)
(***************************************************************************)
EXTENDS Naturals, Sequences

CONSTANTS
    Elevations,        \* elevation numbers
    VolumeIds,         \* volume identities
    VcpNumbers,        \* VCP numbers, 0 when unknown
    SweepGrids,        \* sets of base-product grids a sweep may carry
    DerivedGrids,      \* sets of derived grids
    Sites,
    None,              \* Option::None
    EventLogCapacity,  \* EVENT_LOG_CAPACITY
    MaxRevision,       \* bound: changes applied in one behaviour
    MaxReports         \* bound: events reported in one behaviour

VolumeStatus == {"Complete", "Superseded", "TimedOut"}

VolumeSummary == [volume : VolumeIds, vcp_number : VcpNumbers, status : VolumeStatus]

StateUpdate ==
    [type : {"SweepGridded"}, elevation_number : Elevations, volume : VolumeIds,
     vcp_number : VcpNumbers, grids : SweepGrids]
    \cup
    [type : {"DerivedComputed"}, volume : VolumeIds, vcp_number : VcpNumbers,
     grids : DerivedGrids]
    \cup
    [type : {"VolumeClosed"}, summary : VolumeSummary]
    \cup
    [type : {"Info"}, event : {"LateRadialsDiscarded", "MissingStartChunk"}]

DisplaySweep == [volume : VolumeIds, vcp_number : VcpNumbers, grids : SweepGrids]

ASSUME StateAssumption ==
    /\ VolumeIds \subseteq Nat
    /\ None \notin VolumeIds /\ None \notin VcpNumbers
    /\ None \notin DisplaySweep /\ None \notin VolumeSummary
    /\ None \notin Nat
    /\ {} \notin DerivedGrids
    /\ EventLogCapacity \in Nat \ {0}
    /\ MaxRevision \in Nat /\ MaxReports \in Nat

VARIABLES
    radar,      \* RwLock<RadarState>
    events,     \* Mutex<EventLog>: the retained entries, oldest first
    reported,   \* history: events reported so far, numbered from 1
    uploaded    \* the renderer: last_uploaded_revision and what is on the GPU

vars == <<radar, events, reported, uploaded>>

-----------------------------------------------------------------------------
(* state/apply.rs *)

NoSweeps == [e \in Elevations |-> None]

clear_pattern(r) == [r EXCEPT !.sweeps = NoSweeps, !.derived = {}, !.derived_volume = None]

(* Mutants: the deliberate faults that show what each property depends on  *)
(* stand before the definition they replace and end in an underscored name *)
(* of the fault.  No specification uses them.                              *)
apply_sweep_NoRevision(r, u) ==
    LET b == IF r.current_vcp \notin {None, u.vcp_number} THEN clear_pattern(r) ELSE r
        existing == b.sweeps[u.elevation_number]
        c == [b EXCEPT !.current_vcp = u.vcp_number]
    IN  IF existing # None /\ u.volume < existing.volume
        THEN c
        ELSE [c EXCEPT
                !.sweeps[u.elevation_number] =
                    [volume |-> u.volume, vcp_number |-> u.vcp_number, grids |-> u.grids],
                !.revision = IF existing = None THEN @ + 1 ELSE @]

apply_sweep_KeepsPattern(r, u) ==
    LET existing == r.sweeps[u.elevation_number]
        c == [r EXCEPT !.current_vcp = u.vcp_number]
    IN  IF existing # None /\ u.volume < existing.volume
        THEN c
        ELSE [c EXCEPT
                !.sweeps[u.elevation_number] =
                    [volume |-> u.volume, vcp_number |-> u.vcp_number, grids |-> u.grids],
                !.revision = @ + 1]

apply_sweep_NoStalenessGuard(r, u) ==
    LET b == IF r.current_vcp \notin {None, u.vcp_number} THEN clear_pattern(r) ELSE r
    IN  [b EXCEPT
            !.current_vcp = u.vcp_number,
            !.sweeps[u.elevation_number] =
                [volume |-> u.volume, vcp_number |-> u.vcp_number, grids |-> u.grids],
            !.revision = @ + 1]

(* A VCP change clears the old pattern; then a sweep of an older volume    *)
(* than the one shown is ignored.                                          *)
apply_sweep(r, u) ==
    LET b == IF r.current_vcp \notin {None, u.vcp_number} THEN clear_pattern(r) ELSE r
        existing == b.sweeps[u.elevation_number]
        c == [b EXCEPT !.current_vcp = u.vcp_number]
    IN  IF existing # None /\ u.volume < existing.volume
        THEN c
        ELSE [c EXCEPT
                !.sweeps[u.elevation_number] =
                    [volume |-> u.volume, vcp_number |-> u.vcp_number, grids |-> u.grids],
                !.revision = @ + 1]

apply_derived(r, u) ==
    IF r.derived_volume # None /\ u.volume < r.derived_volume
    THEN r
    ELSE [r EXCEPT !.derived = u.grids, !.derived_volume = u.volume, !.revision = @ + 1]

apply_volume_closed(r, u) ==
    IF u.summary.status # "Complete"
    THEN r
    ELSE [r EXCEPT !.last_complete = u.summary, !.revision = @ + 1]

apply(r, u) ==
    CASE u.type = "SweepGridded"    -> apply_sweep(r, u)
      [] u.type = "DerivedComputed" -> apply_derived(r, u)
      [] u.type = "VolumeClosed"    -> apply_volume_closed(r, u)
      [] u.type = "Info"            -> r

-----------------------------------------------------------------------------
(* state/mod.rs and event.rs *)

new_radar(site) ==
    [site |-> site, sweeps |-> NoSweeps, derived |-> {}, derived_volume |-> None,
     current_vcp |-> None, last_complete |-> None, revision |-> 0]

reset(r, site) == [new_radar(site) EXCEPT !.revision = r.revision + 1]

(* EventLog::push: the oldest entry makes room.                            *)
push(log, entry) ==
    Append(IF Len(log) = EventLogCapacity THEN Tail(log) ELSE log, entry)

report(event) ==
    /\ reported' = reported + 1
    /\ events' = push(events, [number |-> reported + 1, event |-> event])

Init ==
    /\ \E site \in Sites : radar = new_radar(site)
    /\ events = <<>> /\ reported = 0
    /\ uploaded = None

(* AppState::apply_event: an Info update is reported and changes nothing.  *)
ApplyEvent(u) ==
    /\ radar' = apply(radar, u)
    /\ IF u.type = "Info" THEN report(u.event) ELSE UNCHANGED <<events, reported>>
    /\ UNCHANGED uploaded

Reset(site) ==
    /\ radar' = reset(radar, site)
    /\ UNCHANGED <<events, reported, uploaded>>

(* A task reports an event of its own.                                     *)
Report(event) == report(event) /\ UNCHANGED <<radar, uploaded>>

(* What a StateSnapshot shows of the radar state.                          *)
snapshot(r) == [site |-> r.site, sweeps |-> r.sweeps, derived |-> r.derived,
                last_complete |-> r.last_complete, revision |-> r.revision]

(* redraw: take a snapshot and upload it, unless its revision is the one   *)
(* uploaded last.                                                          *)
Redraw ==
    /\ ~(uploaded # None /\ uploaded.revision = radar.revision)
    /\ uploaded' = snapshot(radar)
    /\ UNCHANGED <<radar, events, reported>>

Next ==
    \/ /\ radar.revision < MaxRevision /\ reported < MaxReports
       /\ \E u \in StateUpdate : ApplyEvent(u)
    \/ radar.revision < MaxRevision /\ \E site \in Sites : Reset(site)
    \/ reported < MaxReports /\ Report("Other")
    \/ Redraw

Spec == Init /\ [][Next]_vars

-----------------------------------------------------------------------------
(* Properties *)

RadarStates ==
    [site : Sites, sweeps : [Elevations -> DisplaySweep \cup {None}],
     derived : DerivedGrids \cup {{}}, derived_volume : VolumeIds \cup {None},
     current_vcp : VcpNumbers \cup {None}, last_complete : VolumeSummary \cup {None},
     revision : Nat]

Snapshots ==
    [site : Sites, sweeps : [Elevations -> DisplaySweep \cup {None}],
     derived : DerivedGrids \cup {{}}, last_complete : VolumeSummary \cup {None},
     revision : Nat]

Entry == [number : Nat, event : {"LateRadialsDiscarded", "MissingStartChunk", "Other"}]

(* Every variable keeps the shape its Rust declaration gives it.           *)
TypeOK ==
    /\ radar \in RadarStates
    /\ events \in Seq(Entry)
    /\ reported \in Nat
    /\ uploaded \in Snapshots \cup {None}

(* FR-DR-5's shortcut is sound: when the revision the renderer uploaded is *)
(* the current one, what it uploaded is the current state, whatever        *)
(* updates, stale ones included, and resets came in between.               *)
RevisionIdentifiesContent ==
    uploaded # None =>
        /\ uploaded.revision <= radar.revision
        /\ uploaded.revision = radar.revision => uploaded = snapshot(radar)

(* The display never mixes two volume coverage patterns: every sweep held  *)
(* is of current_vcp, so no tilt shown is one the antenna no longer scans. *)
OnePattern ==
    \A e \in Elevations :
        radar.sweeps[e] # None => radar.sweeps[e].vcp_number = radar.current_vcp

(* derived and derived_volume move together, so the staleness guard of the *)
(* derived products is about the grids actually shown.                     *)
DerivedIsDated == radar.derived_volume = None <=> radar.derived = {}

(* Nothing shown is replaced by older data unless the pattern changed or   *)
(* the site was switched: both staleness guards of apply.                  *)
ShownDataNeverRegresses ==
    [][ \/ radar'.current_vcp # radar.current_vcp
        \/ /\ \A e \in Elevations :
                radar.sweeps[e] # None =>
                    radar'.sweeps[e] # None /\ radar'.sweeps[e].volume >= radar.sweeps[e].volume
           /\ radar.derived_volume # None =>
                radar'.derived_volume # None /\ radar'.derived_volume >= radar.derived_volume
        \/ \E site \in Sites : Reset(site) ]_vars
=============================================================================
