---------------------------- MODULE VolumeAssembler ----------------------------
(***************************************************************************)
(* The volume assembly task: assembly::run driving one VolumeAssembler.    *)
(*                                                                         *)
(* The struct VolumeAssembler is the record asm; its methods are operators *)
(* from one such record to the next, named as in the source.  The field    *)
(* events is the Vec<AssemblyEvent> every method pushes to.  The task runs *)
(* one handler at a time; pc says where it is:                             *)
(*                                                                         *)
(*   select   waiting in tokio::select! for a chunk, a tick or shutdown    *)
(*   radials  inside on_chunk, looping over the chunk's radials            *)
(*   send     forwarding the handler's events, one tx.send at a time       *)
(*   done     run has returned                                             *)
(*                                                                         *)
(* Nothing but the passing of time can happen while pc is "radials": the   *)
(* loop has no await.                                                      *)
(*                                                                         *)
(* Data is abstracted to what assembly decides on.  A radial is its        *)
(* elevation number, whether its status closes the elevation, its time     *)
(* stamp (julian_date, scan_time_ms) and the VCP number of its RVOL block, *)
(* 0 for a radial without one.  A sweep is its elevation, the number of    *)
(* its radials and its completeness.  The default VolumeId (0, 0) is 0.    *)
(***************************************************************************)
EXTENDS Naturals, Sequences

CONSTANTS
    Elevations,       \* elevation numbers
    Vcps,             \* VCP numbers
    Times,            \* radial time stamps
    Inputs,           \* the chunks the channel may deliver
    None,             \* Option::None
    WatchdogTimeout,  \* watchdog_timeout, in units of the clock
    MaxChunks         \* bound: chunks delivered in one behaviour

ChunkKind == {"Start", "Intermediate", "End"}

AssemblyState == {"Idle", "AwaitingData", "Accumulating"}

VolumeStatus == {"Complete", "Superseded", "TimedOut"}

Radial == [elevation_number : Elevations, closing : BOOLEAN,
           time : Times, site_vcp : Vcps \cup {0}]

(* What decode_and_ingest makes of an envelope: decodes is FALSE when      *)
(* decompression or the radial stream fails; vcp is the Message 5 of a     *)
(* start chunk, 0 when it is missing or unreadable.                        *)
Chunk == [kind : ChunkKind, decodes : BOOLEAN,
          vcp : Vcps \cup {0}, radials : Seq(Radial)]

SweepBuilder == [elevation_number : Elevations, radials : Nat]

Sweep == [elevation_number : Elevations, radials : Nat, complete : BOOLEAN]

VolumeContext == [volume : Times \cup {0}, vcp : Vcps \cup {0},
                  rvol_vcp_number : Vcps \cup {0}]

AssemblyEvent ==
    [type : {"SweepClosed"}, sweep : Sweep,
     volume : Times \cup {0}, vcp_number : Vcps \cup {0}]
    \cup
    [type : {"VolumeClosed"}, volume : Times \cup {0},
     vcp_number : Vcps \cup {0}, sweeps : Seq(Sweep), status : VolumeStatus]
    \cup
    [type : {"LateRadialsDiscarded"}, elevation_number : Elevations, count : Nat]
    \cup
    [type : {"MissingStartChunk"}]

ASSUME ConstantsAssumption ==
    /\ Vcps \subseteq Nat \ {0}
    /\ Times \subseteq Nat \ {0}
    /\ Inputs \subseteq Chunk
    /\ None \notin Nat
    /\ None \notin SweepBuilder
    /\ WatchdogTimeout \in Nat \ {0}
    /\ MaxChunks \in Nat

VARIABLES
    asm,            \* the VolumeAssembler, and the events of the running handler
    last_activity,  \* time since last_activity, None before the first chunk
    pc,             \* where run is
    kind,           \* kind of the chunk on_chunk is working on
    radials,        \* radials of that chunk still to be looked at
    late_discards,  \* radials of that chunk discarded so far, by elevation
    received        \* chunks taken from rx

vars == <<asm, last_activity, pc, kind, radials, late_discards, received>>

-----------------------------------------------------------------------------
(* assembly/context.rs *)

(* Mutants: the deliberate faults that show what each property depends on  *)
(* stand before the definition they replace and end in an underscored name *)
(* of the fault.  No specification uses them.                              *)
default_context_VolumeUnset == [volume |-> None, vcp |-> 0, rvol_vcp_number |-> 0]

default_context == [volume |-> 0, vcp |-> 0, rvol_vcp_number |-> 0]

vcp_number(ctx) == IF ctx.vcp # 0 THEN ctx.vcp ELSE ctx.rvol_vcp_number

apply_vcp(ctx, vcp) == [ctx EXCEPT !.vcp = vcp]

apply_radial_EveryRadialIsFirst(ctx, r, is_first) ==
    [ctx EXCEPT !.volume          = r.time,
                !.rvol_vcp_number = IF r.site_vcp # 0 THEN r.site_vcp ELSE @]

apply_radial(ctx, r, is_first) ==
    [ctx EXCEPT
        !.volume          = IF is_first THEN r.time ELSE @,
        !.rvol_vcp_number = IF r.site_vcp # 0 THEN r.site_vcp ELSE @]

-----------------------------------------------------------------------------
(* assembly/mod.rs, impl VolumeAssembler *)

new_assembler ==
    [state |-> "Idle", context |-> default_context, current_sweep |-> None,
     closed_sweeps |-> <<>>, closed_elevations |-> {}, events |-> <<>>]

close_sweep(a, builder, complete) ==
    LET sweep == [elevation_number |-> builder.elevation_number,
                  radials |-> builder.radials, complete |-> complete]
    IN  [a EXCEPT
            !.current_sweep     = None,
            !.closed_elevations = @ \cup {builder.elevation_number},
            !.closed_sweeps     = Append(@, sweep),
            !.events            = Append(@,
                [type |-> "SweepClosed", sweep |-> sweep,
                 volume |-> a.context.volume,
                 vcp_number |-> vcp_number(a.context)])]

(* if let Some(builder) = self.current_sweep.take() { close_sweep(false) } *)
close_open_sweep(a) ==
    IF a.current_sweep = None THEN a ELSE close_sweep(a, a.current_sweep, FALSE)

finish_volume_KeepsClosedElevations(a, status) ==
    [a EXCEPT
        !.state         = "Idle",
        !.context       = default_context,
        !.closed_sweeps = <<>>,
        !.events        = Append(@,
            [type |-> "VolumeClosed", volume |-> a.context.volume,
             vcp_number |-> vcp_number(a.context),
             sweeps |-> a.closed_sweeps, status |-> status])]

finish_volume_ContextResetFirst(a, status) ==
    [a EXCEPT
        !.state             = "Idle",
        !.context           = default_context,
        !.closed_sweeps     = <<>>,
        !.closed_elevations = {},
        !.events            = Append(@,
            [type |-> "VolumeClosed", volume |-> 0, vcp_number |-> 0,
             sweeps |-> a.closed_sweeps, status |-> status])]

finish_volume(a, status) ==
    [a EXCEPT
        !.state             = "Idle",
        !.context           = default_context,
        !.closed_sweeps     = <<>>,
        !.closed_elevations = {},
        !.events            = Append(@,
            [type |-> "VolumeClosed", volume |-> a.context.volume,
             vcp_number |-> vcp_number(a.context),
             sweeps |-> a.closed_sweeps, status |-> status])]

begin_new_volume_DropsOpenVolume(a) ==
    [a EXCEPT
        !.state             = "AwaitingData",
        !.context           = default_context,
        !.current_sweep     = None,
        !.closed_sweeps     = <<>>,
        !.closed_elevations = {}]

begin_new_volume(a) ==
    LET b == IF a.state = "Accumulating"
             THEN finish_volume(close_open_sweep(a), "Superseded")
             ELSE a
    IN  [b EXCEPT
            !.state             = "AwaitingData",
            !.context           = default_context,
            !.current_sweep     = None,
            !.closed_sweeps     = <<>>,
            !.closed_elevations = {}]

on_start_chunk(a, vcp) ==
    LET b == begin_new_volume(a)
    IN  IF vcp = 0 THEN b ELSE [b EXCEPT !.context = apply_vcp(@, vcp)]

(* Route one radial into its sweep, closing the open one first when the    *)
(* elevation number changed.                                               *)
start_or_push(a, r) ==
    LET fresh == [elevation_number |-> r.elevation_number, radials |-> 1]
    IN  IF a.current_sweep = None
        THEN [a EXCEPT !.current_sweep = fresh]
        ELSE IF a.current_sweep.elevation_number = r.elevation_number
        THEN [a EXCEPT !.current_sweep.radials = @ + 1]
        ELSE [close_sweep(a, a.current_sweep, FALSE) EXCEPT !.current_sweep = fresh]

ingest_radial(a, r) ==
    LET b == start_or_push(a, r)
    IN  IF r.closing THEN close_sweep(b, b.current_sweep, TRUE) ELSE b

take_radial_StateSetFirst(a, r) ==
    LET b == [a EXCEPT !.state   = "Accumulating",
                       !.context = apply_radial(@, r, FALSE)]
    IN  ingest_radial(b, r)

(* One iteration of on_chunk's loop for a radial of an elevation that is   *)
(* not closed.                                                             *)
take_radial(a, r) ==
    LET is_first == a.state = "AwaitingData"
        b == [a EXCEPT !.state   = IF is_first THEN "Accumulating" ELSE @,
                       !.context = apply_radial(@, r, is_first)]
    IN  ingest_radial(b, r)

NoLate == [e \in Elevations |-> 0]

-----------------------------------------------------------------------------
(* assembly::run *)

Init ==
    /\ asm = new_assembler
    /\ last_activity = None
    /\ pc = "select"
    /\ kind = "Start"
    /\ radials = <<>>
    /\ late_discards = NoLate
    /\ received = 0

(* A handler has returned its events: go through the send loop.            *)
Forward(a) ==
    /\ asm' = a
    /\ pc' = IF a.events = <<>> THEN "select" ELSE "send"

(* decode_and_ingest drops a chunk that does not decode, without counting  *)
(* it as activity.                                                         *)
DropUndecodable(c) ==
    /\ pc = "select" /\ ~c.decodes
    /\ received' = received + 1
    /\ UNCHANGED <<asm, last_activity, pc, kind, radials, late_discards>>

OnStartChunk(c) ==
    /\ pc = "select" /\ c.decodes /\ c.kind = "Start"
    /\ last_activity' = 0
    /\ Forward(on_start_chunk(asm, c.vcp))
    /\ received' = received + 1
    /\ UNCHANGED <<kind, radials, late_discards>>

(* on_chunk up to its loop.                                                *)
OnChunk(c) ==
    /\ pc = "select" /\ c.decodes /\ c.kind # "Start"
    /\ last_activity' = 0
    /\ asm' = IF asm.state = "Idle"
              THEN [asm EXCEPT !.state  = "AwaitingData",
                               !.events = Append(@, [type |-> "MissingStartChunk"])]
              ELSE asm
    /\ pc' = "radials"
    /\ kind' = c.kind
    /\ radials' = c.radials
    /\ received' = received + 1
    /\ UNCHANGED late_discards

DiscardLateRadial ==
    /\ pc = "radials" /\ radials # <<>>
    /\ LET e == Head(radials).elevation_number
       IN  /\ e \in asm.closed_elevations
           /\ late_discards' = [late_discards EXCEPT ![e] = @ + 1]
    /\ radials' = Tail(radials)
    /\ UNCHANGED <<asm, last_activity, pc, kind, received>>

TakeRadial_LateToo ==
    /\ pc = "radials" /\ radials # <<>>
    /\ asm' = take_radial(asm, Head(radials))
    /\ radials' = Tail(radials)
    /\ UNCHANGED <<last_activity, pc, kind, late_discards, received>>

TakeRadial ==
    /\ pc = "radials" /\ radials # <<>>
    /\ Head(radials).elevation_number \notin asm.closed_elevations
    /\ asm' = take_radial(asm, Head(radials))
    /\ radials' = Tail(radials)
    /\ UNCHANGED <<last_activity, pc, kind, late_discards, received>>

(* The HashMap of discards is drained in an unspecified order.             *)
ReportLate(e) ==
    /\ pc = "radials" /\ radials = <<>>
    /\ late_discards[e] > 0
    /\ asm' = [asm EXCEPT !.events = Append(@,
                  [type |-> "LateRadialsDiscarded",
                   elevation_number |-> e, count |-> late_discards[e]])]
    /\ late_discards' = [late_discards EXCEPT ![e] = 0]
    /\ UNCHANGED <<last_activity, pc, kind, radials, received>>

(* on_chunk after its loops.                                               *)
FinishChunk ==
    /\ pc = "radials" /\ radials = <<>> /\ late_discards = NoLate
    /\ Forward(IF kind = "End"
               THEN finish_volume(close_open_sweep(asm), "Complete")
               ELSE asm)
    /\ UNCHANGED <<last_activity, kind, radials, late_discards, received>>

OnTick_OnlyAccumulating ==
    /\ pc = "select"
    /\ asm.state = "Accumulating"
    /\ last_activity # None
    /\ last_activity >= WatchdogTimeout
    /\ Forward(finish_volume(close_open_sweep(asm), "TimedOut"))
    /\ UNCHANGED <<last_activity, kind, radials, late_discards, received>>

(* on_tick, when it has something to do.                                   *)
OnTick ==
    /\ pc = "select"
    /\ asm.state # "Idle"
    /\ last_activity # None
    /\ last_activity >= WatchdogTimeout
    /\ Forward(finish_volume(close_open_sweep(asm), "TimedOut"))
    /\ UNCHANGED <<last_activity, kind, radials, late_discards, received>>

(* tx.send(event).await succeeded.                                         *)
Send ==
    /\ pc = "send"
    /\ Forward([asm EXCEPT !.events = Tail(@)])
    /\ UNCHANGED <<last_activity, kind, radials, late_discards, received>>

(* rx closed or shutdown published at the select, or tx's receiver gone.   *)
Return ==
    /\ pc \in {"select", "send"}
    /\ pc' = "done"
    /\ UNCHANGED <<asm, last_activity, kind, radials, late_discards, received>>

(* VolumeAssembler::reset, between two handlers.                           *)
Reset ==
    /\ pc = "select"
    /\ asm' = new_assembler
    /\ last_activity' = None
    /\ UNCHANGED <<pc, kind, radials, late_discards, received>>

(* The clock; ages beyond the timeout are not told apart.                  *)
Elapse ==
    /\ last_activity # None
    /\ last_activity < WatchdogTimeout
    /\ last_activity' = last_activity + 1
    /\ UNCHANGED <<asm, pc, kind, radials, late_discards, received>>

Receive ==
    /\ received < MaxChunks
    /\ \E c \in Inputs : DropUndecodable(c) \/ OnStartChunk(c) \/ OnChunk(c)

Handle == DiscardLateRadial \/ TakeRadial \/ (\E e \in Elevations : ReportLate(e)) \/ FinishChunk

Next == Receive \/ Handle \/ OnTick \/ Send \/ Return \/ Reset \/ Elapse

Spec == Init /\ [][Next]_vars

(* The runtime keeps polling the task, its timer keeps ticking, and the    *)
(* compute task takes events until it drops its receiver.                  *)
FairSpec == Spec /\ WF_vars(Handle) /\ WF_vars(OnTick) /\ WF_vars(Send) /\ WF_vars(Elapse)

-----------------------------------------------------------------------------
(* Invariants *)

Assembler ==
    [state : AssemblyState, context : VolumeContext,
     current_sweep : SweepBuilder \cup {None},
     closed_sweeps : Seq(Sweep), closed_elevations : SUBSET Elevations,
     events : Seq(AssemblyEvent)]

(* Every variable keeps the shape its Rust declaration gives it.           *)
TypeOK ==
    /\ asm \in Assembler
    /\ last_activity \in Nat \cup {None}
    /\ pc \in {"select", "radials", "send", "done"}
    /\ kind \in ChunkKind
    /\ radials \in Seq(Radial)
    /\ late_discards \in [Elevations -> Nat]
    /\ received \in Nat

(* Between volumes nothing of the last volume is left: Idle and            *)
(* AwaitingData hold no open sweep, no closed sweep and no closed          *)
(* elevation, so a sweep of one volume cannot reach the next one's scan.   *)
NothingCarriedOver ==
    asm.state # "Accumulating" =>
        /\ asm.current_sweep = None
        /\ asm.closed_sweeps = <<>>
        /\ asm.closed_elevations = {}

(* The late-data filter and the scan under construction agree, and the     *)
(* open sweep is of an elevation that is still open: closed_elevations is  *)
(* exactly the set of elevations of closed_sweeps.                         *)
ClosedSetsAgree ==
    /\ asm.closed_elevations =
         {asm.closed_sweeps[i].elevation_number : i \in DOMAIN asm.closed_sweeps}
    /\ asm.current_sweep # None =>
         asm.current_sweep.elevation_number \notin asm.closed_elevations

OncePerElevation(sweeps) ==
    \A i, j \in DOMAIN sweeps :
        sweeps[i].elevation_number = sweeps[j].elevation_number => i = j

(* "Sweep closure is permanent": an elevation closes at most once in a     *)
(* volume, in the scan being built and in every VolumeScan handed on, so   *)
(* VolumeScan::sweep finds the one sweep of an elevation.                  *)
SweepClosureIsPermanent ==
    /\ OncePerElevation(asm.closed_sweeps)
    /\ \A i \in DOMAIN asm.events :
         asm.events[i].type = "VolumeClosed" => OncePerElevation(asm.events[i].sweeps)

(* AssemblyEvent::SweepClosed is always stamped with a real volume: the    *)
(* context is populated by the volume's first radial before any sweep can  *)
(* close, whatever chunks were lost before it.                             *)
SweepsHaveIdentity ==
    /\ asm.state = "Accumulating" <=> asm.context.volume # 0
    /\ \A i \in DOMAIN asm.events :
         asm.events[i].type = "SweepClosed" => asm.events[i].volume # 0

(* A volume with activity on record can always be timed out: on_tick's     *)
(* early return on last_activity = None is never what keeps one open.      *)
WatchdogArmed == asm.state # "Idle" => last_activity # None

(* Where the task is inside a handler: on_chunk has left Idle before its   *)
(* loop, and the send loop has an event to send.                           *)
HandlerInv ==
    /\ pc = "radials" => asm.state # "Idle"
    /\ pc = "send" => asm.events # <<>>

(* The inductive invariant of the task.                                    *)
SafetyInv ==
    /\ TypeOK
    /\ HandlerInv
    /\ NothingCarriedOver
    /\ ClosedSetsAgree
    /\ SweepClosureIsPermanent
    /\ SweepsHaveIdentity
    /\ WatchdogArmed

-----------------------------------------------------------------------------
(* Action and liveness properties *)

Begins(scan, sweeps) ==
    Len(sweeps) <= Len(scan) /\ sweeps = SubSeq(scan, 1, Len(sweeps))

(* A sweep that was announced to the compute layer leaves the assembler    *)
(* only inside the VolumeScan of a VolumeClosed event; until then it keeps *)
(* its place in closure order.  Only reset drops it silently.              *)
NoSweepForgotten ==
    [][ \/ Begins(asm'.closed_sweeps, asm.closed_sweeps)
        \/ \E i \in DOMAIN asm'.events :
              /\ asm'.events[i].type = "VolumeClosed"
              /\ Begins(asm'.events[i].sweeps, asm.closed_sweeps)
        \/ Reset ]_vars

(* Within a volume its identity never changes: every sweep of a volume and *)
(* its VolumeClosed carry the time stamp of the same first radial.         *)
IdentityIsStable ==
    [][ (asm.state = "Accumulating" /\ asm'.state = "Accumulating")
          => asm'.context.volume = asm.context.volume ]_vars

(* A volume whose chunks stop arriving is closed by the watchdog: the      *)
(* assembler never waits forever in AwaitingData or Accumulating, even     *)
(* when what still arrives does not decode.                                *)
StalledVolumeCloses == asm.state # "Idle" ~> (asm.state = "Idle" \/ pc = "done")
=============================================================================
