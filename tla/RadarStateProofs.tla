--------------------------- MODULE RadarStateProofs ---------------------------
(***************************************************************************)
(* The applier's guarantees for any elevations, volumes, patterns, grids   *)
(* and log capacity: the revision identifies the content, one pattern is   *)
(* shown, what is shown does not go back in time.                          *)
(***************************************************************************)
EXTENDS RadarState, TLAPS

(* The initial state is one RadarState::new makes, with nothing uploaded.  *)
LEMMA InitType == Init => TypeOK
  BY StateAssumption DEF Init, TypeOK, RadarStates, new_radar, NoSweeps, Entry

(* apply maps states of the right shape to such states.                    *)
LEMMA ApplyType ==
    ASSUME NEW r \in RadarStates, NEW u \in StateUpdate
    PROVE  apply(r, u) \in RadarStates
  <1>0. r.revision + 1 \in Nat
    BY DEF RadarStates
  <1>1. CASE u.type = "SweepGridded"
    <2> DEFINE shown == [volume |-> u.volume, vcp_number |-> u.vcp_number, grids |-> u.grids]
               b == IF r.current_vcp \notin {None, u.vcp_number} THEN clear_pattern(r) ELSE r
               c == [b EXCEPT !.current_vcp = u.vcp_number]
    <2>1. /\ u.elevation_number \in Elevations /\ u.volume \in VolumeIds
          /\ u.vcp_number \in VcpNumbers /\ u.grids \in SweepGrids
      BY <1>1 DEF StateUpdate
    <2>2. b \in RadarStates
      BY DEF clear_pattern, RadarStates, NoSweeps
    <2>3. shown \in DisplaySweep
      BY <2>1 DEF DisplaySweep
    <2>4. c \in RadarStates
      BY <2>1, <2>2 DEF RadarStates
    <2> HIDE DEF c, shown
    <2>5. [c EXCEPT !.sweeps[u.elevation_number] = shown, !.revision = @ + 1] \in RadarStates
      <3>1. [c.sweeps EXCEPT ![u.elevation_number] = shown] \in [Elevations -> DisplaySweep \cup {None}]
        BY <2>1, <2>3, <2>4 DEF RadarStates
      <3>2. c.revision + 1 \in Nat
        BY <2>4 DEF RadarStates
      <3> QED BY <2>4, <3>1, <3>2 DEF RadarStates
    <2>6. apply_sweep(r, u) \in RadarStates
      BY <2>4, <2>5 DEF apply_sweep, c, shown
    <2> QED BY <1>1, <2>6 DEF apply
  <1>2. CASE u.type = "DerivedComputed"
    <2>1. u.grids \in DerivedGrids /\ u.volume \in VolumeIds
      BY <1>2 DEF StateUpdate
    <2>2. apply_derived(r, u) \in RadarStates
      BY <1>0, <2>1 DEF apply_derived, RadarStates
    <2> QED BY <1>2, <2>2 DEF apply
  <1>3. CASE u.type = "VolumeClosed"
    <2>1. u.summary \in VolumeSummary
      BY <1>3 DEF StateUpdate
    <2>2. apply_volume_closed(r, u) \in RadarStates
      BY <1>0, <2>1 DEF apply_volume_closed, RadarStates
    <2> QED BY <1>3, <2>2 DEF apply
  <1>4. CASE u.type = "Info"
    BY <1>4 DEF apply
  <1> QED BY <1>1, <1>2, <1>3, <1>4 DEF StateUpdate

(* Every update that changes what a snapshot shows moves the revision on;  *)
(* one that is dropped as stale changes at most current_vcp, which a       *)
(* snapshot does not show.                                                 *)
LEMMA ApplyRevision ==
    ASSUME NEW r \in RadarStates, NEW u \in StateUpdate
    PROVE  /\ apply(r, u).revision >= r.revision
           /\ apply(r, u).revision = r.revision => snapshot(apply(r, u)) = snapshot(r)
  <1>0. r.revision \in Nat
    BY DEF RadarStates
  <1>1. CASE u.type = "SweepGridded"
    <2> DEFINE b == IF r.current_vcp \notin {None, u.vcp_number} THEN clear_pattern(r) ELSE r
               existing == b.sweeps[u.elevation_number]
    <2>1. u.elevation_number \in Elevations
      BY <1>1 DEF StateUpdate
    <2>2. CASE existing # None /\ u.volume < existing.volume
      <3>1. b = r
        BY <2>1, <2>2 DEF clear_pattern, NoSweeps, RadarStates
      <3>2. apply_sweep(r, u) = [r EXCEPT !.current_vcp = u.vcp_number]
        BY <2>2, <3>1 DEF apply_sweep
      <3> QED BY <1>0, <1>1, <3>2 DEF apply, snapshot, RadarStates
    <2>3. CASE ~(existing # None /\ u.volume < existing.volume)
      <3>1. b \in RadarStates /\ b.revision = r.revision
        BY DEF clear_pattern, NoSweeps, RadarStates
      <3>2. apply_sweep(r, u).revision = b.revision + 1
        BY <2>3, <3>1 DEF apply_sweep, RadarStates
      <3> QED BY <1>0, <1>1, <3>1, <3>2 DEF apply
    <2> QED BY <2>2, <2>3
  <1>2. CASE u.type = "DerivedComputed"
    BY <1>0, <1>2 DEF apply, apply_derived, RadarStates
  <1>3. CASE u.type = "VolumeClosed"
    BY <1>0, <1>3 DEF apply, apply_volume_closed, RadarStates
  <1>4. CASE u.type = "Info"
    BY <1>0, <1>4 DEF apply
  <1> QED BY <1>1, <1>2, <1>3, <1>4 DEF StateUpdate

(* Applying an update keeps the sweeps to one pattern: a sweep of another  *)
(* pattern finds the old ones cleared.                                     *)
LEMMA ApplyOnePattern ==
    ASSUME NEW r \in RadarStates, NEW u \in StateUpdate,
           \A e \in Elevations : r.sweeps[e] # None => r.sweeps[e].vcp_number = r.current_vcp,
           NEW e \in Elevations, apply(r, u).sweeps[e] # None
    PROVE  apply(r, u).sweeps[e].vcp_number = apply(r, u).current_vcp
  <1>1. CASE u.type = "SweepGridded"
    <2> DEFINE b == IF r.current_vcp \notin {None, u.vcp_number} THEN clear_pattern(r) ELSE r
               existing == b.sweeps[u.elevation_number]
               s == apply_sweep(r, u)
    <2>1. u.elevation_number \in Elevations /\ u.vcp_number \in VcpNumbers
      BY <1>1 DEF StateUpdate
    <2>2. b \in RadarStates
      BY DEF clear_pattern, NoSweeps, RadarStates
    <2>3. s.current_vcp = u.vcp_number
      BY <2>2 DEF apply_sweep, RadarStates
    <2>4. b.sweeps[e] # None => b.sweeps[e].vcp_number = u.vcp_number
      <3>1. CASE r.current_vcp \notin {None, u.vcp_number}
        BY <3>1 DEF clear_pattern, NoSweeps, RadarStates
      <3>2. CASE r.current_vcp = u.vcp_number
        BY <3>2
      <3>3. CASE r.current_vcp = None
        <4>1. r.sweeps[e] # None => r.sweeps[e].vcp_number \in VcpNumbers
          BY DEF RadarStates, DisplaySweep
        <4> QED BY <3>3, <4>1, StateAssumption
      <3> QED BY <3>1, <3>2, <3>3
    <2>5. s.sweeps[e] = b.sweeps[e] \/ s.sweeps[e].vcp_number = u.vcp_number
      BY <2>1, <2>2 DEF apply_sweep, RadarStates
    <2> QED BY <1>1, <2>3, <2>4, <2>5 DEF apply
  <1>2. CASE u.type = "DerivedComputed"
    BY <1>2 DEF apply, apply_derived, RadarStates
  <1>3. CASE u.type = "VolumeClosed"
    BY <1>3 DEF apply, apply_volume_closed, RadarStates
  <1>4. CASE u.type = "Info"
    BY <1>4 DEF apply
  <1> QED BY <1>1, <1>2, <1>3, <1>4 DEF StateUpdate

(* Derived grids and their volume are set together and cleared together.   *)
LEMMA ApplyDerivedDated ==
    ASSUME NEW r \in RadarStates, NEW u \in StateUpdate,
           r.derived_volume = None <=> r.derived = {}
    PROVE  apply(r, u).derived_volume = None <=> apply(r, u).derived = {}
  <1>1. CASE u.type = "SweepGridded"
    BY <1>1 DEF apply, apply_sweep, clear_pattern, RadarStates
  <1>2. CASE u.type = "DerivedComputed"
    BY <1>2, StateAssumption DEF apply, apply_derived, RadarStates, StateUpdate
  <1>3. CASE u.type = "VolumeClosed"
    BY <1>3 DEF apply, apply_volume_closed, RadarStates
  <1>4. CASE u.type = "Info"
    BY <1>4 DEF apply
  <1> QED BY <1>1, <1>2, <1>3, <1>4 DEF StateUpdate

-----------------------------------------------------------------------------

RadarInv ==
    /\ TypeOK
    /\ RevisionIdentifiesContent
    /\ OnePattern
    /\ DerivedIsDated

(* A new state satisfies the invariant: nothing is shown or uploaded.      *)
LEMMA InitEstablishes == Init => RadarInv
  <1> SUFFICES ASSUME Init PROVE RadarInv
    OBVIOUS
  <1>1. TypeOK
    BY InitType
  <1>2. RevisionIdentifiesContent
    BY DEF Init, RevisionIdentifiesContent
  <1>3. OnePattern /\ DerivedIsDated
    BY DEF Init, OnePattern, DerivedIsDated, new_radar, NoSweeps
  <1> QED BY <1>1, <1>2, <1>3 DEF RadarInv

(* Reporting an event keeps the log a sequence of entries.                 *)
LEMMA ReportType ==
    ASSUME TypeOK, NEW event \in {"LateRadialsDiscarded", "MissingStartChunk", "Other"},
           report(event)
    PROVE  events' \in Seq(Entry) /\ reported' \in Nat
  <1> DEFINE entry == [number |-> reported + 1, event |-> event]
             kept  == IF Len(events) = EventLogCapacity THEN Tail(events) ELSE events
  <1>1. entry \in Entry
    BY DEF TypeOK, Entry
  <1>2. kept \in Seq(Entry)
    BY StateAssumption DEF TypeOK
  <1>3. events' = Append(kept, entry)
    BY DEF report, push
  <1> HIDE DEF entry, kept
  <1>4. Append(kept, entry) \in Seq(Entry)
    BY <1>1, <1>2
  <1>5. reported' \in Nat
    BY DEF report, TypeOK
  <1> QED BY <1>3, <1>4, <1>5

(* Every step preserves the invariant.                                     *)
LEMMA NextPreserves == RadarInv /\ [Next]_vars => RadarInv'
  <1> SUFFICES ASSUME RadarInv, [Next]_vars PROVE RadarInv'
    OBVIOUS
  <1>0. radar \in RadarStates /\ TypeOK
    BY DEF RadarInv, TypeOK
  <1>1. ASSUME NEW u \in StateUpdate, ApplyEvent(u) PROVE RadarInv'
    <2>1. radar' \in RadarStates
      BY <1>0, <1>1, ApplyType DEF ApplyEvent
    <2>2. events' \in Seq(Entry) /\ reported' \in Nat
      <3>1. CASE u.type = "Info"
        BY <1>0, <1>1, <3>1, ReportType DEF ApplyEvent, StateUpdate
      <3>2. CASE u.type # "Info"
        BY <1>0, <1>1, <3>2 DEF ApplyEvent, TypeOK
      <3> QED BY <3>1, <3>2
    <2>3. TypeOK'
      BY <1>0, <1>1, <2>1, <2>2 DEF ApplyEvent, TypeOK
    <2>4. RevisionIdentifiesContent'
      <3>1. /\ radar'.revision >= radar.revision
            /\ radar'.revision = radar.revision => snapshot(radar') = snapshot(radar)
        BY <1>0, <1>1, ApplyRevision DEF ApplyEvent
      <3>2. radar.revision \in Nat /\ radar'.revision \in Nat
        BY <1>0, <2>1 DEF RadarStates
      <3>3. uploaded # None => uploaded.revision \in Nat
        BY <1>0 DEF TypeOK, Snapshots
      <3>4. uploaded' = uploaded
        BY <1>1 DEF ApplyEvent
      <3> QED BY <3>1, <3>2, <3>3, <3>4 DEF RadarInv, RevisionIdentifiesContent
    <2>5. OnePattern'
      BY <1>0, <1>1, ApplyOnePattern DEF ApplyEvent, RadarInv, OnePattern
    <2>6. DerivedIsDated'
      BY <1>0, <1>1, ApplyDerivedDated DEF ApplyEvent, RadarInv, DerivedIsDated
    <2> QED BY <2>3, <2>4, <2>5, <2>6 DEF RadarInv
  <1>2. ASSUME NEW site \in Sites, Reset(site) PROVE RadarInv'
    <2>1. radar.revision \in Nat
      BY <1>0 DEF RadarStates
    <2>2. radar' = [site |-> site, sweeps |-> NoSweeps, derived |-> {}, derived_volume |-> None,
                    current_vcp |-> None, last_complete |-> None, revision |-> radar.revision + 1]
      BY <1>2 DEF Reset, reset, new_radar
    <2>3. TypeOK'
      BY <1>0, <1>2, <2>1, <2>2 DEF Reset, TypeOK, RadarStates, NoSweeps
    <2>4. RevisionIdentifiesContent'
      <3>1. uploaded # None => uploaded.revision \in Nat
        BY <1>0 DEF TypeOK, Snapshots
      <3> QED BY <1>2, <2>1, <2>2, <3>1 DEF Reset, RadarInv, RevisionIdentifiesContent
    <2>5. OnePattern' /\ DerivedIsDated'
      BY <2>2 DEF OnePattern, DerivedIsDated, NoSweeps
    <2> QED BY <2>3, <2>4, <2>5 DEF RadarInv
  <1>3. CASE Report("Other")
    <2>1. events' \in Seq(Entry) /\ reported' \in Nat
      BY <1>0, <1>3, ReportType DEF Report
    <2> QED BY <1>0, <1>3, <2>1
            DEF Report, RadarInv, TypeOK, RevisionIdentifiesContent, OnePattern, DerivedIsDated
  <1>4. CASE Redraw
    <2>1. snapshot(radar) \in Snapshots
      BY <1>0 DEF snapshot, Snapshots, RadarStates
    <2>2. TypeOK'
      BY <1>0, <1>4, <2>1 DEF Redraw, TypeOK
    <2>3. RevisionIdentifiesContent'
      <3>1. radar' = radar /\ uploaded' = snapshot(radar) /\ radar.revision \in Nat
        BY <1>0, <1>4 DEF Redraw, RadarStates
      <3>2. snapshot(radar).revision = radar.revision
        BY DEF snapshot
      <3> QED BY <3>1, <3>2 DEF RevisionIdentifiesContent
    <2> QED BY <1>4, <2>2, <2>3 DEF Redraw, RadarInv, OnePattern, DerivedIsDated
  <1>5. CASE UNCHANGED vars
    BY <1>0, <1>5 DEF vars, RadarInv, TypeOK, RevisionIdentifiesContent, OnePattern,
                      DerivedIsDated, snapshot
  <1> QED BY <1>1, <1>2, <1>3, <1>4, <1>5 DEF Next

(* In every behaviour, whatever updates come in whatever order: when the   *)
(* renderer finds its revision current, what it uploaded is current.       *)
THEOREM RevisionCheckIsSound == Spec => []RevisionIdentifiesContent
  <1>1. RadarInv => RevisionIdentifiesContent
    BY DEF RadarInv
  <1> QED BY <1>1, InitEstablishes, NextPreserves, PTL DEF Spec

(* In every behaviour all sweeps held are of one coverage pattern.         *)
THEOREM PatternsNeverMix == Spec => []OnePattern
  <1>1. RadarInv => OnePattern
    BY DEF RadarInv
  <1> QED BY <1>1, InitEstablishes, NextPreserves, PTL DEF Spec

(* An update of the pattern shown never replaces a sweep or the derived    *)
(* products by older ones.                                                 *)
LEMMA ApplyNeverRegresses ==
    ASSUME NEW r \in RadarStates, NEW u \in StateUpdate,
           apply(r, u).current_vcp = r.current_vcp
    PROVE  /\ \A e \in Elevations :
                r.sweeps[e] # None =>
                    /\ apply(r, u).sweeps[e] # None
                    /\ apply(r, u).sweeps[e].volume >= r.sweeps[e].volume
           /\ r.derived_volume # None =>
                /\ apply(r, u).derived_volume # None
                /\ apply(r, u).derived_volume >= r.derived_volume
  <1>0. /\ \A e \in Elevations : r.sweeps[e] # None => r.sweeps[e].volume \in Nat
        /\ r.derived_volume # None => r.derived_volume \in Nat
    BY StateAssumption DEF RadarStates, DisplaySweep
  <1>1. CASE u.type = "SweepGridded"
    <2> DEFINE shown == [volume |-> u.volume, vcp_number |-> u.vcp_number, grids |-> u.grids]
               c == [r EXCEPT !.current_vcp = u.vcp_number]
               existing == r.sweeps[u.elevation_number]
    <2>1. /\ u.elevation_number \in Elevations /\ u.volume \in Nat
          /\ u.vcp_number \in VcpNumbers /\ u.grids \in SweepGrids /\ u.volume \in VolumeIds
      BY <1>1, StateAssumption DEF StateUpdate
    <2>2. apply_sweep(r, u).current_vcp = u.vcp_number
      BY DEF apply_sweep, clear_pattern, RadarStates
    <2>3. r.current_vcp = u.vcp_number
      BY <1>1, <2>2 DEF apply
    <2>4. apply_sweep(r, u) = IF existing # None /\ u.volume < existing.volume THEN c
                              ELSE [c EXCEPT !.sweeps[u.elevation_number] = shown, !.revision = @ + 1]
      BY <2>3 DEF apply_sweep, RadarStates
    <2>5. shown # None
      BY <2>1, StateAssumption DEF DisplaySweep
    <2>6. apply_sweep(r, u).derived_volume = r.derived_volume
      BY <2>4 DEF RadarStates
    <2>7. ASSUME NEW e \in Elevations, r.sweeps[e] # None
          PROVE  apply_sweep(r, u).sweeps[e] # None /\ apply_sweep(r, u).sweeps[e].volume >= r.sweeps[e].volume
      <3>1. c.sweeps = r.sweeps
        BY DEF RadarStates
      <3>2. CASE apply_sweep(r, u) = c
        BY <1>0, <2>7, <3>1, <3>2
      <3>3. CASE /\ apply_sweep(r, u) = [c EXCEPT !.sweeps[u.elevation_number] = shown, !.revision = @ + 1]
                 /\ ~(existing # None /\ u.volume < existing.volume)
        <4>1. apply_sweep(r, u).sweeps = [r.sweeps EXCEPT ![u.elevation_number] = shown]
          BY <3>1, <3>3 DEF RadarStates
        <4>2. CASE e = u.elevation_number
          <5>1. apply_sweep(r, u).sweeps[e] = shown
            BY <4>1, <4>2 DEF RadarStates
          <5> QED BY <1>0, <2>1, <2>5, <2>7, <3>3, <4>2, <5>1
        <4>3. CASE e # u.elevation_number
          <5>1. apply_sweep(r, u).sweeps[e] = r.sweeps[e]
            BY <4>1, <4>3 DEF RadarStates
          <5> QED BY <1>0, <2>7, <5>1
        <4> QED BY <4>2, <4>3
      <3> QED BY <2>4, <3>2, <3>3
    <2> QED BY <1>0, <1>1, <2>6, <2>7 DEF apply
  <1>2. CASE u.type = "DerivedComputed"
    <2>1. u.volume \in Nat /\ u.volume # None
      BY <1>2, StateAssumption DEF StateUpdate
    <2> QED BY <1>0, <1>2, <2>1 DEF apply, apply_derived, RadarStates
  <1>3. CASE u.type = "VolumeClosed"
    BY <1>0, <1>3 DEF apply, apply_volume_closed, RadarStates
  <1>4. CASE u.type = "Info"
    BY <1>0, <1>4 DEF apply
  <1> QED BY <1>1, <1>2, <1>3, <1>4 DEF StateUpdate

(* In every behaviour nothing shown is replaced by older data unless the   *)
(* pattern changed or the site was switched.                               *)
THEOREM NoRegression == Spec => ShownDataNeverRegresses
  <1> DEFINE NoStepBack ==
        \/ radar'.current_vcp # radar.current_vcp
        \/ /\ \A e \in Elevations :
                radar.sweeps[e] # None =>
                    radar'.sweeps[e] # None /\ radar'.sweeps[e].volume >= radar.sweeps[e].volume
           /\ radar.derived_volume # None =>
                radar'.derived_volume # None /\ radar'.derived_volume >= radar.derived_volume
        \/ \E site \in Sites : Reset(site)
  <1>1. RadarInv /\ [Next]_vars => [NoStepBack]_vars
    <2> SUFFICES ASSUME RadarInv, Next PROVE NoStepBack
      OBVIOUS
    <2>0. radar \in RadarStates
      BY DEF RadarInv, TypeOK
    <2>1. ASSUME NEW u \in StateUpdate, ApplyEvent(u) PROVE NoStepBack
      BY <2>0, <2>1, ApplyNeverRegresses DEF ApplyEvent
    <2>2. CASE radar' = radar
      <3>1. \A e \in Elevations : radar.sweeps[e] # None => radar.sweeps[e].volume \in Nat
        BY <2>0, StateAssumption DEF RadarStates, DisplaySweep
      <3>2. radar.derived_volume # None => radar.derived_volume \in Nat
        BY <2>0, StateAssumption DEF RadarStates
      <3> QED BY <2>2, <3>1, <3>2
    <2>3. CASE Report("Other") \/ Redraw
      BY <2>2, <2>3 DEF Report, Redraw
    <2> QED BY <2>1, <2>3 DEF Next
  <1> QED BY <1>1, InitEstablishes, NextPreserves, PTL DEF Spec, ShownDataNeverRegresses
=============================================================================
