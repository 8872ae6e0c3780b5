------------------------- MODULE VolumeAssemblerProofs -------------------------
(***************************************************************************)
(* SafetyInv of VolumeAssembler is inductive, for any elevations, VCPs,    *)
(* chunks and timeout: whatever chunks are lost, late or undecodable, no   *)
(* elevation of a volume closes twice, nothing is carried into the next    *)
(* volume and every closed sweep has an identity.                          *)
(*                                                                         *)
(* The parts of SafetyInv about the assembler itself are restated for any  *)
(* assembler record, since a handler composes several methods: Sound holds *)
(* after every method, Bounds relates state and content.                   *)
(***************************************************************************)
EXTENDS VolumeAssembler, TLAPS

Elevs(sweeps) == {sweeps[i].elevation_number : i \in DOMAIN sweeps}

EventOK(ev) ==
    /\ ev.type = "VolumeClosed" => OncePerElevation(ev.sweeps)
    /\ ev.type = "SweepClosed" => ev.volume # 0

EventsOK(evs) == \A i \in DOMAIN evs : EventOK(evs[i])

Sound(a) ==
    /\ a \in Assembler
    /\ a.closed_elevations = Elevs(a.closed_sweeps)
    /\ a.current_sweep # None => a.current_sweep.elevation_number \notin a.closed_elevations
    /\ OncePerElevation(a.closed_sweeps)
    /\ EventsOK(a.events)

Bounds(a) ==
    /\ a.state # "Accumulating" =>
         a.current_sweep = None /\ a.closed_sweeps = <<>> /\ a.closed_elevations = {}
    /\ a.state = "Accumulating" <=> a.context.volume # 0

-----------------------------------------------------------------------------
(* Sequences *)

(* Appending a sweep adds its elevation to the elevations of a scan.       *)
LEMMA ElevsAppend ==
    ASSUME NEW s \in Seq(Sweep), NEW x \in Sweep
    PROVE  Elevs(Append(s, x)) = Elevs(s) \cup {x.elevation_number}
  <1>1. DOMAIN Append(s, x) = DOMAIN s \cup {Len(s) + 1}
    OBVIOUS
  <1>2. \A i \in DOMAIN s : Append(s, x)[i] = s[i]
    OBVIOUS
  <1>3. Append(s, x)[Len(s) + 1] = x
    OBVIOUS
  <1> QED BY <1>1, <1>2, <1>3 DEF Elevs

(* A sweep of an elevation not yet in a scan keeps its elevations unique.  *)
LEMMA OnceAppend ==
    ASSUME NEW s \in Seq(Sweep), NEW x \in Sweep,
           OncePerElevation(s), x.elevation_number \notin Elevs(s)
    PROVE  OncePerElevation(Append(s, x))
  <1>1. DOMAIN Append(s, x) = DOMAIN s \cup {Len(s) + 1}
    OBVIOUS
  <1>2. \A i \in DOMAIN s : Append(s, x)[i] = s[i] /\ s[i].elevation_number # x.elevation_number
    BY DEF Elevs
  <1>3. Append(s, x)[Len(s) + 1] = x
    OBVIOUS
  <1> QED BY <1>1, <1>2, <1>3 DEF OncePerElevation

(* Appending a good event keeps all of them good.                          *)
LEMMA EventsAppend ==
    ASSUME NEW s \in Seq(AssemblyEvent), NEW x \in AssemblyEvent, EventsOK(s), EventOK(x)
    PROVE  Append(s, x) \in Seq(AssemblyEvent) /\ EventsOK(Append(s, x))
  <1>1. DOMAIN Append(s, x) = DOMAIN s \cup {Len(s) + 1}
    OBVIOUS
  <1>2. \A i \in DOMAIN s : Append(s, x)[i] = s[i]
    OBVIOUS
  <1>3. Append(s, x)[Len(s) + 1] = x
    OBVIOUS
  <1> QED BY <1>1, <1>2, <1>3 DEF EventsOK

(* So does sending the first one.                                          *)
LEMMA EventsTail ==
    ASSUME NEW s \in Seq(AssemblyEvent), s # <<>>, EventsOK(s)
    PROVE  Tail(s) \in Seq(AssemblyEvent) /\ EventsOK(Tail(s))
  <1>1. \A i \in DOMAIN Tail(s) : i + 1 \in DOMAIN s /\ Tail(s)[i] = s[i + 1]
    OBVIOUS
  <1> QED BY <1>1 DEF EventsOK

-----------------------------------------------------------------------------
(* Methods of VolumeAssembler *)

(* The VCP number in effect is one of those a volume may have.             *)
LEMMA VcpNumberType == \A ctx \in VolumeContext : vcp_number(ctx) \in Vcps \cup {0}
  BY DEF vcp_number, VolumeContext

(* close_sweep of an elevation that is still open, in a volume that has    *)
(* its identity.                                                           *)
LEMMA CloseSweep ==
    ASSUME NEW a, Sound(a), a.context.volume # 0,
           NEW builder \in SweepBuilder, builder.elevation_number \notin a.closed_elevations,
           NEW complete \in BOOLEAN
    PROVE  /\ Sound(close_sweep(a, builder, complete))
           /\ close_sweep(a, builder, complete).current_sweep = None
           /\ close_sweep(a, builder, complete).state = a.state
           /\ close_sweep(a, builder, complete).context = a.context
           /\ close_sweep(a, builder, complete).closed_elevations
                = a.closed_elevations \cup {builder.elevation_number}
  <1> DEFINE sweep == [elevation_number |-> builder.elevation_number,
                       radials |-> builder.radials, complete |-> complete]
             ev == [type |-> "SweepClosed", sweep |-> sweep, volume |-> a.context.volume,
                    vcp_number |-> vcp_number(a.context)]
             b == close_sweep(a, builder, complete)
  <1>1. /\ a \in Assembler /\ a.context \in VolumeContext /\ a.closed_sweeps \in Seq(Sweep)
        /\ a.events \in Seq(AssemblyEvent) /\ a.closed_elevations \in SUBSET Elevations
    BY DEF Sound, Assembler
  <1>2. sweep \in Sweep /\ sweep.elevation_number = builder.elevation_number
    BY DEF Sweep, SweepBuilder
  <1>3. ev \in AssemblyEvent /\ EventOK(ev)
    <2>1. vcp_number(a.context) \in Vcps \cup {0} /\ a.context.volume \in Times \cup {0}
      BY <1>1, VcpNumberType DEF VolumeContext
    <2> HIDE DEF sweep
    <2> QED BY <1>2, <2>1 DEF AssemblyEvent, EventOK
  <1>4. b = [a EXCEPT !.current_sweep = None,
                      !.closed_elevations = @ \cup {builder.elevation_number},
                      !.closed_sweeps = Append(@, sweep),
                      !.events = Append(@, ev)]
    BY DEF close_sweep
  <1> HIDE DEF sweep, ev, b
  <1>5. /\ b.current_sweep = None /\ b.state = a.state /\ b.context = a.context
        /\ b.closed_elevations = a.closed_elevations \cup {builder.elevation_number}
        /\ b.closed_sweeps = Append(a.closed_sweeps, sweep)
        /\ b.events = Append(a.events, ev)
    BY <1>1, <1>4 DEF Assembler
  <1>6. b.events \in Seq(AssemblyEvent) /\ EventsOK(b.events)
    BY <1>1, <1>3, <1>5, EventsAppend DEF Sound
  <1>7. b.closed_sweeps \in Seq(Sweep) /\ OncePerElevation(b.closed_sweeps)
    BY <1>1, <1>2, <1>5, OnceAppend DEF Sound
  <1>8. b.closed_elevations = Elevs(b.closed_sweeps)
    BY <1>1, <1>2, <1>5, ElevsAppend DEF Sound
  <1>9. b \in Assembler
    <2>1. builder.elevation_number \in Elevations
      BY DEF SweepBuilder
    <2>2. a.closed_elevations \cup {builder.elevation_number} \in SUBSET Elevations
      BY <1>1, <2>1
    <2>3. Append(a.events, ev) \in Seq(AssemblyEvent) /\ Append(a.closed_sweeps, sweep) \in Seq(Sweep)
      BY <1>5, <1>6, <1>7
    <2> QED BY <1>1, <1>4, <2>2, <2>3 DEF Assembler
  <1> QED BY <1>5, <1>6, <1>7, <1>8, <1>9 DEF Sound, b

(* Closing whatever sweep is open leaves none open.                        *)
LEMMA CloseOpenSweep ==
    ASSUME NEW a, Sound(a), a.current_sweep # None => a.context.volume # 0
    PROVE  /\ Sound(close_open_sweep(a))
           /\ close_open_sweep(a).current_sweep = None
           /\ close_open_sweep(a).state = a.state
           /\ close_open_sweep(a).context = a.context
  <1>1. CASE a.current_sweep = None
    BY <1>1 DEF close_open_sweep
  <1>2. CASE a.current_sweep # None
    <2>1. a.current_sweep \in SweepBuilder
      BY <1>2 DEF Sound, Assembler
    <2>2. a.current_sweep.elevation_number \notin a.closed_elevations
      BY <1>2 DEF Sound
    <2> QED BY <1>2, <2>1, <2>2, CloseSweep DEF close_open_sweep
  <1> QED BY <1>1, <1>2

(* finish_volume hands the scan on and keeps nothing of it.                *)
LEMMA FinishVolume ==
    ASSUME NEW a, Sound(a), a.current_sweep = None, NEW status \in VolumeStatus
    PROVE  Sound(finish_volume(a, status)) /\ Bounds(finish_volume(a, status))
  <1> DEFINE ev == [type |-> "VolumeClosed", volume |-> a.context.volume,
                    vcp_number |-> vcp_number(a.context),
                    sweeps |-> a.closed_sweeps, status |-> status]
             b == finish_volume(a, status)
  <1>1. /\ a \in Assembler /\ a.context \in VolumeContext /\ a.closed_sweeps \in Seq(Sweep)
        /\ a.events \in Seq(AssemblyEvent)
    BY DEF Sound, Assembler
  <1>2. ev \in AssemblyEvent /\ EventOK(ev)
    <2>1. vcp_number(a.context) \in Vcps \cup {0} /\ a.context.volume \in Times \cup {0}
      BY <1>1, VcpNumberType DEF VolumeContext
    <2>2. OncePerElevation(a.closed_sweeps)
      BY DEF Sound
    <2> QED BY <1>1, <2>1, <2>2 DEF AssemblyEvent, EventOK
  <1>3. default_context \in VolumeContext /\ default_context.volume = 0
    BY DEF default_context, VolumeContext
  <1>4. b = [a EXCEPT !.state = "Idle", !.context = default_context, !.closed_sweeps = <<>>,
                      !.closed_elevations = {}, !.events = Append(@, ev)]
    BY DEF finish_volume
  <1> HIDE DEF ev, b
  <1>5. /\ b.state = "Idle" /\ b.context = default_context /\ b.closed_sweeps = <<>>
        /\ b.closed_elevations = {} /\ b.events = Append(a.events, ev)
        /\ b.current_sweep = None
    BY <1>1, <1>4 DEF Assembler
  <1>6. b.events \in Seq(AssemblyEvent) /\ EventsOK(b.events)
    BY <1>1, <1>2, <1>5, EventsAppend DEF Sound
  <1>7. b \in Assembler
    <2>1. Append(a.events, ev) \in Seq(AssemblyEvent) /\ <<>> \in Seq(Sweep) /\ {} \in SUBSET Elevations
      BY <1>5, <1>6
    <2> QED BY <1>1, <1>3, <1>4, <2>1 DEF Assembler, AssemblyState
  <1>8. Elevs(<<>>) = {} /\ OncePerElevation(<<>>)
    BY DEF Elevs, OncePerElevation
  <1> QED BY <1>3, <1>5, <1>6, <1>7, <1>8 DEF Sound, Bounds, b

(* begin_new_volume, in any state, closes what was open and starts empty.  *)
LEMMA BeginNewVolume ==
    ASSUME NEW a, Sound(a), Bounds(a)
    PROVE  /\ Sound(begin_new_volume(a)) /\ Bounds(begin_new_volume(a))
           /\ begin_new_volume(a).state = "AwaitingData"
  <1> DEFINE b == IF a.state = "Accumulating"
                  THEN finish_volume(close_open_sweep(a), "Superseded") ELSE a
             c == begin_new_volume(a)
  <1>1. Sound(b)
    <2>1. CASE a.state = "Accumulating"
      <3>1. a.context.volume # 0
        BY <2>1 DEF Bounds
      <3>2. Sound(close_open_sweep(a)) /\ close_open_sweep(a).current_sweep = None
        BY <3>1, CloseOpenSweep
      <3> QED BY <2>1, <3>2, FinishVolume DEF VolumeStatus
    <2>2. CASE a.state # "Accumulating"
      BY <2>2
    <2> QED BY <2>1, <2>2
  <1>2. c = [b EXCEPT !.state = "AwaitingData", !.context = default_context,
                      !.current_sweep = None, !.closed_sweeps = <<>>, !.closed_elevations = {}]
    BY DEF begin_new_volume
  <1> HIDE DEF b, c
  <1>3. b \in Assembler /\ EventsOK(b.events)
    BY <1>1 DEF Sound
  <1>4. default_context \in VolumeContext /\ default_context.volume = 0
    BY DEF default_context, VolumeContext
  <1>5. /\ c.state = "AwaitingData" /\ c.context = default_context /\ c.current_sweep = None
        /\ c.closed_sweeps = <<>> /\ c.closed_elevations = {} /\ c.events = b.events
    BY <1>2, <1>3 DEF Assembler
  <1>6. c \in Assembler
    <2>1. <<>> \in Seq(Sweep) /\ {} \in SUBSET Elevations
      OBVIOUS
    <2> QED BY <1>2, <1>3, <1>4, <2>1 DEF Assembler, AssemblyState
  <1>7. Elevs(<<>>) = {} /\ OncePerElevation(<<>>)
    BY DEF Elevs, OncePerElevation
  <1> QED BY <1>3, <1>4, <1>5, <1>6, <1>7 DEF Sound, Bounds, c

(* on_start_chunk adds the VCP of the start chunk, if it has one.          *)
LEMMA StartChunk ==
    ASSUME NEW a, Sound(a), Bounds(a), NEW vcp \in Vcps \cup {0}
    PROVE  Sound(on_start_chunk(a, vcp)) /\ Bounds(on_start_chunk(a, vcp))
  <1> DEFINE b == begin_new_volume(a)
             c == [b EXCEPT !.context = apply_vcp(@, vcp)]
  <1>1. Sound(b) /\ Bounds(b) /\ b.state = "AwaitingData"
    BY BeginNewVolume
  <1>2. CASE vcp = 0
    BY <1>1, <1>2 DEF on_start_chunk
  <1>3. CASE vcp # 0
    <2>1. on_start_chunk(a, vcp) = c
      BY <1>3 DEF on_start_chunk
    <2>2. b \in Assembler /\ b.context \in VolumeContext
      BY <1>1 DEF Sound, Assembler
    <2> HIDE DEF b
    <2>3. apply_vcp(b.context, vcp) \in VolumeContext
          /\ apply_vcp(b.context, vcp).volume = b.context.volume
      BY <2>2 DEF apply_vcp, VolumeContext
    <2>4. /\ c.state = b.state /\ c.current_sweep = b.current_sweep /\ c.events = b.events
          /\ c.closed_sweeps = b.closed_sweeps /\ c.closed_elevations = b.closed_elevations
          /\ c.context.volume = b.context.volume /\ c \in Assembler
      BY <2>2, <2>3 DEF Assembler
    <2> HIDE DEF c
    <2> QED BY <1>1, <2>1, <2>4 DEF Sound, Bounds
  <1> QED BY <1>2, <1>3

(* start_or_push makes the radial's elevation the open sweep.              *)
LEMMA StartOrPush ==
    ASSUME NEW a, Sound(a), a.context.volume # 0, NEW r \in Radial,
           r.elevation_number \notin a.closed_elevations
    PROVE  /\ Sound(start_or_push(a, r))
           /\ start_or_push(a, r).current_sweep \in SweepBuilder
           /\ start_or_push(a, r).current_sweep.elevation_number = r.elevation_number
           /\ start_or_push(a, r).state = a.state
           /\ start_or_push(a, r).context = a.context
  <1> DEFINE fresh == [elevation_number |-> r.elevation_number, radials |-> 1]
             closed == close_sweep(a, a.current_sweep, FALSE)
  <1>0. fresh \in SweepBuilder /\ fresh.elevation_number = r.elevation_number
    BY DEF SweepBuilder, Radial
  <1>1. a \in Assembler /\ None \notin SweepBuilder
    BY ConstantsAssumption DEF Sound
  <1>2. ASSUME NEW b, Sound(b), r.elevation_number \notin b.closed_elevations,
               NEW w \in SweepBuilder, w.elevation_number = r.elevation_number,
               b.state = a.state, b.context = a.context
        PROVE  /\ Sound([b EXCEPT !.current_sweep = w])
               /\ [b EXCEPT !.current_sweep = w].current_sweep = w
               /\ [b EXCEPT !.current_sweep = w].state = a.state
               /\ [b EXCEPT !.current_sweep = w].context = a.context
    <2> DEFINE d == [b EXCEPT !.current_sweep = w]
    <2>1. b \in Assembler
      BY <1>2 DEF Sound
    <2>2. /\ d.current_sweep = w /\ d.state = a.state /\ d.context = a.context
          /\ d.closed_sweeps = b.closed_sweeps /\ d.closed_elevations = b.closed_elevations
          /\ d.events = b.events /\ d \in Assembler
      BY <1>2, <2>1 DEF Assembler
    <2> HIDE DEF d
    <2>3. Sound(d)
      BY <1>2, <2>2 DEF Sound
    <2> QED BY <2>2, <2>3 DEF d
  <1>3. CASE a.current_sweep = None
    BY <1>0, <1>2, <1>3 DEF start_or_push
  <1>4. CASE a.current_sweep # None /\ a.current_sweep.elevation_number = r.elevation_number
    <2> DEFINE w == [a.current_sweep EXCEPT !.radials = @ + 1]
    <2>1. a.current_sweep \in SweepBuilder
      BY <1>1, <1>4 DEF Assembler
    <2>2. w \in SweepBuilder /\ w.elevation_number = r.elevation_number
      BY <1>4, <2>1 DEF SweepBuilder
    <2>3. start_or_push(a, r) = [a EXCEPT !.current_sweep = w]
      BY <1>1, <1>4, <2>1 DEF start_or_push, Assembler, SweepBuilder
    <2> HIDE DEF w
    <2> QED BY <1>2, <2>2, <2>3
  <1>5. CASE a.current_sweep # None /\ a.current_sweep.elevation_number # r.elevation_number
    <2>1. a.current_sweep \in SweepBuilder /\ a.current_sweep.elevation_number \notin a.closed_elevations
      BY <1>1, <1>5 DEF Assembler, Sound
    <2>2. /\ Sound(closed) /\ closed.state = a.state /\ closed.context = a.context
          /\ closed.closed_elevations = a.closed_elevations \cup {a.current_sweep.elevation_number}
      <3>1. PICK builder : builder = a.current_sweep
        OBVIOUS
      <3>2. builder \in SweepBuilder /\ builder.elevation_number \notin a.closed_elevations
        BY <2>1, <3>1
      <3>3. closed = close_sweep(a, builder, FALSE)
        BY <3>1
      <3> HIDE DEF closed
      <3>4. /\ Sound(close_sweep(a, builder, FALSE))
            /\ close_sweep(a, builder, FALSE).state = a.state
            /\ close_sweep(a, builder, FALSE).context = a.context
            /\ close_sweep(a, builder, FALSE).closed_elevations
                 = a.closed_elevations \cup {builder.elevation_number}
        BY <3>2, CloseSweep
      <3> QED BY <3>1, <3>3, <3>4
    <2>3. start_or_push(a, r) = [closed EXCEPT !.current_sweep = fresh]
      BY <1>5 DEF start_or_push
    <2>4. r.elevation_number \notin closed.closed_elevations
      BY <1>5, <2>2
    <2> HIDE DEF closed, fresh
    <2> QED BY <1>0, <1>2, <2>2, <2>3, <2>4
  <1> QED BY <1>3, <1>4, <1>5

(* ingest_radial closes the sweep on a closing radial and keeps state and  *)
(* identity.                                                               *)
LEMMA IngestRadial ==
    ASSUME NEW a, Sound(a), a.context.volume # 0, NEW r \in Radial,
           r.elevation_number \notin a.closed_elevations
    PROVE  /\ Sound(ingest_radial(a, r))
           /\ ingest_radial(a, r).state = a.state
           /\ ingest_radial(a, r).context = a.context
  <1> DEFINE b == start_or_push(a, r)
  <1>1. /\ Sound(b) /\ b.current_sweep \in SweepBuilder
        /\ b.state = a.state /\ b.context = a.context
    BY StartOrPush
  <1>2. b.current_sweep.elevation_number \notin b.closed_elevations
    BY <1>1, ConstantsAssumption DEF Sound
  <1> HIDE DEF b
  <1>3. CASE r.closing
    <2>1. /\ Sound(close_sweep(b, b.current_sweep, TRUE))
          /\ close_sweep(b, b.current_sweep, TRUE).state = b.state
          /\ close_sweep(b, b.current_sweep, TRUE).context = b.context
      BY <1>1, <1>2, CloseSweep
    <2> QED BY <1>1, <1>3, <2>1 DEF ingest_radial, b
  <1>4. CASE ~r.closing
    BY <1>1, <1>4 DEF ingest_radial, b
  <1> QED BY <1>3, <1>4

(* The first radial of a volume gives it its identity, the others keep it. *)
LEMMA TakeOneRadial ==
    ASSUME NEW a, Sound(a), Bounds(a), a.state # "Idle", NEW r \in Radial,
           r.elevation_number \notin a.closed_elevations
    PROVE  /\ Sound(take_radial(a, r)) /\ Bounds(take_radial(a, r))
           /\ take_radial(a, r).state = "Accumulating"
           /\ a.state = "Accumulating" =>
                take_radial(a, r).context.volume = a.context.volume
  <1> DEFINE is_first == a.state = "AwaitingData"
             ctx == apply_radial(a.context, r, is_first)
             b == [a EXCEPT !.state = IF is_first THEN "Accumulating" ELSE @,
                            !.context = apply_radial(@, r, is_first)]
  <1>1. a \in Assembler /\ a.context \in VolumeContext
    BY DEF Sound, Assembler
  <1>2. r.time \in Times /\ r.time # 0 /\ r.site_vcp \in Vcps \cup {0}
    BY ConstantsAssumption DEF Radial
  <1>3. /\ ctx \in VolumeContext
        /\ ctx.volume = IF is_first THEN r.time ELSE a.context.volume
    BY <1>1, <1>2 DEF apply_radial, VolumeContext
  <1>4. a.state \in {"AwaitingData", "Accumulating"}
    BY <1>1 DEF Assembler, AssemblyState
  <1> HIDE DEF ctx
  <1>5. /\ b.state = "Accumulating" /\ b.context = ctx /\ b.current_sweep = a.current_sweep
        /\ b.closed_sweeps = a.closed_sweeps /\ b.closed_elevations = a.closed_elevations
        /\ b.events = a.events /\ b \in Assembler
    BY <1>1, <1>3, <1>4 DEF Assembler, AssemblyState, ctx
  <1>6. take_radial(a, r) = ingest_radial(b, r)
    BY DEF take_radial
  <1> HIDE DEF b
  <1>7. Sound(b) /\ b.context.volume # 0
    BY <1>2, <1>3, <1>4, <1>5 DEF Sound, Bounds
  <1>8. /\ Sound(ingest_radial(b, r)) /\ ingest_radial(b, r).state = "Accumulating"
        /\ ingest_radial(b, r).context = ctx
    BY <1>5, <1>7, IngestRadial
  <1> QED BY <1>3, <1>5, <1>6, <1>7, <1>8 DEF Bounds

-----------------------------------------------------------------------------
(* The task *)

TaskTypeOK ==
    /\ last_activity \in Nat \cup {None}
    /\ pc \in {"select", "radials", "send", "done"}
    /\ kind \in ChunkKind
    /\ radials \in Seq(Radial)
    /\ late_discards \in [Elevations -> Nat]
    /\ received \in Nat

IndInv == Sound(asm) /\ Bounds(asm) /\ TaskTypeOK /\ HandlerInv /\ WatchdogArmed

(* The restated parts are SafetyInv.                                       *)
LEMMA IndInvIsSafetyInv == IndInv <=> SafetyInv
  <1>1. EventsOK(asm.events) <=>
          /\ \A i \in DOMAIN asm.events :
                asm.events[i].type = "VolumeClosed" => OncePerElevation(asm.events[i].sweeps)
          /\ \A i \in DOMAIN asm.events :
                asm.events[i].type = "SweepClosed" => asm.events[i].volume # 0
    BY DEF EventsOK, EventOK
  <1> QED BY <1>1 DEF IndInv, SafetyInv, Sound, Bounds, TaskTypeOK, TypeOK, NothingCarriedOver,
                      ClosedSetsAgree, SweepClosureIsPermanent, SweepsHaveIdentity, Elevs

(* A new assembler is Idle with nothing in hand.                           *)
LEMMA NewAssembler == Sound(new_assembler) /\ Bounds(new_assembler)
  <1>1. default_context \in VolumeContext /\ default_context.volume = 0
    BY DEF default_context, VolumeContext
  <1>2. Elevs(<<>>) = {} /\ OncePerElevation(<<>>) /\ EventsOK(<<>>)
    BY DEF Elevs, OncePerElevation, EventsOK
  <1>3. new_assembler \in Assembler
    BY <1>1 DEF new_assembler, Assembler, AssemblyState
  <1> QED BY <1>1, <1>2, <1>3 DEF new_assembler, Sound, Bounds

(* A new task starts with one.                                             *)
LEMMA InitEstablishes == Init => IndInv
  BY NewAssembler DEF Init, IndInv, TaskTypeOK, HandlerInv, WatchdogArmed, new_assembler,
                      ChunkKind, NoLate

(* A chunk taken from the channel.                                         *)
LEMMA ChunkPreserves ==
    ASSUME IndInv, NEW c \in Chunk, DropUndecodable(c) \/ OnStartChunk(c) \/ OnChunk(c)
    PROVE  IndInv'
  <1>0. /\ c.kind \in ChunkKind /\ c.vcp \in Vcps \cup {0} /\ c.radials \in Seq(Radial)
    BY DEF Chunk
  <1>1. CASE DropUndecodable(c)
    BY <1>1 DEF DropUndecodable, IndInv, TaskTypeOK, HandlerInv, WatchdogArmed
  <1>2. CASE OnStartChunk(c)
    <2>1. asm' = on_start_chunk(asm, c.vcp)
      BY <1>2 DEF OnStartChunk, Forward
    <2>2. Sound(asm') /\ Bounds(asm')
      BY <1>0, <2>1, StartChunk DEF IndInv
    <2>3. TaskTypeOK' /\ HandlerInv' /\ WatchdogArmed'
      BY <1>2, ConstantsAssumption
         DEF OnStartChunk, Forward, IndInv, TaskTypeOK, HandlerInv, WatchdogArmed
    <2> QED BY <2>2, <2>3 DEF IndInv
  <1>3. CASE OnChunk(c)
    <2> DEFINE missing == [type |-> "MissingStartChunk"]
               opened == [asm EXCEPT !.state = "AwaitingData", !.events = Append(@, missing)]
    <2>1. asm \in Assembler
      BY DEF IndInv, Sound
    <2>2. Sound(asm') /\ Bounds(asm') /\ asm'.state # "Idle"
      <3>1. CASE asm.state = "Idle"
        <4>1. asm' = opened
          BY <1>3, <3>1 DEF OnChunk
        <4>2. missing \in AssemblyEvent /\ EventOK(missing)
          BY DEF AssemblyEvent, EventOK
        <4> HIDE DEF missing
        <4>3. Append(asm.events, missing) \in Seq(AssemblyEvent) /\ EventsOK(Append(asm.events, missing))
          BY <2>1, <4>2, EventsAppend DEF IndInv, Sound, Assembler
        <4>4. /\ asm'.state = "AwaitingData" /\ asm'.context = asm.context
              /\ asm'.current_sweep = asm.current_sweep /\ asm'.closed_sweeps = asm.closed_sweeps
              /\ asm'.closed_elevations = asm.closed_elevations
              /\ asm'.events = Append(asm.events, missing) /\ asm' \in Assembler
          BY <2>1, <4>1, <4>3 DEF Assembler, AssemblyState
        <4> QED BY <3>1, <4>3, <4>4 DEF IndInv, Sound, Bounds
      <3>2. CASE asm.state # "Idle"
        BY <1>3, <3>2 DEF OnChunk, IndInv
      <3> QED BY <3>1, <3>2
    <2>3. TaskTypeOK' /\ HandlerInv' /\ WatchdogArmed'
      BY <1>0, <1>3, <2>2, ConstantsAssumption
         DEF OnChunk, IndInv, TaskTypeOK, HandlerInv, WatchdogArmed
    <2> QED BY <2>2, <2>3 DEF IndInv
  <1> QED BY <1>1, <1>2, <1>3

(* Any of the chunks the channel may deliver.                              *)
LEMMA ReceivePreserves ==
    ASSUME IndInv, Receive
    PROVE  IndInv'
  <1>1. PICK c \in Inputs : DropUndecodable(c) \/ OnStartChunk(c) \/ OnChunk(c)
    BY DEF Receive
  <1>2. c \in Chunk
    BY ConstantsAssumption
  <1> QED BY <1>1, <1>2, ChunkPreserves

(* An iteration of on_chunk's loop, or what follows it.                    *)
LEMMA HandlePreserves ==
    ASSUME IndInv, Handle
    PROVE  IndInv'
  <1>0. asm \in Assembler /\ asm.events \in Seq(AssemblyEvent) /\ EventsOK(asm.events)
    BY DEF IndInv, Sound, Assembler
  <1>1. CASE DiscardLateRadial
    <2> DEFINE e == Head(radials).elevation_number
    <2>1. radials' \in Seq(Radial) /\ Head(radials) \in Radial
      BY <1>1 DEF DiscardLateRadial, IndInv, TaskTypeOK
    <2>2. e \in Elevations
      BY <2>1 DEF Radial
    <2>3. late_discards' \in [Elevations -> Nat]
      <3>1. late_discards' = [late_discards EXCEPT ![e] = @ + 1]
        BY <1>1 DEF DiscardLateRadial
      <3> HIDE DEF e
      <3> QED BY <2>2, <3>1 DEF IndInv, TaskTypeOK
    <2> QED BY <1>1, <2>1, <2>3 DEF DiscardLateRadial, IndInv, TaskTypeOK, HandlerInv, WatchdogArmed
  <1>2. CASE TakeRadial
    <2>1. Head(radials) \in Radial /\ Tail(radials) \in Seq(Radial)
      BY <1>2 DEF TakeRadial, IndInv, TaskTypeOK
    <2>2. asm.state # "Idle" /\ last_activity # None
      BY <1>2 DEF TakeRadial, IndInv, HandlerInv, WatchdogArmed
    <2>3. Sound(asm') /\ Bounds(asm') /\ asm'.state = "Accumulating"
      BY <1>2, <2>1, <2>2, TakeOneRadial DEF TakeRadial, IndInv
    <2> QED BY <1>2, <2>1, <2>2, <2>3
            DEF TakeRadial, IndInv, TaskTypeOK, HandlerInv, WatchdogArmed
  <1>3. ASSUME NEW e \in Elevations, ReportLate(e) PROVE IndInv'
    <2> DEFINE ev == [type |-> "LateRadialsDiscarded", elevation_number |-> e,
                      count |-> late_discards[e]]
    <2>1. ev \in AssemblyEvent /\ EventOK(ev)
      BY DEF AssemblyEvent, EventOK, IndInv, TaskTypeOK
    <2>2. asm' = [asm EXCEPT !.events = Append(@, ev)]
      BY <1>3 DEF ReportLate
    <2> HIDE DEF ev
    <2>3. Append(asm.events, ev) \in Seq(AssemblyEvent) /\ EventsOK(Append(asm.events, ev))
      BY <1>0, <2>1, EventsAppend
    <2>4. /\ asm'.state = asm.state /\ asm'.context = asm.context
          /\ asm'.current_sweep = asm.current_sweep /\ asm'.closed_sweeps = asm.closed_sweeps
          /\ asm'.closed_elevations = asm.closed_elevations
          /\ asm'.events = Append(asm.events, ev) /\ asm' \in Assembler
      BY <1>0, <2>2, <2>3 DEF Assembler
    <2>5. Sound(asm') /\ Bounds(asm')
      BY <2>3, <2>4 DEF IndInv, Sound, Bounds
    <2>6. TaskTypeOK'
      BY <1>3 DEF ReportLate, IndInv, TaskTypeOK
    <2>7. HandlerInv' /\ WatchdogArmed'
      BY <1>3, <2>4 DEF ReportLate, IndInv, HandlerInv, WatchdogArmed
    <2> QED BY <2>5, <2>6, <2>7 DEF IndInv
  <1>4. CASE FinishChunk
    <2>1. Sound(asm') /\ Bounds(asm')
      <3>1. CASE kind = "End"
        <4>1. asm.current_sweep # None => asm.context.volume # 0
          BY DEF IndInv, Bounds
        <4>2. Sound(close_open_sweep(asm)) /\ close_open_sweep(asm).current_sweep = None
          BY <4>1, CloseOpenSweep DEF IndInv
        <4> QED BY <1>4, <3>1, <4>2, FinishVolume DEF FinishChunk, Forward, VolumeStatus
      <3>2. CASE kind # "End"
        BY <1>4, <3>2 DEF FinishChunk, Forward, IndInv
      <3> QED BY <3>1, <3>2
    <2>2. last_activity # None
      BY <1>4 DEF FinishChunk, IndInv, HandlerInv, WatchdogArmed
    <2> QED BY <1>4, <2>1, <2>2
            DEF FinishChunk, Forward, IndInv, TaskTypeOK, HandlerInv, WatchdogArmed
  <1> QED BY <1>1, <1>2, <1>3, <1>4 DEF Handle

(* The watchdog.                                                           *)
LEMMA TickPreserves ==
    ASSUME IndInv, OnTick
    PROVE  IndInv'
  <1>1. asm.current_sweep # None => asm.context.volume # 0
    BY DEF IndInv, Bounds
  <1>2. Sound(close_open_sweep(asm)) /\ close_open_sweep(asm).current_sweep = None
    BY <1>1, CloseOpenSweep DEF IndInv
  <1>3. Sound(asm') /\ Bounds(asm')
    BY <1>2, FinishVolume DEF OnTick, Forward, VolumeStatus
  <1> QED BY <1>3 DEF OnTick, Forward, IndInv, TaskTypeOK, HandlerInv, WatchdogArmed

(* The send loop.                                                          *)
LEMMA SendPreserves ==
    ASSUME IndInv, Send
    PROVE  IndInv'
  <1>1. asm \in Assembler /\ asm.events \in Seq(AssemblyEvent) /\ asm.events # <<>>
        /\ asm' = [asm EXCEPT !.events = Tail(@)]
    BY DEF Send, Forward, IndInv, HandlerInv, Sound, Assembler
  <1>2. Tail(asm.events) \in Seq(AssemblyEvent) /\ EventsOK(Tail(asm.events))
    BY <1>1, EventsTail DEF IndInv, Sound
  <1>3. /\ asm'.state = asm.state /\ asm'.context = asm.context
        /\ asm'.current_sweep = asm.current_sweep /\ asm'.closed_sweeps = asm.closed_sweeps
        /\ asm'.closed_elevations = asm.closed_elevations
        /\ asm'.events = Tail(asm.events) /\ asm' \in Assembler
    BY <1>1, <1>2 DEF Assembler
  <1>4. Sound(asm') /\ Bounds(asm')
    BY <1>2, <1>3 DEF IndInv, Sound, Bounds
  <1> QED BY <1>3, <1>4 DEF Send, Forward, IndInv, TaskTypeOK, HandlerInv, WatchdogArmed

(* Every step of the task preserves the invariant.                         *)
LEMMA NextPreserves == IndInv /\ [Next]_vars => IndInv'
  <1> SUFFICES ASSUME IndInv, [Next]_vars PROVE IndInv'
    OBVIOUS
  <1>1. CASE Receive
    BY <1>1, ReceivePreserves
  <1>2. CASE Handle
    BY <1>2, HandlePreserves
  <1>3. CASE OnTick
    BY <1>3, TickPreserves
  <1>4. CASE Send
    BY <1>4, SendPreserves
  <1>5. CASE Return
    BY <1>5 DEF Return, IndInv, TaskTypeOK, HandlerInv, WatchdogArmed
  <1>6. CASE Reset
    BY <1>6, NewAssembler
       DEF Reset, new_assembler, IndInv, TaskTypeOK, HandlerInv, WatchdogArmed
  <1>7. CASE Elapse
    BY <1>7, ConstantsAssumption DEF Elapse, IndInv, TaskTypeOK, HandlerInv, WatchdogArmed
  <1>8. CASE UNCHANGED vars
    BY <1>8 DEF vars, IndInv, TaskTypeOK, HandlerInv, WatchdogArmed
  <1> QED BY <1>1, <1>2, <1>3, <1>4, <1>5, <1>6, <1>7, <1>8 DEF Next

-----------------------------------------------------------------------------
(***************************************************************************)
(* The events of a volume belong together.  Downstream, the sweeps S that  *)
(* were taken from the line of events and those still in the line q must   *)
(* be of the volume that the next VolumeClosed behind them closes, and of  *)
(* elevations of its scan; the ones behind the last VolumeClosed are of    *)
(* the volume under way, with identity v and closed elevations els.        *)
(***************************************************************************)
Of(volume, elevation, v, els) == volume = v /\ elevation \in els

IsClosure(ev) == ev.type = "VolumeClosed"

NoClosure(q, i, j) == \A k \in i..j : k \in DOMAIN q => ~IsClosure(q[k])

Lined(S, q, v, els) ==
    /\ \A j \in DOMAIN q : IsClosure(q[j]) =>
         /\ NoClosure(q, 1, j - 1) =>
              \A s \in S : Of(s.volume, s.elevation_number, q[j].volume, Elevs(q[j].sweeps))
         /\ \A i \in 1..(j - 1) :
              (q[i].type = "SweepClosed" /\ NoClosure(q, i + 1, j - 1)) =>
                  Of(q[i].volume, q[i].sweep.elevation_number, q[j].volume, Elevs(q[j].sweeps))
    /\ NoClosure(q, 1, Len(q)) => \A s \in S : Of(s.volume, s.elevation_number, v, els)
    /\ \A i \in DOMAIN q :
         (q[i].type = "SweepClosed" /\ NoClosure(q, i + 1, Len(q))) =>
             Of(q[i].volume, q[i].sweep.elevation_number, v, els)

(* What an event at the end of the line changes of the closures in it.     *)
LEMMA NoClosureAppend ==
    ASSUME NEW T, NEW q \in Seq(T), NEW x, NEW i \in Nat \ {0}, NEW j \in Nat
    PROVE  /\ j <= Len(q) => (NoClosure(Append(q, x), i, j) <=> NoClosure(q, i, j))
           /\ i <= Len(q) + 1 =>
                (NoClosure(Append(q, x), i, Len(q) + 1) <=> (NoClosure(q, i, Len(q)) /\ ~IsClosure(x)))
  <1>1. DOMAIN Append(q, x) = DOMAIN q \cup {Len(q) + 1} /\ DOMAIN q = 1..Len(q)
    OBVIOUS
  <1>2. \A k \in DOMAIN q : Append(q, x)[k] = q[k]
    OBVIOUS
  <1>3. Append(q, x)[Len(q) + 1] = x
    OBVIOUS
  <1>4. ASSUME j <= Len(q) PROVE NoClosure(Append(q, x), i, j) <=> NoClosure(q, i, j)
    BY <1>1, <1>2, <1>4 DEF NoClosure
  <1>5. ASSUME i <= Len(q) + 1
        PROVE  NoClosure(Append(q, x), i, Len(q) + 1) <=> (NoClosure(q, i, Len(q)) /\ ~IsClosure(x))
    BY <1>1, <1>2, <1>3, <1>5 DEF NoClosure
  <1> QED BY <1>4, <1>5

(* The line and its end grow together: a closure takes over what was open, *)
(* any other event leaves it to the volume under way.                      *)
LEMMA LinedAppend ==
    ASSUME NEW S, NEW T, NEW q \in Seq(T), NEW x, NEW v, NEW els, NEW w, NEW fls,
           Lined(S, q, v, els),
           IsClosure(x) => x.volume = v /\ Elevs(x.sweeps) = els,
           ~IsClosure(x) => (els = {} \/ v = w) /\ els \subseteq fls,
           x.type = "SweepClosed" => Of(x.volume, x.sweep.elevation_number, w, fls)
    PROVE  Lined(S, Append(q, x), w, fls)
  <1> DEFINE p == Append(q, x)
             n == Len(q)
  <1>1. /\ DOMAIN p = DOMAIN q \cup {n + 1} /\ DOMAIN q = 1..n /\ n \in Nat /\ Len(p) = n + 1
        /\ (\A k \in DOMAIN q : p[k] = q[k]) /\ p[n + 1] = x
    OBVIOUS
  <1>2. /\ \A i \in 1..(n + 1) : \A j \in 0..n : NoClosure(p, i, j) <=> NoClosure(q, i, j)
        /\ \A i \in 1..(n + 1) : NoClosure(p, i, n + 1) <=> (NoClosure(q, i, n) /\ ~IsClosure(x))
    BY <1>1, NoClosureAppend
  <1> HIDE DEF p, n
  <1>3. \A a, b : Of(a, b, v, els) => IsClosure(x) \/ Of(a, b, w, fls)
    BY DEF Of
  <1>n. NoClosure(q, 1, n) => \A s \in S : Of(s.volume, s.elevation_number, v, els)
    BY DEF Lined, n
  <1>m. \A i \in DOMAIN q :
         (q[i].type = "SweepClosed" /\ NoClosure(q, i + 1, n)) =>
             Of(q[i].volume, q[i].sweep.elevation_number, v, els)
    BY DEF Lined, n
  <1>4. ASSUME NEW j \in DOMAIN p, IsClosure(p[j]), NoClosure(p, 1, j - 1), NEW s \in S
        PROVE  Of(s.volume, s.elevation_number, p[j].volume, Elevs(p[j].sweeps))
    <2>1. CASE j \in DOMAIN q
      <3>1. p[j] = q[j] /\ NoClosure(q, 1, j - 1)
        BY <1>1, <1>2, <1>4, <2>1
      <3> QED BY <1>4, <2>1, <3>1 DEF Lined
    <2>2. CASE j = n + 1
      <3>1. p[j] = x /\ NoClosure(q, 1, n)
        BY <1>1, <1>2, <1>4, <2>2
      <3> QED BY <1>4, <1>n, <3>1
    <2> QED BY <1>1, <2>1, <2>2
  <1>5. ASSUME NEW j \in DOMAIN p, IsClosure(p[j]), NEW i \in 1..(j - 1),
               p[i].type = "SweepClosed", NoClosure(p, i + 1, j - 1)
        PROVE  Of(p[i].volume, p[i].sweep.elevation_number, p[j].volume, Elevs(p[j].sweeps))
    <2>0. i \in DOMAIN q /\ p[i] = q[i]
      BY <1>1
    <2>1. CASE j \in DOMAIN q
      <3>1. p[j] = q[j] /\ NoClosure(q, i + 1, j - 1)
        BY <1>1, <1>2, <1>5, <2>1
      <3> QED BY <1>5, <2>0, <2>1, <3>1 DEF Lined
    <2>2. CASE j = n + 1
      <3>1. p[j] = x /\ NoClosure(q, i + 1, n)
        BY <1>1, <1>2, <1>5, <2>0, <2>2
      <3> QED BY <1>5, <1>m, <2>0, <3>1
    <2> QED BY <1>1, <2>1, <2>2
  <1>6. ASSUME NoClosure(p, 1, n + 1), NEW s \in S PROVE Of(s.volume, s.elevation_number, w, fls)
    <2>1. 1 \in 1..(n + 1)
      BY <1>1
    <2>2. NoClosure(q, 1, n) /\ ~IsClosure(x)
      BY <1>2, <1>6, <2>1
    <2> QED BY <1>3, <1>n, <2>2
  <1>7. ASSUME NEW i \in DOMAIN p, p[i].type = "SweepClosed", NoClosure(p, i + 1, n + 1)
        PROVE  Of(p[i].volume, p[i].sweep.elevation_number, w, fls)
    <2>1. CASE i \in DOMAIN q
      <3>1. i + 1 \in 1..(n + 1)
        BY <1>1, <2>1
      <3>2. NoClosure(q, i + 1, n) /\ ~IsClosure(x)
        BY <1>2, <1>7, <3>1
      <3> QED BY <1>1, <1>3, <1>7, <1>m, <2>1, <3>2
    <2>2. CASE i = n + 1
      BY <1>1, <1>7, <2>2
    <2> QED BY <1>1, <2>1, <2>2
  <1>8. Lined(S, p, w, fls)
    BY <1>1, <1>4, <1>5, <1>6, <1>7 DEF Lined
  <1> QED BY <1>8 DEF p

(* While nothing of the volume is in the line its identity may be set.     *)
LEMMA LinedEmpty ==
    ASSUME NEW S, NEW q, NEW v, NEW w, NEW fls, Lined(S, q, v, {})
    PROVE  Lined(S, q, w, fls)
  BY DEF Lined, Of

(* Taking the first event off the line: a sweep joins S, a closure ends    *)
(* what was in S.                                                          *)
LEMMA LinedTail ==
    ASSUME NEW S, NEW T, NEW q \in Seq(T), q # <<>>, NEW v, NEW els, Lined(S, q, v, els), NEW P,
           \A s \in P : /\ ~IsClosure(Head(q))
                        /\ \/ s \in S
                           \/ /\ Head(q).type = "SweepClosed"
                              /\ s.volume = Head(q).volume
                              /\ s.elevation_number = Head(q).sweep.elevation_number
    PROVE  Lined(P, Tail(q), v, els)
  <1> DEFINE p == Tail(q)
             n == Len(q)
  <1>1. /\ DOMAIN p = 1..(n - 1) /\ DOMAIN q = 1..n /\ n \in Nat /\ n > 0 /\ Len(p) = n - 1
        /\ (\A k \in DOMAIN p : k + 1 \in DOMAIN q /\ p[k] = q[k + 1]) /\ Head(q) = q[1]
    OBVIOUS
  <1> HIDE DEF p, n
  <1>2. \A i \in 1..n : \A j \in 0..(n - 1) :
            NoClosure(p, i, j) => NoClosure(q, i + 1, j + 1)
    <2> SUFFICES ASSUME NEW i \in 1..n, NEW j \in 0..(n - 1), NoClosure(p, i, j),
                        NEW k \in (i + 1)..(j + 1), k \in DOMAIN q
                 PROVE  ~IsClosure(q[k])
      BY DEF NoClosure
    <2>1. k - 1 \in i..j /\ k - 1 \in DOMAIN p /\ (k - 1) + 1 = k
      BY <1>1
    <2> QED BY <1>1, <2>1 DEF NoClosure
  <1>3. \A j \in 0..(n - 1) : NoClosure(p, 1, j) /\ ~IsClosure(q[1]) => NoClosure(q, 1, j + 1)
    <2> SUFFICES ASSUME NEW j \in 0..(n - 1), NoClosure(p, 1, j), ~IsClosure(q[1]),
                        NEW k \in 1..(j + 1), k \in DOMAIN q
                 PROVE  ~IsClosure(q[k])
      BY DEF NoClosure
    <2>1. 1 \in 1..n
      BY <1>1
    <2>2. NoClosure(q, 2, j + 1)
      BY <1>2, <2>1
    <2>3. k = 1 \/ k \in 2..(j + 1)
      BY <1>1
    <2> QED BY <2>2, <2>3 DEF NoClosure
  <1>4. ASSUME NEW j \in 1..n, NEW i \in 1..(j - 1), IsClosure(q[j]),
               q[i].type = "SweepClosed", NoClosure(q, i + 1, j - 1)
        PROVE  Of(q[i].volume, q[i].sweep.elevation_number, q[j].volume, Elevs(q[j].sweeps))
    BY <1>1, <1>4 DEF Lined
  <1>5. ASSUME NEW j \in DOMAIN p, IsClosure(p[j]), NoClosure(p, 1, j - 1), NEW s \in P
        PROVE  Of(s.volume, s.elevation_number, p[j].volume, Elevs(p[j].sweeps))
    <2>1. p[j] = q[j + 1] /\ j + 1 \in DOMAIN q /\ ~IsClosure(q[1]) /\ j - 1 \in 0..(n - 1)
          /\ j + 1 \in 1..n /\ (j + 1) - 1 = j /\ 1 \in 1..n
      BY <1>1
    <2>2. NoClosure(q, 1, j) /\ NoClosure(q, 2, j)
      BY <1>2, <1>3, <1>5, <2>1
    <2>3. CASE s \in S
      BY <1>5, <2>1, <2>2, <2>3 DEF Lined
    <2>4. CASE /\ Head(q).type = "SweepClosed"
               /\ s.volume = Head(q).volume
               /\ s.elevation_number = Head(q).sweep.elevation_number
      <3>1. 1 \in 1..((j + 1) - 1)
        BY <1>1
      <3> QED BY <1>1, <1>4, <1>5, <2>1, <2>2, <2>4, <3>1
    <2> QED BY <2>3, <2>4
  <1>6. ASSUME NEW j \in DOMAIN p, IsClosure(p[j]), NEW i \in 1..(j - 1),
               p[i].type = "SweepClosed", NoClosure(p, i + 1, j - 1)
        PROVE  Of(p[i].volume, p[i].sweep.elevation_number, p[j].volume, Elevs(p[j].sweeps))
    <2>1. /\ p[j] = q[j + 1] /\ p[i] = q[i + 1] /\ j + 1 \in 1..n /\ (j + 1) - 1 = j
          /\ i + 1 \in 1..n /\ j - 1 \in 0..(n - 1) /\ i + 1 \in 1..((j + 1) - 1)
          /\ (j - 1) + 1 = j
      BY <1>1
    <2>2. NoClosure(q, (i + 1) + 1, j)
      BY <1>2, <1>6, <2>1
    <2> QED BY <1>4, <1>6, <2>1, <2>2
  <1>7. ASSUME NoClosure(p, 1, n - 1), NEW s \in P PROVE Of(s.volume, s.elevation_number, v, els)
    <2>1. ~IsClosure(q[1]) /\ n - 1 \in 0..(n - 1) /\ (n - 1) + 1 = n /\ 1 \in 1..n
      BY <1>1
    <2>2. NoClosure(q, 1, n) /\ NoClosure(q, 2, n)
      BY <1>2, <1>3, <1>7, <2>1
    <2>3. CASE s \in S
      BY <2>2, <2>3 DEF Lined, n
    <2>4. CASE /\ Head(q).type = "SweepClosed"
               /\ s.volume = Head(q).volume
               /\ s.elevation_number = Head(q).sweep.elevation_number
      BY <1>1, <2>1, <2>2, <2>4 DEF Lined, n
    <2> QED BY <2>3, <2>4
  <1>8. ASSUME NEW i \in DOMAIN p, p[i].type = "SweepClosed", NoClosure(p, i + 1, n - 1)
        PROVE  Of(p[i].volume, p[i].sweep.elevation_number, v, els)
    <2>1. /\ p[i] = q[i + 1] /\ i + 1 \in DOMAIN q /\ i + 1 \in 1..n
          /\ n - 1 \in 0..(n - 1) /\ (n - 1) + 1 = n
      BY <1>1
    <2>2. NoClosure(q, (i + 1) + 1, n)
      BY <1>2, <1>8, <2>1
    <2> QED BY <1>8, <2>1, <2>2 DEF Lined, n
  <1>9. Lined(P, p, v, els)
    BY <1>1, <1>5, <1>6, <1>7, <1>8 DEF Lined
  <1> QED BY <1>9 DEF p

(* The events p handed on and those of the assembler, with the volume it   *)
(* has under way.                                                          *)
Follows(S, p, a) == Lined(S, p \o a.events, a.context.volume, Elevs(a.closed_sweeps))

(* Whatever a method appends to the events it appends to the line.         *)
LEMMA FollowsAppend ==
    ASSUME NEW S, NEW p \in Seq(AssemblyEvent), NEW a, NEW b, NEW x,
           a.events \in Seq(AssemblyEvent), x \in AssemblyEvent, Follows(S, p, a),
           b.events = Append(a.events, x),
           IsClosure(x) => x.volume = a.context.volume /\ Elevs(x.sweeps) = Elevs(a.closed_sweeps),
           ~IsClosure(x) => /\ b.context.volume = a.context.volume
                            /\ Elevs(a.closed_sweeps) \subseteq Elevs(b.closed_sweeps),
           x.type = "SweepClosed" =>
               Of(x.volume, x.sweep.elevation_number, b.context.volume, Elevs(b.closed_sweeps))
    PROVE  Follows(S, p, b)
  <1>1. p \o a.events \in Seq(AssemblyEvent) /\ p \o b.events = Append(p \o a.events, x)
    OBVIOUS
  <1> QED BY <1>1, LinedAppend DEF Follows

(* Taking the first of the events handed on.                               *)
LEMMA FollowsTail ==
    ASSUME NEW S, NEW p \in Seq(AssemblyEvent), p # <<>>, NEW a,
           a.events \in Seq(AssemblyEvent), Follows(S, p, a), NEW P,
           \A s \in P : /\ ~IsClosure(Head(p))
                        /\ \/ s \in S
                           \/ /\ Head(p).type = "SweepClosed"
                              /\ s.volume = Head(p).volume
                              /\ s.elevation_number = Head(p).sweep.elevation_number
    PROVE  Follows(P, Tail(p), a)
  <1> DEFINE q == p \o a.events
  <1>1. q \in Seq(AssemblyEvent) /\ q # <<>> /\ Head(q) = Head(p)
    OBVIOUS
  <1>2. Tail(q) = Tail(p) \o a.events
    OBVIOUS
  <1>3. Lined(S, q, a.context.volume, Elevs(a.closed_sweeps))
    BY DEF Follows
  <1> HIDE DEF q
  <1>4. Lined(P, Tail(q), a.context.volume, Elevs(a.closed_sweeps))
    BY <1>1, <1>3, LinedTail
  <1> QED BY <1>2, <1>4 DEF Follows

(* What the first event closes is what was taken before it.                *)
LEMMA FollowsHead ==
    ASSUME NEW S, NEW p \in Seq(AssemblyEvent), p # <<>>, NEW a,
           a.events \in Seq(AssemblyEvent), Follows(S, p, a), IsClosure(Head(p)), NEW s \in S
    PROVE  Of(s.volume, s.elevation_number, Head(p).volume, Elevs(Head(p).sweeps))
  <1> DEFINE q == p \o a.events
  <1>1. 1 \in DOMAIN q /\ q[1] = Head(p)
    OBVIOUS
  <1>2. Lined(S, q, a.context.volume, Elevs(a.closed_sweeps))
    BY DEF Follows
  <1> HIDE DEF q
  <1>3. NoClosure(q, 1, 1 - 1)
    BY DEF NoClosure
  <1> QED BY <1>1, <1>2, <1>3 DEF Lined

(* close_sweep announces a sweep of the volume under way.                  *)
LEMMA CloseSweepFollows ==
    ASSUME NEW S, NEW p \in Seq(AssemblyEvent), NEW a \in Assembler, Follows(S, p, a),
           NEW builder \in SweepBuilder, NEW complete \in BOOLEAN
    PROVE  Follows(S, p, close_sweep(a, builder, complete))
  <1> DEFINE sweep == [elevation_number |-> builder.elevation_number,
                       radials |-> builder.radials, complete |-> complete]
             x == [type |-> "SweepClosed", sweep |-> sweep, volume |-> a.context.volume,
                   vcp_number |-> vcp_number(a.context)]
             b == close_sweep(a, builder, complete)
  <1>1. /\ a.context \in VolumeContext /\ a.closed_sweeps \in Seq(Sweep)
        /\ a.events \in Seq(AssemblyEvent)
    BY DEF Assembler
  <1>2. sweep \in Sweep /\ sweep.elevation_number = builder.elevation_number
    BY DEF Sweep, SweepBuilder
  <1>3. x \in AssemblyEvent
    <2>1. vcp_number(a.context) \in Vcps \cup {0} /\ a.context.volume \in Times \cup {0}
      BY <1>1, VcpNumberType DEF VolumeContext
    <2> HIDE DEF sweep
    <2> QED BY <1>2, <2>1 DEF AssemblyEvent
  <1>4. x.type = "SweepClosed" /\ x.volume = a.context.volume /\ x.sweep = sweep
    OBVIOUS
  <1>5. b = [a EXCEPT !.current_sweep = None,
                      !.closed_elevations = @ \cup {builder.elevation_number},
                      !.closed_sweeps = Append(@, sweep),
                      !.events = Append(@, x)]
    BY DEF close_sweep
  <1> HIDE DEF sweep, x, b
  <1>6. /\ b.context = a.context /\ b.events = Append(a.events, x)
        /\ b.closed_sweeps = Append(a.closed_sweeps, sweep)
    BY <1>5 DEF Assembler
  <1>7. Elevs(b.closed_sweeps) = Elevs(a.closed_sweeps) \cup {builder.elevation_number}
    BY <1>1, <1>2, <1>6, ElevsAppend
  <1>8. Follows(S, p, b)
    BY <1>1, <1>2, <1>3, <1>4, <1>6, <1>7, FollowsAppend DEF IsClosure, Of
  <1> QED BY <1>8 DEF b

(* So does closing whatever is open.                                       *)
LEMMA CloseOpenSweepFollows ==
    ASSUME NEW S, NEW p \in Seq(AssemblyEvent), NEW a \in Assembler, Follows(S, p, a)
    PROVE  Follows(S, p, close_open_sweep(a))
  <1>1. CASE a.current_sweep = None
    BY <1>1 DEF close_open_sweep
  <1>2. CASE a.current_sweep # None
    <2>1. a.current_sweep \in SweepBuilder
      BY <1>2 DEF Assembler
    <2> QED BY <1>2, <2>1, CloseSweepFollows DEF close_open_sweep
  <1> QED BY <1>1, <1>2

(* finish_volume closes the volume under way and leaves none.              *)
LEMMA FinishVolumeFollows ==
    ASSUME NEW S, NEW p \in Seq(AssemblyEvent), NEW a \in Assembler, Follows(S, p, a),
           NEW status \in VolumeStatus
    PROVE  Follows(S, p, finish_volume(a, status))
  <1> DEFINE x == [type |-> "VolumeClosed", volume |-> a.context.volume,
                   vcp_number |-> vcp_number(a.context),
                   sweeps |-> a.closed_sweeps, status |-> status]
             b == finish_volume(a, status)
  <1>1. /\ a.context \in VolumeContext /\ a.closed_sweeps \in Seq(Sweep)
        /\ a.events \in Seq(AssemblyEvent)
    BY DEF Assembler
  <1>2. x \in AssemblyEvent
    <2>1. vcp_number(a.context) \in Vcps \cup {0} /\ a.context.volume \in Times \cup {0}
      BY <1>1, VcpNumberType DEF VolumeContext
    <2> QED BY <1>1, <2>1 DEF AssemblyEvent
  <1>3. x.type = "VolumeClosed" /\ x.volume = a.context.volume /\ x.sweeps = a.closed_sweeps
    OBVIOUS
  <1>4. b = [a EXCEPT !.state = "Idle", !.context = default_context, !.closed_sweeps = <<>>,
                      !.closed_elevations = {}, !.events = Append(@, x)]
    BY DEF finish_volume
  <1> HIDE DEF x, b
  <1>5. b.events = Append(a.events, x)
    BY <1>4 DEF Assembler
  <1>6. Follows(S, p, b)
    BY <1>1, <1>2, <1>3, <1>5, FollowsAppend DEF IsClosure
  <1> QED BY <1>6 DEF b

(* A method that leaves the events alone, while the volume has no sweep.   *)
LEMMA FollowsUnmarked ==
    ASSUME NEW S, NEW p, NEW a, NEW b, Follows(S, p, a), b.events = a.events,
           \/ a.closed_sweeps = <<>>
           \/ b.closed_sweeps = a.closed_sweeps /\ b.context.volume = a.context.volume
    PROVE  Follows(S, p, b)
  <1>1. Elevs(<<>>) = {}
    BY DEF Elevs
  <1> QED BY <1>1, LinedEmpty DEF Follows

(* on_start_chunk supersedes the volume under way.                         *)
LEMMA StartChunkFollows ==
    ASSUME NEW S, NEW p \in Seq(AssemblyEvent), NEW a, Sound(a), Bounds(a), Follows(S, p, a),
           NEW vcp \in Vcps \cup {0}
    PROVE  Follows(S, p, on_start_chunk(a, vcp))
  <1> DEFINE b == IF a.state = "Accumulating"
                  THEN finish_volume(close_open_sweep(a), "Superseded") ELSE a
             c == begin_new_volume(a)
             d == on_start_chunk(a, vcp)
  <1>0. a \in Assembler
    BY DEF Sound
  <1>1. Sound(b) /\ Follows(S, p, b) /\ b.closed_sweeps = <<>>
    <2>1. CASE a.state = "Accumulating"
      <3>1. Sound(close_open_sweep(a)) /\ close_open_sweep(a).current_sweep = None
        BY <2>1, CloseOpenSweep DEF Bounds
      <3>2. Follows(S, p, close_open_sweep(a)) /\ close_open_sweep(a) \in Assembler
        BY <1>0, <3>1, CloseOpenSweepFollows DEF Sound
      <3>3. Sound(b)
        BY <2>1, <3>1, FinishVolume DEF VolumeStatus
      <3>4. Follows(S, p, b)
        BY <2>1, <3>2, FinishVolumeFollows DEF VolumeStatus
      <3>5. b.closed_sweeps = <<>>
        BY <2>1, <3>2 DEF finish_volume, Assembler
      <3> QED BY <3>3, <3>4, <3>5
    <2>2. CASE a.state # "Accumulating"
      BY <2>2 DEF Bounds
    <2> QED BY <2>1, <2>2
  <1>2. c = [b EXCEPT !.state = "AwaitingData", !.context = default_context,
                      !.current_sweep = None, !.closed_sweeps = <<>>, !.closed_elevations = {}]
    BY DEF begin_new_volume
  <1> HIDE DEF b
  <1>3. c.events = b.events /\ c.closed_sweeps = <<>>
    BY <1>1, <1>2 DEF Sound, Assembler
  <1>4. Sound(c)
    BY BeginNewVolume
  <1> HIDE DEF c
  <1>5. Follows(S, p, c)
    BY <1>1, <1>3, FollowsUnmarked
  <1>6. d.events = c.events
    BY <1>4 DEF on_start_chunk, c, Sound, Assembler
  <1> HIDE DEF d
  <1>7. Follows(S, p, d)
    BY <1>3, <1>5, <1>6, FollowsUnmarked
  <1> QED BY <1>7 DEF d

(* A radial may close a sweep of its volume, twice at most.                *)
LEMMA TakeRadialFollows ==
    ASSUME NEW S, NEW p \in Seq(AssemblyEvent), NEW a, Sound(a), Bounds(a), Follows(S, p, a),
           a.state # "Idle", NEW r \in Radial, r.elevation_number \notin a.closed_elevations
    PROVE  Follows(S, p, take_radial(a, r))
  <1> DEFINE is_first == a.state = "AwaitingData"
             ctx == apply_radial(a.context, r, is_first)
             b == [a EXCEPT !.state = IF is_first THEN "Accumulating" ELSE @,
                            !.context = apply_radial(@, r, is_first)]
             c == start_or_push(b, r)
  <1>1. a \in Assembler /\ a.context \in VolumeContext
    BY DEF Sound, Assembler
  <1>2. r.time \in Times /\ r.time # 0 /\ r.site_vcp \in Vcps \cup {0}
    BY ConstantsAssumption DEF Radial
  <1>3. /\ ctx \in VolumeContext
        /\ ctx.volume = IF is_first THEN r.time ELSE a.context.volume
    BY <1>1, <1>2 DEF apply_radial, VolumeContext
  <1>4. a.state \in {"AwaitingData", "Accumulating"}
    BY <1>1 DEF Assembler, AssemblyState
  <1> HIDE DEF ctx
  <1>5. /\ b.state = "Accumulating" /\ b.context = ctx /\ b.current_sweep = a.current_sweep
        /\ b.closed_sweeps = a.closed_sweeps /\ b.closed_elevations = a.closed_elevations
        /\ b.events = a.events /\ b \in Assembler
    BY <1>1, <1>3, <1>4 DEF Assembler, AssemblyState, ctx
  <1>6. take_radial(a, r) = IF r.closing THEN close_sweep(c, c.current_sweep, TRUE) ELSE c
    BY DEF take_radial, ingest_radial
  <1> HIDE DEF b
  <1>7. Sound(b) /\ b.context.volume # 0
    BY <1>2, <1>3, <1>4, <1>5 DEF Sound, Bounds
  <1>8. Follows(S, p, b)
    <2>1. \/ a.closed_sweeps = <<>>
          \/ b.closed_sweeps = a.closed_sweeps /\ b.context.volume = a.context.volume
      BY <1>3, <1>5 DEF Bounds
    <2> QED BY <1>5, <2>1, FollowsUnmarked
  <1>9. Sound(c) /\ c.current_sweep \in SweepBuilder
    BY <1>5, <1>7, StartOrPush
  <1>10. Follows(S, p, c)
    <2> DEFINE fresh == [elevation_number |-> r.elevation_number, radials |-> 1]
    <2>1. CASE b.current_sweep = None \/ b.current_sweep.elevation_number = r.elevation_number
      <3>1. c.events = b.events /\ c.closed_sweeps = b.closed_sweeps /\ c.context = b.context
        BY <1>5, <2>1 DEF start_or_push, Assembler
      <3> QED BY <1>8, <3>1, FollowsUnmarked
    <2>2. CASE b.current_sweep # None /\ b.current_sweep.elevation_number # r.elevation_number
      <3> DEFINE d == close_sweep(b, b.current_sweep, FALSE)
      <3>1. b.current_sweep \in SweepBuilder /\ b.current_sweep.elevation_number \notin b.closed_elevations
        BY <1>5, <1>7, <2>2 DEF Assembler, Sound
      <3>2. Sound(d) /\ Follows(S, p, d)
        BY <1>5, <1>7, <1>8, <3>1, CloseSweep, CloseSweepFollows
      <3>3. c = [d EXCEPT !.current_sweep = fresh]
        BY <2>2 DEF start_or_push
      <3> HIDE DEF d, fresh, c
      <3>4. c.events = d.events /\ c.closed_sweeps = d.closed_sweeps /\ c.context = d.context
        BY <3>2, <3>3 DEF Sound, Assembler
      <3> QED BY <3>2, <3>4, FollowsUnmarked
    <2> QED BY <2>1, <2>2
  <1> HIDE DEF c
  <1> QED BY <1>6, <1>9, <1>10, CloseSweepFollows DEF Sound

(* A step of the task that hands no event on keeps the line in order, for  *)
(* any events p before its own.                                            *)
LEMMA TaskFollows ==
    ASSUME IndInv, NEW S, NEW p \in Seq(AssemblyEvent), Follows(S, p, asm),
           \/ Handle \/ OnTick
           \/ \E c \in Chunk : DropUndecodable(c) \/ OnStartChunk(c) \/ OnChunk(c)
    PROVE  Follows(S, p, asm')
  <1>0. /\ asm \in Assembler /\ Sound(asm) /\ Bounds(asm) /\ asm.events \in Seq(AssemblyEvent)
        /\ asm.context \in VolumeContext
    BY DEF IndInv, Sound, Assembler
  <1>1. ASSUME NEW x \in AssemblyEvent, x.type \notin {"VolumeClosed", "SweepClosed"},
               asm'.events = Append(asm.events, x), asm'.closed_sweeps = asm.closed_sweeps,
               asm'.context = asm.context
        PROVE  Follows(S, p, asm')
    BY <1>0, <1>1, FollowsAppend DEF IsClosure
  <1>2. ASSUME NEW status \in VolumeStatus, asm' = finish_volume(close_open_sweep(asm), status)
        PROVE  Follows(S, p, asm')
    <2>1. Sound(close_open_sweep(asm))
      BY <1>0, CloseOpenSweep DEF Bounds
    <2>2. close_open_sweep(asm) \in Assembler /\ Follows(S, p, close_open_sweep(asm))
      BY <1>0, <2>1, CloseOpenSweepFollows DEF Sound
    <2> QED BY <1>2, <2>2, FinishVolumeFollows
  <1>3. CASE asm' = asm
    BY <1>3
  <1>4. ASSUME NEW c \in Chunk, OnStartChunk(c) PROVE Follows(S, p, asm')
    <2>1. c.vcp \in Vcps \cup {0} /\ asm' = on_start_chunk(asm, c.vcp)
      BY <1>4 DEF Chunk, OnStartChunk, Forward
    <2> QED BY <1>0, <2>1, StartChunkFollows
  <1>5. ASSUME NEW c \in Chunk, OnChunk(c) PROVE Follows(S, p, asm')
    <2>1. CASE asm.state = "Idle"
      <3> DEFINE x == [type |-> "MissingStartChunk"]
      <3>1. x \in AssemblyEvent /\ x.type = "MissingStartChunk"
        BY DEF AssemblyEvent
      <3>2. asm' = [asm EXCEPT !.state = "AwaitingData", !.events = Append(@, x)]
        BY <1>5, <2>1 DEF OnChunk
      <3> HIDE DEF x
      <3>3. /\ asm'.events = Append(asm.events, x) /\ asm'.closed_sweeps = asm.closed_sweeps
            /\ asm'.context = asm.context
        BY <1>0, <3>2 DEF Assembler
      <3> QED BY <1>1, <3>1, <3>3
    <2>2. CASE asm.state # "Idle"
      BY <1>3, <1>5, <2>2 DEF OnChunk
    <2> QED BY <2>1, <2>2
  <1>6. CASE TakeRadial
    <2>1. Head(radials) \in Radial /\ asm.state # "Idle"
      BY <1>6 DEF TakeRadial, IndInv, TaskTypeOK, HandlerInv
    <2> QED BY <1>0, <1>6, <2>1, TakeRadialFollows DEF TakeRadial
  <1>7. ASSUME NEW e \in Elevations, ReportLate(e) PROVE Follows(S, p, asm')
    <2> DEFINE x == [type |-> "LateRadialsDiscarded", elevation_number |-> e,
                     count |-> late_discards[e]]
    <2>1. x \in AssemblyEvent /\ x.type = "LateRadialsDiscarded"
      BY DEF AssemblyEvent, IndInv, TaskTypeOK
    <2>2. asm' = [asm EXCEPT !.events = Append(@, x)]
      BY <1>7 DEF ReportLate
    <2> HIDE DEF x
    <2>3. /\ asm'.events = Append(asm.events, x) /\ asm'.closed_sweeps = asm.closed_sweeps
          /\ asm'.context = asm.context
      BY <1>0, <2>2 DEF Assembler
    <2> QED BY <1>1, <2>1, <2>3
  <1>8. CASE FinishChunk
    BY <1>2, <1>3, <1>8 DEF FinishChunk, Forward, VolumeStatus
  <1>9. CASE OnTick
    BY <1>2, <1>9 DEF OnTick, Forward, VolumeStatus
  <1>10. CASE DiscardLateRadial \/ \E c \in Chunk : DropUndecodable(c)
    BY <1>3, <1>10 DEF DiscardLateRadial, DropUndecodable
  <1> QED BY <1>4, <1>5, <1>6, <1>7, <1>8, <1>9, <1>10 DEF Handle

-----------------------------------------------------------------------------

(* In every behaviour, for any chunks in any order: the inductive          *)
(* invariant of the assembly task.                                         *)
THEOREM AssemblerIsSafe == Spec => []SafetyInv
  BY IndInvIsSafetyInv, InitEstablishes, NextPreserves, PTL DEF Spec

(* In every behaviour all variables keep the shape of the Rust types.      *)
THEOREM AssemblerTypeOK == Spec => []TypeOK
  <1>1. SafetyInv => TypeOK
    BY DEF SafetyInv
  <1> QED BY <1>1, AssemblerIsSafe, PTL

(* In every behaviour an elevation closes at most once in a volume.        *)
THEOREM ClosureIsPermanent == Spec => []SweepClosureIsPermanent
  <1>1. SafetyInv => SweepClosureIsPermanent
    BY DEF SafetyInv
  <1> QED BY <1>1, AssemblerIsSafe, PTL

(* In every behaviour no open or closed sweep outlives its volume.         *)
THEOREM VolumesAreSeparate == Spec => []NothingCarriedOver
  <1>1. SafetyInv => NothingCarriedOver
    BY DEF SafetyInv
  <1> QED BY <1>1, AssemblerIsSafe, PTL

(* In every behaviour a closed sweep is stamped with a real volume.        *)
THEOREM ClosedSweepsAreStamped == Spec => []SweepsHaveIdentity
  <1>1. SafetyInv => SweepsHaveIdentity
    BY DEF SafetyInv
  <1> QED BY <1>1, AssemblerIsSafe, PTL

(* In every behaviour a volume keeps the identity its first radial gave    *)
(* it: the only step from Accumulating to Accumulating that looks at the   *)
(* context is that of a radial, and it is not the first.                   *)
THEOREM VolumeIdentityIsStable == Spec => IdentityIsStable
  <1> DEFINE Stable == (asm.state = "Accumulating" /\ asm'.state = "Accumulating")
                         => asm'.context.volume = asm.context.volume
  <1>1. IndInv /\ [Next]_vars => [Stable]_vars
    <2> SUFFICES ASSUME IndInv, Next, asm.state = "Accumulating", asm'.state = "Accumulating"
                 PROVE  asm'.context.volume = asm.context.volume
      OBVIOUS
    <2>0. asm \in Assembler /\ Sound(asm) /\ Bounds(asm)
      BY DEF IndInv, Sound
    <2>1. CASE Receive
      <3> PICK c \in Inputs : DropUndecodable(c) \/ OnStartChunk(c) \/ OnChunk(c)
        BY <2>1 DEF Receive
      <3>1. CASE OnStartChunk(c)
        <4>1. begin_new_volume(asm).state = "AwaitingData" /\ begin_new_volume(asm) \in Assembler
          BY <2>0, BeginNewVolume DEF Sound
        <4>2. on_start_chunk(asm, c.vcp).state = "AwaitingData"
          BY <4>1 DEF on_start_chunk, Assembler
        <4> QED BY <3>1, <4>2 DEF OnStartChunk, Forward
      <3>2. CASE DropUndecodable(c) \/ OnChunk(c)
        BY <3>2 DEF DropUndecodable, OnChunk
      <3> QED BY <3>1, <3>2
    <2>2. CASE TakeRadial
      <3>1. Head(radials) \in Radial
        BY <2>2 DEF TakeRadial, IndInv, TaskTypeOK
      <3> QED BY <2>0, <2>2, <3>1, TakeOneRadial DEF TakeRadial
    <2>3. ASSUME NEW status \in VolumeStatus,
                 asm' = finish_volume(close_open_sweep(asm), status)
          PROVE  asm'.state # "Accumulating"
      <3>1. Sound(close_open_sweep(asm)) /\ close_open_sweep(asm).current_sweep = None
        BY <2>0, CloseOpenSweep DEF Bounds
      <3>2. close_open_sweep(asm) \in Assembler
        BY <3>1 DEF Sound
      <3> QED BY <2>3, <3>2 DEF finish_volume, Assembler
    <2>4. CASE FinishChunk
      BY <2>3, <2>4 DEF FinishChunk, Forward, VolumeStatus
    <2>5. CASE OnTick
      BY <2>3, <2>5 DEF OnTick, Forward, VolumeStatus
    <2>6. CASE DiscardLateRadial \/ Return \/ Elapse
      BY <2>6 DEF DiscardLateRadial, Return, Elapse
    <2>7. CASE Send \/ \E e \in Elevations : ReportLate(e)
      BY <2>0, <2>7 DEF Send, Forward, ReportLate, Assembler
    <2>8. CASE Reset
      BY <2>8 DEF Reset, new_assembler
    <2> QED BY <2>1, <2>2, <2>4, <2>5, <2>6, <2>7, <2>8 DEF Next, Handle
  <1> QED BY <1>1, InitEstablishes, NextPreserves, PTL DEF Spec, IdentityIsStable

-----------------------------------------------------------------------------
(* What becomes of the closed sweeps *)

(* A scan begins with s when it has the sweeps of s in their places.       *)
LEMMA BeginsIs ==
    ASSUME NEW s \in Seq(Sweep), NEW t \in Seq(Sweep)
    PROVE  Begins(t, s) <=> Len(s) <= Len(t) /\ \A i \in 1..Len(s) : s[i] = t[i]
  BY DEF Begins

(* Adding a sweep keeps those there are.                                   *)
LEMMA BeginsAppend ==
    ASSUME NEW s \in Seq(Sweep), NEW x \in Sweep
    PROVE  Append(s, x) \in Seq(Sweep) /\ Begins(s, s) /\ Begins(Append(s, x), s)
  <1>1. Append(s, x) \in Seq(Sweep) /\ Len(s) \in Nat /\ Len(Append(s, x)) = Len(s) + 1
    OBVIOUS
  <1>2. \A i \in 1..Len(s) : s[i] = Append(s, x)[i]
    OBVIOUS
  <1>3. PICK t \in Seq(Sweep) : t = Append(s, x)
    BY <1>1
  <1>4. Len(s) <= Len(t) /\ \A i \in 1..Len(s) : s[i] = t[i]
    BY <1>1, <1>2, <1>3
  <1>5. Begins(t, s) /\ Begins(s, s)
    BY <1>1, <1>4, BeginsIs
  <1> QED BY <1>1, <1>3, <1>5

LEMMA BeginsTransitive ==
    ASSUME NEW s \in Seq(Sweep), NEW t \in Seq(Sweep), NEW u \in Seq(Sweep),
           Begins(t, s), Begins(u, t)
    PROVE  Begins(u, s)
  <1>1. Len(s) <= Len(t) /\ \A i \in 1..Len(s) : s[i] = t[i]
    BY BeginsIs
  <1>2. Len(t) <= Len(u) /\ \A i \in 1..Len(t) : t[i] = u[i]
    BY BeginsIs
  <1>3. Len(s) \in Nat /\ Len(t) \in Nat /\ Len(u) \in Nat
    OBVIOUS
  <1>4. Len(s) <= Len(u) /\ \A i \in 1..Len(s) : s[i] = u[i]
    BY <1>1, <1>2, <1>3
  <1> QED BY <1>4, BeginsIs

(* close_sweep adds a sweep at the end of the scan.                        *)
LEMMA CloseSweepKeeps ==
    ASSUME NEW a \in Assembler, NEW builder \in SweepBuilder, NEW complete \in BOOLEAN
    PROVE  \E x \in Sweep :
              close_sweep(a, builder, complete).closed_sweeps = Append(a.closed_sweeps, x)
  <1> DEFINE x == [elevation_number |-> builder.elevation_number,
                   radials |-> builder.radials, complete |-> complete]
  <1>1. x \in Sweep
    BY DEF Sweep, SweepBuilder
  <1>2. close_sweep(a, builder, complete).closed_sweeps = Append(a.closed_sweeps, x)
    BY DEF close_sweep, Assembler
  <1> QED BY <1>1, <1>2

(* Closing the open sweep keeps those that are closed.                     *)
LEMMA CloseOpenSweepKeeps ==
    ASSUME NEW a \in Assembler
    PROVE  Begins(close_open_sweep(a).closed_sweeps, a.closed_sweeps)
  <1>1. a.closed_sweeps \in Seq(Sweep)
    BY DEF Assembler
  <1>2. CASE a.current_sweep = None
    <2>1. Begins(a.closed_sweeps, a.closed_sweeps)
      BY <1>1, BeginsIs
    <2> QED BY <1>2, <2>1 DEF close_open_sweep
  <1>3. CASE a.current_sweep # None
    <2>1. a.current_sweep \in SweepBuilder
      BY <1>3 DEF Assembler
    <2>2. PICK x \in Sweep : close_open_sweep(a).closed_sweeps = Append(a.closed_sweeps, x)
      BY <1>3, <2>1, CloseSweepKeeps DEF close_open_sweep
    <2> QED BY <1>1, <2>2, BeginsAppend
  <1> QED BY <1>2, <1>3

(* A volume that ends, for whatever reason, hands its scan on.             *)
HandsOver(a, b) ==
    \E i \in DOMAIN b.events :
        /\ b.events[i].type = "VolumeClosed"
        /\ Begins(b.events[i].sweeps, a.closed_sweeps)

LEMMA FinishHandsOver ==
    ASSUME NEW a, Sound(a), Bounds(a), NEW status \in VolumeStatus
    PROVE  HandsOver(a, finish_volume(close_open_sweep(a), status))
  <1>1. PICK c : c = close_open_sweep(a)
    OBVIOUS
  <1>2. Sound(c) /\ a \in Assembler
    <2>1. a.current_sweep # None => a.context.volume # 0
      BY DEF Bounds
    <2> QED BY <1>1, <2>1, CloseOpenSweep DEF Sound
  <1>3. Begins(c.closed_sweeps, a.closed_sweeps)
    BY <1>1, <1>2, CloseOpenSweepKeeps
  <1>4. c \in Assembler /\ c.events \in Seq(AssemblyEvent)
    BY <1>2 DEF Sound, Assembler
  <1>5. PICK ev : ev = [type |-> "VolumeClosed", volume |-> c.context.volume,
                        vcp_number |-> vcp_number(c.context),
                        sweeps |-> c.closed_sweeps, status |-> status]
    OBVIOUS
  <1>6. PICK b : b = finish_volume(c, status)
    OBVIOUS
  <1>7. b.events = Append(c.events, ev)
    BY <1>4, <1>5, <1>6 DEF finish_volume, Assembler
  <1>8. PICK i : i = Len(c.events) + 1
    OBVIOUS
  <1>9. i \in DOMAIN b.events /\ b.events[i] = ev
    BY <1>4, <1>7, <1>8
  <1>10. ev.type = "VolumeClosed" /\ ev.sweeps = c.closed_sweeps
    BY <1>5
  <1> QED BY <1>1, <1>3, <1>6, <1>9, <1>10 DEF HandsOver

(* A radial adds to the scan and takes nothing from it.                    *)
LEMMA TakeRadialKeeps ==
    ASSUME NEW a, Sound(a), Bounds(a), a.state # "Idle", NEW r \in Radial,
           r.elevation_number \notin a.closed_elevations
    PROVE  Begins(take_radial(a, r).closed_sweeps, a.closed_sweeps)
  <1> DEFINE is_first == a.state = "AwaitingData"
             b == [a EXCEPT !.state = IF is_first THEN "Accumulating" ELSE @,
                            !.context = apply_radial(@, r, is_first)]
             fresh == [elevation_number |-> r.elevation_number, radials |-> 1]
  <1>1. a \in Assembler /\ a.context \in VolumeContext /\ a.closed_sweeps \in Seq(Sweep)
    BY DEF Sound, Assembler
  <1>2. r.time \in Times /\ r.time # 0 /\ r.site_vcp \in Vcps \cup {0}
    BY ConstantsAssumption DEF Radial
  <1>3. /\ b \in Assembler /\ b.closed_sweeps = a.closed_sweeps /\ b.current_sweep = a.current_sweep
        /\ b.closed_elevations = a.closed_elevations /\ b.events = a.events /\ b.context.volume # 0
    <2>1. a.state \in {"AwaitingData", "Accumulating"}
      BY <1>1 DEF Assembler, AssemblyState
    <2>2. /\ apply_radial(a.context, r, is_first) \in VolumeContext
          /\ apply_radial(a.context, r, is_first).volume # 0
      BY <1>1, <1>2, <2>1 DEF apply_radial, VolumeContext, Bounds
    <2> QED BY <1>1, <2>1, <2>2 DEF Assembler, AssemblyState
  <1>4. take_radial(a, r) = ingest_radial(b, r)
    BY DEF take_radial
  <1> HIDE DEF b
  <1>5. Sound(b)
    BY <1>3 DEF Sound
  <1>6. PICK c : c = start_or_push(b, r)
    OBVIOUS
  <1>7. Sound(c) /\ c.current_sweep \in SweepBuilder /\ c \in Assembler /\ c.closed_sweeps \in Seq(Sweep)
    <2>1. Sound(c) /\ c.current_sweep \in SweepBuilder
      BY <1>3, <1>5, <1>6, StartOrPush
    <2> QED BY <2>1 DEF Sound, Assembler
  <1>8. Begins(c.closed_sweeps, a.closed_sweeps)
    <2>1. CASE c.closed_sweeps = b.closed_sweeps
      BY <1>1, <1>3, <2>1, BeginsIs
    <2>2. CASE b.current_sweep # None /\ c = [close_sweep(b, b.current_sweep, FALSE) EXCEPT !.current_sweep = fresh]
      <3>1. b.current_sweep \in SweepBuilder /\ b.current_sweep.elevation_number \notin b.closed_elevations
        BY <1>3, <1>5, <2>2 DEF Sound, Assembler
      <3>2. PICK d : d = close_sweep(b, b.current_sweep, FALSE)
        OBVIOUS
      <3>3. d \in Assembler
        BY <1>3, <1>5, <3>1, <3>2, CloseSweep DEF Sound
      <3>4. c.closed_sweeps = d.closed_sweeps
        BY <2>2, <3>2, <3>3 DEF Assembler
      <3>5. PICK x \in Sweep : d.closed_sweeps = Append(b.closed_sweeps, x)
        BY <1>3, <3>1, <3>2, CloseSweepKeeps
      <3> QED BY <1>1, <1>3, <3>4, <3>5, BeginsAppend
    <2>3. \/ c.closed_sweeps = b.closed_sweeps
          \/ b.current_sweep # None /\ c = [close_sweep(b, b.current_sweep, FALSE) EXCEPT !.current_sweep = fresh]
      <3>1. \A w : [b EXCEPT !.current_sweep = w].closed_sweeps = b.closed_sweeps
        BY <1>3 DEF Assembler
      <3>2. [b EXCEPT !.current_sweep.radials = @ + 1].closed_sweeps = b.closed_sweeps
        BY <1>3 DEF Assembler
      <3> QED BY <1>6, <3>1, <3>2 DEF start_or_push
    <2> QED BY <2>1, <2>2, <2>3
  <1>9. CASE r.closing
    <2>1. PICK x \in Sweep :
              close_sweep(c, c.current_sweep, TRUE).closed_sweeps = Append(c.closed_sweeps, x)
      BY <1>7, CloseSweepKeeps
    <2>2. ingest_radial(b, r) = close_sweep(c, c.current_sweep, TRUE)
      BY <1>6, <1>9 DEF ingest_radial
    <2>3. PICK z : z = Append(c.closed_sweeps, x)
      OBVIOUS
    <2>4. z \in Seq(Sweep) /\ Begins(z, c.closed_sweeps)
      BY <1>7, <2>3, BeginsAppend
    <2>5. Begins(z, a.closed_sweeps)
      BY <1>1, <1>7, <1>8, <2>4, BeginsTransitive
    <2> QED BY <1>4, <2>1, <2>2, <2>3, <2>5
  <1>10. CASE ~r.closing
    BY <1>4, <1>6, <1>8, <1>10 DEF ingest_radial
  <1> QED BY <1>9, <1>10

(* A start chunk hands the open volume's scan on before it begins anew.    *)
LEMMA StartChunkHandsOver ==
    ASSUME NEW a, Sound(a), Bounds(a), NEW vcp
    PROVE  \/ Begins(on_start_chunk(a, vcp).closed_sweeps, a.closed_sweeps)
           \/ HandsOver(a, on_start_chunk(a, vcp))
  <1>1. PICK b : b = begin_new_volume(a)
    OBVIOUS
  <1>2. b \in Assembler /\ a \in Assembler
    BY <1>1, BeginNewVolume DEF Sound
  <1>3. PICK c : c = on_start_chunk(a, vcp)
    OBVIOUS
  <1>4. c.events = b.events /\ c.closed_sweeps = b.closed_sweeps
    <2>1. \A w : /\ [b EXCEPT !.context = w].events = b.events
                 /\ [b EXCEPT !.context = w].closed_sweeps = b.closed_sweeps
      BY <1>2 DEF Assembler
    <2> QED BY <1>1, <1>3, <2>1 DEF on_start_chunk
  <1>5. CASE a.state = "Accumulating"
    <2>1. PICK d : d = finish_volume(close_open_sweep(a), "Superseded")
      OBVIOUS
    <2>2. HandsOver(a, d)
      BY <2>1, FinishHandsOver DEF VolumeStatus
    <2>3. d \in Assembler
      <3>1. a.context.volume # 0
        BY <1>5 DEF Bounds
      <3>2. Sound(close_open_sweep(a)) /\ close_open_sweep(a).current_sweep = None
        BY <3>1, CloseOpenSweep
      <3> QED BY <2>1, <3>2, FinishVolume DEF VolumeStatus, Sound
    <2>4. b.events = d.events
      BY <1>1, <1>5, <2>1, <2>3 DEF begin_new_volume, Assembler
    <2> QED BY <1>3, <1>4, <2>2, <2>4 DEF HandsOver
  <1>6. CASE a.state # "Accumulating"
    <2>1. a.closed_sweeps = <<>>
      BY <1>6 DEF Bounds
    <2>2. b.closed_sweeps = <<>>
      BY <1>1, <1>2, <1>6 DEF begin_new_volume, Assembler
    <2>3. a.closed_sweeps \in Seq(Sweep)
      BY <1>2 DEF Assembler
    <2>4. \A s \in Seq(Sweep) : Begins(s, s)
      <3>1. \A s \in Seq(Sweep) : Len(s) \in Nat
        OBVIOUS
      <3> QED BY <3>1, BeginsIs
    <2>5. c.closed_sweeps = a.closed_sweeps
      BY <1>4, <2>1, <2>2
    <2> QED BY <1>3, <2>3, <2>4, <2>5
  <1> QED BY <1>5, <1>6

(* In every behaviour a sweep that was announced leaves the assembler only *)
(* in the scan of its volume (close_sweep, finish_volume,                  *)
(* begin_new_volume), or by reset.                                         *)
THEOREM SweepsAreHandedOver == Spec => NoSweepForgotten
  <1> DEFINE Kept == Begins(asm'.closed_sweeps, asm.closed_sweeps)
             Handed == \E i \in DOMAIN asm'.events :
                          /\ asm'.events[i].type = "VolumeClosed"
                          /\ Begins(asm'.events[i].sweeps, asm.closed_sweeps)
  <1>1. IndInv /\ [Next]_vars => [Kept \/ Handed \/ Reset]_vars
    <2> SUFFICES ASSUME IndInv, Next PROVE Kept \/ Handed \/ Reset
      OBVIOUS
    <2>0. asm \in Assembler /\ Sound(asm) /\ Bounds(asm) /\ asm.closed_sweeps \in Seq(Sweep)
      BY DEF IndInv, Sound, Assembler
    <2>1. ASSUME asm'.closed_sweeps = asm.closed_sweeps PROVE Kept
      BY <2>0, <2>1, BeginsIs
    <2>2. ASSUME NEW status \in VolumeStatus,
                 asm' = finish_volume(close_open_sweep(asm), status)
          PROVE  Handed
      BY <2>0, <2>2, FinishHandsOver DEF HandsOver
    <2>3. CASE Receive
      <3> PICK c \in Inputs : DropUndecodable(c) \/ OnStartChunk(c) \/ OnChunk(c)
        BY <2>3 DEF Receive
      <3>1. CASE OnStartChunk(c)
        BY <2>0, <3>1, StartChunkHandsOver DEF OnStartChunk, Forward, HandsOver
      <3>2. CASE DropUndecodable(c) \/ OnChunk(c)
        <4>1. asm'.closed_sweeps = asm.closed_sweeps
          BY <2>0, <3>2 DEF DropUndecodable, OnChunk, Assembler
        <4> QED BY <2>1, <4>1
      <3> QED BY <3>1, <3>2
    <2>4. CASE TakeRadial
      <3>1. Head(radials) \in Radial /\ asm.state # "Idle"
        BY <2>4 DEF TakeRadial, IndInv, TaskTypeOK, HandlerInv
      <3> QED BY <2>0, <2>4, <3>1, TakeRadialKeeps DEF TakeRadial
    <2>5. CASE FinishChunk
      <3>1. asm' = asm \/ asm' = finish_volume(close_open_sweep(asm), "Complete")
        BY <2>5 DEF FinishChunk, Forward
      <3> QED BY <2>1, <2>2, <3>1 DEF VolumeStatus
    <2>6. CASE OnTick
      BY <2>2, <2>6 DEF OnTick, Forward, VolumeStatus
    <2>7. CASE DiscardLateRadial \/ Return \/ Elapse
      BY <2>1, <2>7 DEF DiscardLateRadial, Return, Elapse
    <2>8. CASE Send \/ \E e \in Elevations : ReportLate(e)
      <3>1. asm'.closed_sweeps = asm.closed_sweeps
        BY <2>0, <2>8 DEF Send, Forward, ReportLate, Assembler
      <3> QED BY <2>1, <3>1
    <2> QED BY <2>3, <2>4, <2>5, <2>6, <2>7, <2>8 DEF Next, Handle
  <1> QED BY <1>1, InitEstablishes, NextPreserves, PTL DEF Spec, NoSweepForgotten
=============================================================================
