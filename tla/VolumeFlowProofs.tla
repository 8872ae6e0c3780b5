--------------------------- MODULE VolumeFlowProofs ---------------------------
(***************************************************************************)
(* The stages composed, for any stream of chunks, any elevations, patterns *)
(* and products, any capacities and any number of panics: derived products *)
(* are of one volume, and the display the stages produce is a behaviour of *)
(* MergedDisplay.                                                          *)
(*                                                                         *)
(* The invariants of the assembler and of the applier are the ones of      *)
(* their own proof modules, instantiated here.  What is new relates the    *)
(* two ends of the channels: EventLine is every event between the          *)
(* assembler and a finished job, UpdateLine every update between a         *)
(* finished job and the display.  A step that hands an element on leaves   *)
(* the line as it is, so a claim about the line survives every interleaving *)
(* of the stages.                                                          *)
(***************************************************************************)
EXTENDS VolumeFlow, TLAPS

AP == INSTANCE VolumeAssemblerProofs WITH Inputs <- {}, MaxChunks <- 0
RP == INSTANCE RadarStateProofs WITH
        VolumeIds <- Times \cup {0}, SweepGrids <- SUBSET SweepGrid,
        DerivedGrids <- (SUBSET DerivedGrid) \ {{}}, Sites <- {"site"},
        MaxRevision <- 0, MaxReports <- 0

(* The constants of the stages satisfy what the stages assume of theirs.   *)
LEMMA StagesAssumption == AP!ConstantsAssumption /\ RP!StateAssumption
  <1>1. AP!ConstantsAssumption
    BY FlowAssumption DEF AP!ConstantsAssumption, AP!SweepBuilder, A!SweepBuilder
  <1>2. RP!DisplaySweep = R!DisplaySweep /\ RP!VolumeSummary = R!VolumeSummary
    BY DEF RP!DisplaySweep, R!DisplaySweep, RP!VolumeSummary, R!VolumeSummary,
           R!VolumeStatus, RP!VolumeStatus
  <1>3. VcpNumbers \subseteq Nat /\ Times \cup {0} \subseteq Nat
    BY FlowAssumption DEF VcpNumbers
  <1>4. {} \notin (SUBSET DerivedGrid) \ {{}}
    OBVIOUS
  <1>5. RP!StateAssumption
    BY FlowAssumption, <1>2, <1>3, <1>4 DEF RP!StateAssumption
  <1> QED BY <1>1, <1>5

(* The stages instantiated by VolumeFlow and by their proofs are the same. *)
LEMMA SameMethods ==
    /\ A!new_assembler = AP!new_assembler
    /\ \A a, vcp : A!on_start_chunk(a, vcp) = AP!on_start_chunk(a, vcp)
    /\ \A a, r : A!take_radial(a, r) = AP!take_radial(a, r)
    /\ \A a, s : A!finish_volume(A!close_open_sweep(a), s) = AP!finish_volume(AP!close_open_sweep(a), s)
  BY DEF A!new_assembler, AP!new_assembler, A!default_context, AP!default_context,
         A!on_start_chunk, AP!on_start_chunk, A!begin_new_volume, AP!begin_new_volume,
         A!finish_volume, AP!finish_volume, A!close_open_sweep, AP!close_open_sweep,
         A!close_sweep, AP!close_sweep, A!vcp_number, AP!vcp_number, A!apply_vcp, AP!apply_vcp,
         A!take_radial, AP!take_radial, A!ingest_radial, AP!ingest_radial,
         A!start_or_push, AP!start_or_push, A!apply_radial, AP!apply_radial

(* So are the steps of the assembly task,                                  *)
LEMMA SameTask ==
    /\ A!Init <=> AP!Init
    /\ A!Handle <=> AP!Handle
    /\ A!OnTick <=> AP!OnTick
    /\ A!Elapse <=> AP!Elapse
    /\ A!Send <=> AP!Send
    /\ A!Chunk = AP!Chunk
  <1> USE SameMethods
  <1>1. A!Init <=> AP!Init
    BY DEF A!Init, AP!Init, A!NoLate, AP!NoLate
  <1>2. A!Handle <=> AP!Handle
    <2>1. A!DiscardLateRadial <=> AP!DiscardLateRadial
      BY DEF A!DiscardLateRadial, AP!DiscardLateRadial
    <2>2. A!TakeRadial <=> AP!TakeRadial
      BY DEF A!TakeRadial, AP!TakeRadial
    <2>3. (\E e \in Elevations : A!ReportLate(e)) <=> (\E e \in Elevations : AP!ReportLate(e))
      BY DEF A!ReportLate, AP!ReportLate
    <2>4. A!FinishChunk <=> AP!FinishChunk
      BY DEF A!FinishChunk, AP!FinishChunk, A!Forward, AP!Forward, A!NoLate, AP!NoLate
    <2> QED BY <2>1, <2>2, <2>3, <2>4 DEF A!Handle, AP!Handle
  <1>3. (A!OnTick <=> AP!OnTick) /\ (A!Elapse <=> AP!Elapse) /\ (A!Send <=> AP!Send)
    BY DEF A!OnTick, AP!OnTick, A!Elapse, AP!Elapse, A!Send, AP!Send, A!Forward, AP!Forward
  <1>5. A!Chunk = AP!Chunk
    BY DEF A!Chunk, AP!Chunk, A!ChunkKind, AP!ChunkKind, A!Radial, AP!Radial
  <1> QED BY <1>1, <1>2, <1>3, <1>5

(* and what it does with a chunk.                                          *)
LEMMA SameReceive ==
    ASSUME NEW c
    PROVE  /\ A!DropUndecodable(c) <=> AP!DropUndecodable(c)
           /\ A!OnStartChunk(c) <=> AP!OnStartChunk(c)
           /\ A!OnChunk(c) <=> AP!OnChunk(c)
  <1>1. A!DropUndecodable(c) <=> AP!DropUndecodable(c)
    BY DEF A!DropUndecodable, AP!DropUndecodable
  <1>2. A!OnStartChunk(c) <=> AP!OnStartChunk(c)
    BY SameMethods DEF A!OnStartChunk, AP!OnStartChunk, A!Forward, AP!Forward
  <1>3. A!OnChunk(c) <=> AP!OnChunk(c)
    BY DEF A!OnChunk, AP!OnChunk
  <1> QED BY <1>1, <1>2, <1>3

(* The grids kept for the derived products, as a set.                      *)
Tilts == {retained[i] : i \in DOMAIN retained}

(* The events between the assembler and a finished job of the compute      *)
(* stage, the one in hand first.                                           *)
EventLine == (IF cpc = "blocking" THEN <<event>> ELSE <<>>) \o event_rx

(* The updates between a finished job and the display.                     *)
UpdateLine == update_rx \o pending

(* What each stage and channel holds.                                      *)
FlowTypes ==
    /\ AP!IndInv
    /\ stream \in Seq(AP!Chunk)
    /\ event_rx \in Seq(AP!AssemblyEvent) /\ AP!EventsOK(event_rx)
    /\ cpc \in {"recv", "blocking", "send"}
    /\ cpc = "blocking" =>
          /\ event \in AP!AssemblyEvent /\ AP!EventOK(event)
          /\ event.type \in {"SweepClosed", "VolumeClosed"}
    /\ retained \in Seq(SweepGrid) /\ Len(retained) <= RetainedElevationCap
    /\ pending \in Seq(RP!StateUpdate) /\ update_rx \in Seq(RP!StateUpdate)
    /\ cpc # "send" => pending = <<>>
    /\ cpc = "send" => pending # <<>>

DisplayTypes == radar \in RP!RadarStates /\ RP!DerivedIsDated

(* An update is stamped with a volume, and a derived product is made of    *)
(* that volume alone.                                                      *)
Dated(u) ==
    /\ u.type = "SweepGridded" => u.volume \in Times
    /\ u.type = "DerivedComputed" =>
          /\ u.volume \in Times
          /\ \A g \in u.grids : g.tilts # {} /\ \A t \in g.tilts : t.volume = u.volume

UpdatesDated == \A i \in DOMAIN UpdateLine : Dated(UpdateLine[i])

IsSweep(u) == u.type = "SweepGridded"

(* Before the first sweep nothing is shown: a derived product has a sweep  *)
(* before it in the line, and so has what it will be made of.              *)
SweepFirst ==
    radar.current_vcp = None =>
        /\ radar.sweeps = [e \in Elevations |-> None] /\ radar.derived = {}
        /\ \A i \in DOMAIN UpdateLine : UpdateLine[i].type = "DerivedComputed" =>
              \E j \in 1..(i - 1) : IsSweep(UpdateLine[j])
        /\ retained # <<>> => \E j \in DOMAIN UpdateLine : IsSweep(UpdateLine[j])

(* The inductive invariant.                                                *)
FlowInv ==
    /\ FlowTypes /\ DisplayTypes
    /\ AP!Follows(Tilts, EventLine, asm)
    /\ UpdatesDated /\ SweepFirst

-----------------------------------------------------------------------------
(* A step of the assembler alone.                                          *)
LEMMA AssemblyStep ==
    ASSUME FlowInv, UNCHANGED <<stream, cvars, rvars, event_rx, update_rx>>, AP!IndInv',
           AP!Follows(Tilts, EventLine, asm')
    PROVE  FlowInv'
  <1>1. /\ UNCHANGED <<stream, event_rx, cpc, event, retained, pending, update_rx, radar>>
    BY DEF cvars, rvars
  <1>2. Tilts' = Tilts /\ EventLine' = EventLine /\ UpdateLine' = UpdateLine
    BY <1>1 DEF Tilts, EventLine, UpdateLine
  <1>3. FlowTypes' /\ DisplayTypes'
    BY <1>1 DEF FlowInv, FlowTypes, DisplayTypes, RP!DerivedIsDated
  <1>4. UpdatesDated' /\ SweepFirst'
    BY <1>1, <1>2 DEF FlowInv, UpdatesDated, SweepFirst
  <1>5. AP!Follows(Tilts', EventLine', asm')
    BY <1>2
  <1> QED BY <1>3, <1>4, <1>5 DEF FlowInv

(* Handing the first element of one queue to the next one leaves their     *)
(* concatenation as it is.                                                 *)
LEMMA MoveHead ==
    ASSUME NEW T, NEW p \in Seq(T), NEW q \in Seq(T), q # <<>>
    PROVE  Append(p, Head(q)) \o Tail(q) = p \o q
  <1>1. Head(q) \in T /\ Tail(q) \in Seq(T)
    OBVIOUS
  <1>2. Append(p, Head(q)) \in Seq(T)
    BY <1>1
  <1> QED BY <1>1, <1>2

(* The events in the channel, with the one in hand.                        *)
LEMMA EventLineType ==
    ASSUME FlowTypes
    PROVE  /\ EventLine \in Seq(AP!AssemblyEvent)
           /\ asm \in AP!Assembler /\ asm.events \in Seq(AP!AssemblyEvent)
           /\ AP!EventsOK(asm.events)
           /\ cpc = "blocking" =>
                 EventLine # <<>> /\ Head(EventLine) = event /\ Tail(EventLine) = event_rx
           /\ cpc # "blocking" => EventLine = event_rx
  <1>1. /\ event_rx \in Seq(AP!AssemblyEvent)
        /\ cpc = "blocking" => event \in AP!AssemblyEvent
    BY DEF FlowTypes
  <1>2. cpc = "blocking" =>
          /\ EventLine \in Seq(AP!AssemblyEvent) /\ EventLine # <<>>
          /\ Head(EventLine) = event /\ Tail(EventLine) = event_rx
    BY <1>1 DEF EventLine
  <1>3. cpc # "blocking" => EventLine = event_rx
    BY <1>1 DEF EventLine
  <1>4. AP!Sound(asm)
    BY DEF FlowTypes, AP!IndInv
  <1> QED BY <1>1, <1>2, <1>3, <1>4 DEF AP!Sound, AP!Assembler

(* A chunk is taken: the line of events follows from the assembler's.      *)
LEMMA ReceiveStep ==
    ASSUME FlowInv, Receive
    PROVE  FlowInv'
  <1> DEFINE c == stream[received + 1]
  <1>1. /\ received \in Nat /\ stream \in Seq(AP!Chunk) /\ received < Len(stream)
        /\ AP!IndInv /\ FlowTypes /\ AP!Follows(Tilts, EventLine, asm)
    BY DEF FlowInv, FlowTypes, AP!IndInv, AP!TaskTypeOK, Receive
  <1>2. c \in AP!Chunk
    BY <1>1
  <1>3. A!DropUndecodable(c) \/ A!OnStartChunk(c) \/ A!OnChunk(c)
    BY DEF Receive
  <1>4. PICK d : d = c
    OBVIOUS
  <1>5. A!DropUndecodable(d) \/ A!OnStartChunk(d) \/ A!OnChunk(d)
    BY <1>3, <1>4 DEF A!DropUndecodable, A!OnStartChunk, A!OnChunk
  <1>6. d \in AP!Chunk
    BY <1>2, <1>4
  <1> HIDE DEF c
  <1>7. AP!DropUndecodable(d) \/ AP!OnStartChunk(d) \/ AP!OnChunk(d)
    BY <1>5, SameReceive
  <1>8. AP!IndInv'
    BY <1>1, <1>6, <1>7, StagesAssumption, AP!ChunkPreserves
  <1>9. EventLine \in Seq(AP!AssemblyEvent)
    BY <1>1, EventLineType
  <1>10. \E x \in AP!Chunk : AP!DropUndecodable(x) \/ AP!OnStartChunk(x) \/ AP!OnChunk(x)
    BY <1>6, <1>7
  <1>11. AP!Follows(Tilts, EventLine, asm')
    BY <1>1, <1>9, <1>10, StagesAssumption, AP!TaskFollows
  <1> QED BY <1>8, <1>11, AssemblyStep DEF Receive

(* A radial is handled, or the watchdog ticks.                             *)
LEMMA AssembleStep ==
    ASSUME FlowInv, Assemble
    PROVE  FlowInv'
  <1>1. AP!IndInv /\ FlowTypes /\ AP!Follows(Tilts, EventLine, asm)
    BY DEF FlowInv, FlowTypes
  <1>2. EventLine \in Seq(AP!AssemblyEvent)
    BY <1>1, EventLineType
  <1>3. CASE A!Handle \/ A!OnTick
    <2>1. AP!Handle \/ AP!OnTick
      BY <1>3, SameTask
    <2>2. AP!IndInv'
      BY <1>1, <2>1, StagesAssumption, AP!HandlePreserves, AP!TickPreserves
    <2>3. AP!Follows(Tilts, EventLine, asm')
      BY <1>1, <1>2, <2>1, StagesAssumption, AP!TaskFollows
    <2> QED BY <2>2, <2>3, AssemblyStep DEF Assemble
  <1>4. CASE A!Elapse
    <2>1. AP!Elapse /\ asm' = asm
      BY <1>4, SameTask DEF A!Elapse
    <2>2. AP!IndInv'
      BY <1>1, <2>1, StagesAssumption, AP!NextPreserves DEF AP!Next
    <2> QED BY <1>1, <2>1, <2>2, AssemblyStep DEF Assemble
  <1> QED BY <1>3, <1>4 DEF Assemble

(* An event goes from the assembler to the channel: the line is the same.  *)
LEMMA SendEventStep ==
    ASSUME FlowInv, SendEvent
    PROVE  FlowInv'
  <1>1. /\ AP!IndInv /\ FlowTypes /\ AP!Follows(Tilts, EventLine, asm)
        /\ UNCHANGED <<stream, cpc, event, retained, pending, update_rx, radar>>
        /\ event_rx' = Append(event_rx, Head(asm.events))
        /\ AP!Send
    BY SameTask DEF FlowInv, FlowTypes, SendEvent, cvars, rvars
  <1>2. AP!IndInv'
    BY <1>1, StagesAssumption, AP!SendPreserves
  <1>3. /\ EventLine \in Seq(AP!AssemblyEvent) /\ asm \in AP!Assembler
        /\ asm.events \in Seq(AP!AssemblyEvent) /\ asm.events # <<>> /\ AP!EventsOK(asm.events)
    BY <1>1, EventLineType DEF AP!IndInv, AP!HandlerInv, AP!Send
  <1>4. /\ asm'.events = Tail(asm.events) /\ asm'.context = asm.context
        /\ asm'.closed_sweeps = asm.closed_sweeps
    BY <1>1, <1>3 DEF AP!Send, AP!Forward, AP!Assembler
  <1>5. Head(asm.events) \in AP!AssemblyEvent /\ AP!EventOK(Head(asm.events))
    BY <1>3 DEF AP!EventsOK
  <1>6. event_rx' \in Seq(AP!AssemblyEvent) /\ AP!EventsOK(event_rx')
    BY <1>1, <1>5, StagesAssumption, AP!EventsAppend DEF FlowTypes
  <1>7. FlowTypes' /\ DisplayTypes'
    BY <1>1, <1>2, <1>6 DEF FlowInv, FlowTypes, DisplayTypes, RP!DerivedIsDated
  <1>8. Tilts' = Tilts /\ UpdateLine' = UpdateLine /\ EventLine' = Append(EventLine, Head(asm.events))
    <2>1. event_rx \in Seq(AP!AssemblyEvent) /\ (cpc = "blocking" => event \in AP!AssemblyEvent)
      BY <1>1 DEF FlowTypes
    <2>2. Tilts' = Tilts /\ UpdateLine' = UpdateLine
      BY <1>1 DEF Tilts, UpdateLine
    <2>3. EventLine' = Append(EventLine, Head(asm.events))
      BY <1>1, <1>5, <2>1 DEF EventLine
    <2> QED BY <2>2, <2>3
  <1>9. EventLine' \o asm'.events = EventLine \o asm.events
    BY <1>3, <1>4, <1>8, MoveHead
  <1>10. AP!Follows(Tilts', EventLine', asm')
    BY <1>1, <1>4, <1>8, <1>9 DEF AP!Follows
  <1>11. UpdatesDated' /\ SweepFirst'
    BY <1>1, <1>8 DEF FlowInv, UpdatesDated, SweepFirst
  <1> QED BY <1>7, <1>10, <1>11 DEF FlowInv

(* Where the elements of a concatenation come from and go to.              *)
LEMMA ConcatIndex ==
    ASSUME NEW T, NEW s \in Seq(T), NEW t \in Seq(T)
    PROVE  /\ s \o t \in Seq(T)
           /\ \A i \in DOMAIN (s \o t) :
                 \/ i \in DOMAIN s /\ (s \o t)[i] = s[i]
                 \/ i > Len(s) /\ i - Len(s) \in DOMAIN t /\ (s \o t)[i] = t[i - Len(s)]
           /\ \A i \in DOMAIN s : i \in DOMAIN (s \o t) /\ (s \o t)[i] = s[i]
           /\ \A i \in DOMAIN t : Len(s) + i \in DOMAIN (s \o t) /\ (s \o t)[Len(s) + i] = t[i]
  OBVIOUS

(* A finished job leaves its updates behind those in the channel.          *)
LEMMA NewUpdates ==
    ASSUME FlowInv, pending = <<>>, NEW us \in Seq(RP!StateUpdate),
           pending' = us, update_rx' = update_rx, radar' = radar,
           \A i \in DOMAIN us : Dated(us[i]),
           \A i \in DOMAIN us : us[i].type = "DerivedComputed" => retained # <<>>,
           retained' # <<>> => retained # <<>> \/ \E j \in DOMAIN us : IsSweep(us[j])
    PROVE  UpdatesDated' /\ SweepFirst'
  <1>1. update_rx \in Seq(RP!StateUpdate) /\ UpdateLine = update_rx /\ UpdateLine' = update_rx \o us
    BY DEF FlowInv, FlowTypes, UpdateLine
  <1> DEFINE L == update_rx \o us
  <1>2. /\ L \in Seq(RP!StateUpdate)
        /\ \A i \in DOMAIN L :
             \/ i \in DOMAIN update_rx /\ L[i] = update_rx[i]
             \/ i > Len(update_rx) /\ i - Len(update_rx) \in DOMAIN us /\ L[i] = us[i - Len(update_rx)]
        /\ \A i \in DOMAIN update_rx : i \in DOMAIN L /\ L[i] = update_rx[i]
        /\ \A i \in DOMAIN us : Len(update_rx) + i \in DOMAIN L /\ L[Len(update_rx) + i] = us[i]
    <2>1. PICK S : S = RP!StateUpdate
      OBVIOUS
    <2>2. update_rx \in Seq(S) /\ us \in Seq(S)
      BY <1>1, <2>1
    <2>3. PICK s \in Seq(S), t \in Seq(S) : s = update_rx /\ t = us
      BY <2>2
    <2>4. PICK c : c = s \o t
      OBVIOUS
    <2>5. /\ c \in Seq(S)
          /\ \A i \in DOMAIN c :
               \/ i \in DOMAIN s /\ c[i] = s[i]
               \/ i > Len(s) /\ i - Len(s) \in DOMAIN t /\ c[i] = t[i - Len(s)]
          /\ \A i \in DOMAIN s : i \in DOMAIN c /\ c[i] = s[i]
          /\ \A i \in DOMAIN t : Len(s) + i \in DOMAIN c /\ c[Len(s) + i] = t[i]
      BY <2>4, ConcatIndex
    <2>6. L = c
      BY <2>3, <2>4
    <2> HIDE DEF L
    <2> QED BY <2>1, <2>3, <2>5, <2>6, Zenon
  <1>3. DOMAIN update_rx = 1..Len(update_rx) /\ Len(update_rx) \in Nat /\ DOMAIN L = 1..Len(L)
        /\ Len(L) \in Nat
    BY <1>1, <1>2
  <1> HIDE DEF L
  <1>4. UpdatesDated'
    BY <1>1, <1>2 DEF FlowInv, UpdatesDated, L
  <1>5. SweepFirst'
    <2> SUFFICES ASSUME radar.current_vcp = None
                 PROVE  /\ radar.sweeps = [e \in Elevations |-> None] /\ radar.derived = {}
                        /\ \A i \in DOMAIN L : L[i].type = "DerivedComputed" =>
                              \E j \in 1..(i - 1) : IsSweep(L[j])
                        /\ retained' # <<>> => \E j \in DOMAIN L : IsSweep(L[j])
      BY <1>1 DEF SweepFirst, L
    <2>1. /\ radar.sweeps = [e \in Elevations |-> None] /\ radar.derived = {}
          /\ \A i \in DOMAIN update_rx : update_rx[i].type = "DerivedComputed" =>
                \E j \in 1..(i - 1) : IsSweep(update_rx[j])
          /\ retained # <<>> => \E j \in DOMAIN update_rx : IsSweep(update_rx[j])
      BY <1>1 DEF FlowInv, SweepFirst
    <2>2. ASSUME NEW i \in DOMAIN L, L[i].type = "DerivedComputed"
          PROVE  \E j \in 1..(i - 1) : IsSweep(L[j])
      <3>1. CASE i \in DOMAIN update_rx /\ L[i] = update_rx[i]
        <4>1. PICK j \in 1..(i - 1) : IsSweep(update_rx[j])
          BY <2>1, <2>2, <3>1
        <4>2. j \in DOMAIN update_rx
          BY <1>3, <3>1
        <4> QED BY <1>2, <4>1, <4>2
      <3>2. CASE i > Len(update_rx) /\ i - Len(update_rx) \in DOMAIN us
                   /\ L[i] = us[i - Len(update_rx)]
        <4>1. PICK j \in DOMAIN update_rx : IsSweep(update_rx[j])
          BY <2>1, <2>2, <3>2
        <4>2. j \in 1..(i - 1)
          BY <1>3, <3>2
        <4> QED BY <1>2, <4>1, <4>2
      <3> QED BY <1>2, <3>1, <3>2
    <2>3. retained' # <<>> => \E j \in DOMAIN L : IsSweep(L[j])
      <3>1. CASE \E j \in DOMAIN us : IsSweep(us[j])
        BY <1>2, <3>1
      <3>2. CASE retained # <<>>
        BY <1>2, <2>1, <3>2
      <3> QED BY <3>1, <3>2
    <2> QED BY <2>1, <2>2, <2>3
  <1> QED BY <1>4, <1>5

(* The closure of a volume as an update.                                   *)
LEMMA ClosureUpdate ==
    ASSUME NEW e \in AP!AssemblyEvent, e.type = "VolumeClosed"
    PROVE  /\ [type |-> "VolumeClosed", summary |-> C!from_scan(e)] \in RP!StateUpdate
           /\ Dated([type |-> "VolumeClosed", summary |-> C!from_scan(e)])
  <1>1. /\ e.volume \in Times \cup {0} /\ e.vcp_number \in VcpNumbers /\ e.status \in RP!VolumeStatus
    BY DEF AP!AssemblyEvent, VcpNumbers, AP!VolumeStatus, RP!VolumeStatus
  <1>2. C!from_scan(e) \in RP!VolumeSummary
    BY <1>1 DEF C!from_scan, RP!VolumeSummary
  <1> QED BY <1>2 DEF RP!StateUpdate, Dated

(* The compute task takes an event: it starts a job, or the event becomes  *)
(* an update at once.                                                      *)
LEMMA TakeEventStep ==
    ASSUME FlowInv, TakeEvent
    PROVE  FlowInv'
  <1> DEFINE e == Head(event_rx)
  <1>0. /\ FlowTypes /\ AP!Follows(Tilts, EventLine, asm) /\ event_rx # <<>> /\ cpc = "recv"
        /\ UNCHANGED <<stream, asm, last_activity, pc, kind, radials, late_discards, received>>
        /\ UNCHANGED <<update_rx, radar>> /\ event_rx' = Tail(event_rx) /\ pending = <<>>
    BY DEF FlowInv, FlowTypes, TakeEvent, C!Take, avars, rvars
  <1>1. /\ event_rx \in Seq(AP!AssemblyEvent) /\ AP!EventsOK(event_rx) /\ EventLine = event_rx
        /\ asm.events \in Seq(AP!AssemblyEvent)
    BY <1>0, EventLineType DEF FlowTypes
  <1>2. e \in AP!AssemblyEvent /\ AP!EventOK(e)
    BY <1>0, <1>1 DEF AP!EventsOK
  <1>3. Tail(event_rx) \in Seq(AP!AssemblyEvent) /\ AP!EventsOK(Tail(event_rx))
    BY <1>0, <1>1, StagesAssumption, AP!EventsTail
  <1>4. AP!IndInv' /\ stream' \in Seq(AP!Chunk) /\ DisplayTypes'
    BY <1>0 DEF FlowInv, FlowTypes, DisplayTypes, RP!DerivedIsDated, AP!IndInv, AP!TaskTypeOK,
                AP!HandlerInv, AP!WatchdogArmed
  <1> HIDE DEF e
  <1>5. CASE e.type = "SweepClosed" \/ (e.type = "VolumeClosed" /\ e.status = "Complete")
    <2>1. cpc' = "blocking" /\ event' = e /\ UNCHANGED <<retained, pending>>
      BY <1>5 DEF TakeEvent, C!Take, e
    <2>2. FlowTypes'
      <3>1. event_rx' \in Seq(AP!AssemblyEvent) /\ AP!EventsOK(event_rx')
        BY <1>0, <1>3
      <3>2. event' \in AP!AssemblyEvent /\ AP!EventOK(event') /\ event'.type \in {"SweepClosed", "VolumeClosed"}
        BY <1>2, <1>5, <2>1
      <3>3. /\ retained' \in Seq(SweepGrid) /\ Len(retained') <= RetainedElevationCap
            /\ update_rx' \in Seq(RP!StateUpdate) /\ pending' \in Seq(RP!StateUpdate)
            /\ pending' = <<>>
        BY <1>0, <2>1 DEF FlowTypes
      <3> QED BY <1>4, <2>1, <3>1, <3>2, <3>3 DEF FlowTypes
    <2>3. EventLine' = EventLine /\ Tilts' = Tilts /\ UpdateLine' = UpdateLine
      <3>1. EventLine' = <<e>> \o Tail(event_rx)
        BY <1>0, <2>1 DEF EventLine
      <3>2. <<Head(event_rx)>> \o Tail(event_rx) = event_rx
        BY <1>0, <1>1
      <3> QED BY <1>0, <1>1, <2>1, <3>1, <3>2 DEF e, Tilts, UpdateLine
    <2>4. AP!Follows(Tilts', EventLine', asm')
      BY <1>0, <2>3
    <2>5. UpdatesDated' /\ SweepFirst'
      BY <1>0, <2>1, <2>3 DEF FlowInv, UpdatesDated, SweepFirst
    <2> QED BY <1>4, <2>2, <2>4, <2>5 DEF FlowInv
  <1>6. ASSUME NEW u \in RP!StateUpdate, Dated(u), u.type # "DerivedComputed",
               pending' = <<u>>, cpc' = "send", retained' \in {<<>>, retained},
               AP!IsClosure(e) => retained' = <<>>
        PROVE  FlowInv'
    <2>1. <<u>> \in Seq(RP!StateUpdate)
      OBVIOUS
    <2>2. FlowTypes'
      <3>1. event_rx' \in Seq(AP!AssemblyEvent) /\ AP!EventsOK(event_rx')
        BY <1>0, <1>3
      <3>2. /\ retained' \in Seq(SweepGrid) /\ Len(retained') <= RetainedElevationCap
            /\ update_rx' \in Seq(RP!StateUpdate)
        <4>1. /\ retained \in Seq(SweepGrid) /\ Len(retained) <= RetainedElevationCap
              /\ update_rx' \in Seq(RP!StateUpdate)
          BY <1>0 DEF FlowTypes
        <4>2. <<>> \in Seq(SweepGrid) /\ Len(<<>>) <= RetainedElevationCap
          BY FlowAssumption
        <4>3. CASE retained' = retained
          BY <4>1, <4>3
        <4>4. CASE retained' = <<>>
          BY <4>1, <4>2, <4>4
        <4> QED BY <1>6, <4>3, <4>4
      <3>3. pending' \in Seq(RP!StateUpdate) /\ pending' # <<>> /\ cpc' = "send"
        BY <1>6, <2>1
      <3> QED BY <1>4, <3>1, <3>2, <3>3 DEF FlowTypes
    <2>3. EventLine' = Tail(EventLine)
      BY <1>0, <1>1, <1>3, <1>6 DEF EventLine
    <2>4. Tilts' \subseteq Tilts /\ (AP!IsClosure(e) => Tilts' = {})
      BY <1>6 DEF Tilts
    <2>5. PICK P : P = Tilts'
      OBVIOUS
    <2>6. AP!Follows(P, Tail(EventLine), asm)
      BY <1>0, <1>1, <2>4, <2>5, StagesAssumption, AP!FollowsTail DEF e
    <2>7. AP!Follows(Tilts', EventLine', asm')
      BY <1>0, <2>3, <2>5, <2>6
    <2>8. UpdatesDated' /\ SweepFirst'
      <3>1. \A i \in DOMAIN <<u>> : (<<u>>)[i] = u
        OBVIOUS
      <3>2. PICK us : us = <<u>>
        OBVIOUS
      <3>3. /\ us \in Seq(RP!StateUpdate) /\ pending' = us
            /\ \A i \in DOMAIN us : Dated(us[i]) /\ us[i].type # "DerivedComputed"
        BY <1>6, <2>1, <3>1, <3>2
      <3>4. retained' # <<>> => retained # <<>>
        BY <1>6
      <3> QED BY <1>0, <3>3, <3>4, NewUpdates
    <2> QED BY <1>4, <2>2, <2>7, <2>8 DEF FlowInv
  <1>7. CASE e.type = "VolumeClosed" /\ e.status # "Complete"
    <2> DEFINE u == [type |-> "VolumeClosed", summary |-> C!from_scan(e)]
    <2>1. u \in RP!StateUpdate /\ Dated(u) /\ u.type # "DerivedComputed"
      BY <1>2, <1>7, ClosureUpdate
    <2>2. pending' = <<u>> /\ cpc' = "send" /\ retained' = <<>>
      BY <1>7 DEF TakeEvent, C!Take, C!Updates, e
    <2> HIDE DEF u
    <2> QED BY <1>6, <2>1, <2>2
  <1>8. CASE e.type \notin {"SweepClosed", "VolumeClosed"}
    <2> DEFINE u == [type |-> "Info", event |-> e.type]
    <2>1. u \in RP!StateUpdate /\ Dated(u) /\ u.type # "DerivedComputed"
      BY <1>2, <1>8 DEF RP!StateUpdate, Dated, AP!AssemblyEvent
    <2>2. pending' = <<u>> /\ cpc' = "send" /\ retained' = retained
      BY <1>8 DEF TakeEvent, C!Take, C!Updates, e
    <2> HIDE DEF u
    <2> QED BY <1>6, <1>8, <2>1, <2>2 DEF AP!IsClosure
  <1> QED BY <1>5, <1>7, <1>8

(* offer keeps the tilts within the cap, and only the new one is new.      *)
LEMMA OfferKeeps ==
    ASSUME NEW tilts \in Seq(SweepGrid), Len(tilts) <= RetainedElevationCap, NEW g \in SweepGrid
    PROVE  /\ C!offer(tilts, g) \in Seq(SweepGrid)
           /\ Len(C!offer(tilts, g)) <= RetainedElevationCap
           /\ \A i \in DOMAIN C!offer(tilts, g) :
                 \/ C!offer(tilts, g)[i] = g
                 \/ \E j \in DOMAIN tilts : C!offer(tilts, g)[i] = tilts[j]
  <1> DEFINE p == Append(tilts, g)
  <1>1. /\ p \in Seq(SweepGrid) /\ Len(p) = Len(tilts) + 1 /\ Len(tilts) \in Nat
        /\ p # <<>> /\ DOMAIN p = 1..(Len(tilts) + 1)
        /\ \A i \in DOMAIN p : p[i] = g \/ (i \in DOMAIN tilts /\ p[i] = tilts[i])
    OBVIOUS
  <1>2. RetainedElevationCap \in Nat
    BY FlowAssumption
  <1>3. C!offer(tilts, g) = IF Len(p) > RetainedElevationCap THEN Tail(p) ELSE p
    BY DEF C!offer
  <1> HIDE DEF p
  <1>4. /\ Tail(p) \in Seq(SweepGrid) /\ Len(Tail(p)) = Len(tilts)
        /\ \A i \in DOMAIN Tail(p) : i + 1 \in DOMAIN p /\ Tail(p)[i] = p[i + 1]
    BY <1>1
  <1> QED BY <1>1, <1>2, <1>3, <1>4

(* A gridding job leaves one update; its reflectivity grid joins the tilts. *)
LEMMA GridStep ==
    ASSUME FlowInv, Grid
    PROVE  FlowInv'
  <1>0. /\ FlowTypes /\ AP!Follows(Tilts, EventLine, asm)
        /\ UNCHANGED <<stream, asm, last_activity, pc, kind, radials, late_discards, received>>
        /\ UNCHANGED <<update_rx, radar, event_rx>>
    BY DEF FlowInv, Grid, avars, rvars, R!Report
  <1>1. PICK products \in SUBSET BaseProducts : C!Gridded(products)
    BY DEF Grid
  <1>2. PICK e : e = event
    OBVIOUS
  <1>3. cpc = "blocking" /\ e.type = "SweepClosed" /\ e \in AP!AssemblyEvent /\ AP!EventOK(e)
    BY <1>0, <1>1, <1>2 DEF FlowTypes, C!Gridded
  <1>4. /\ e.sweep.elevation_number \in Elevations /\ e.volume \in Times
        /\ e.vcp_number \in VcpNumbers
    BY <1>3 DEF AP!AssemblyEvent, AP!Sweep, AP!EventOK, VcpNumbers
  <1> DEFINE grids == C!grid_all_base_products(products, e)
             u == [type |-> "SweepGridded", elevation_number |-> e.sweep.elevation_number,
                   volume |-> e.volume, vcp_number |-> e.vcp_number, grids |-> grids]
             g == [product |-> "Reflectivity", elevation_number |-> e.sweep.elevation_number,
                   volume |-> e.volume]
  <1>5. grids \in SUBSET SweepGrid
    BY <1>1, <1>4 DEF C!grid_all_base_products, SweepGrid
  <1>h. PICK h : h = CHOOSE x \in C!grid_all_base_products(products, event) :
                          x.product = "Reflectivity"
    OBVIOUS
  <1>6. "Reflectivity" \in products => h = g
    <2> HAVE "Reflectivity" \in products
    <2>1. g \in grids /\ g.product = "Reflectivity"
      BY DEF C!grid_all_base_products
    <2>2. \A x \in grids : x.product = "Reflectivity" => x = g
      BY DEF C!grid_all_base_products
    <2>3. grids = C!grid_all_base_products(products, event)
      BY <1>2
    <2> HIDE DEF g, grids
    <2> QED BY <1>h, <2>1, <2>2, <2>3
  <1>7. g \in SweepGrid
    BY <1>4, FlowAssumption DEF SweepGrid
  <1>8. /\ retained' = IF "Reflectivity" \in products THEN C!offer(retained, g) ELSE retained
        /\ pending' = <<u>> /\ cpc' = "send"
    <2>1. retained' = IF "Reflectivity" \in products
                      THEN C!offer(retained, h) ELSE retained
      BY <1>1, <1>h DEF C!Gridded
    <2>2. pending' = <<u>> /\ cpc' = "send"
      BY <1>1, <1>2 DEF C!Gridded, C!Updates
    <2> HIDE DEF g, u
    <2>3. CASE "Reflectivity" \in products
      BY <1>6, <2>1, <2>2, <2>3
    <2>4. CASE "Reflectivity" \notin products
      BY <2>1, <2>2, <2>4
    <2> QED BY <2>3, <2>4
  <1>9. u \in RP!StateUpdate /\ Dated(u) /\ IsSweep(u)
    BY <1>4, <1>5 DEF RP!StateUpdate, Dated, IsSweep
  <1> HIDE DEF grids, u
  <1>10. /\ AP!IndInv' /\ stream' \in Seq(AP!Chunk) /\ DisplayTypes'
    BY <1>0 DEF FlowInv, FlowTypes, DisplayTypes, RP!DerivedIsDated, AP!IndInv, AP!TaskTypeOK,
                AP!HandlerInv, AP!WatchdogArmed
  <1>11. /\ retained' \in Seq(SweepGrid) /\ Len(retained') <= RetainedElevationCap
         /\ \A i \in DOMAIN retained' : retained'[i] = g \/ \E j \in DOMAIN retained : retained'[i] = retained[j]
    <2>1. retained \in Seq(SweepGrid) /\ Len(retained) <= RetainedElevationCap
      BY <1>0 DEF FlowTypes
    <2> HIDE DEF g
    <2>2. CASE "Reflectivity" \in products
      BY <1>7, <1>8, <2>1, <2>2, OfferKeeps
    <2>3. CASE "Reflectivity" \notin products
      BY <1>8, <2>1, <2>3
    <2> QED BY <2>2, <2>3
  <1>12. FlowTypes'
    <2>1. event_rx' \in Seq(AP!AssemblyEvent) /\ AP!EventsOK(event_rx')
      BY <1>0 DEF FlowTypes
    <2>2. update_rx' \in Seq(RP!StateUpdate)
      BY <1>0 DEF FlowTypes
    <2>3. pending' \in Seq(RP!StateUpdate) /\ pending' # <<>> /\ cpc' = "send"
      BY <1>8, <1>9
    <2> QED BY <1>10, <1>11, <2>1, <2>2, <2>3 DEF FlowTypes
  <1>13. /\ EventLine \in Seq(AP!AssemblyEvent) /\ asm.events \in Seq(AP!AssemblyEvent)
         /\ EventLine # <<>> /\ Head(EventLine) = e /\ Tail(EventLine) = event_rx
    BY <1>0, <1>2, <1>3, EventLineType
  <1>14. EventLine' = Tail(EventLine)
    <2>1. event_rx \in Seq(AP!AssemblyEvent)
      BY <1>0 DEF FlowTypes
    <2> QED BY <1>0, <1>8, <1>13, <2>1 DEF EventLine
  <1>15. PICK P : P = Tilts'
    OBVIOUS
  <1>16. \A s \in P : s \in Tilts \/ s = g
    BY <1>11, <1>15 DEF Tilts
  <1>17. ~AP!IsClosure(e)
    BY <1>3 DEF AP!IsClosure
  <1>18. AP!Follows(P, Tail(EventLine), asm)
    <2>1. g.volume = e.volume /\ g.elevation_number = e.sweep.elevation_number
      OBVIOUS
    <2> HIDE DEF g
    <2> QED BY <1>0, <1>3, <1>13, <1>16, <1>17, <2>1, StagesAssumption, AP!FollowsTail
  <1>19. AP!Follows(Tilts', EventLine', asm')
    BY <1>0, <1>14, <1>15, <1>18
  <1>20. UpdatesDated' /\ SweepFirst'
    <2>1. \A i \in DOMAIN <<u>> : (<<u>>)[i] = u
      OBVIOUS
    <2>2. PICK us : us = <<u>>
      OBVIOUS
    <2>3. /\ us \in Seq(RP!StateUpdate) /\ pending' = us /\ 1 \in DOMAIN us
          /\ \A i \in DOMAIN us : us[i] = u
      BY <1>8, <1>9, <2>1, <2>2
    <2>4. u.type # "DerivedComputed" /\ pending = <<>>
      BY <1>0, <1>3, <1>9 DEF IsSweep, FlowTypes
    <2> QED BY <1>0, <1>9, <2>3, <2>4, NewUpdates
  <1> QED BY <1>10, <1>12, <1>19, <1>20 DEF FlowInv

(* The closure in hand names the volume and the elevations of every tilt.  *)
LEMMA ClosureCoversTilts ==
    ASSUME FlowInv, cpc = "blocking", event.type = "VolumeClosed", NEW t \in Tilts
    PROVE  /\ t \in SweepGrid /\ t.volume = event.volume
           /\ t.elevation_number \in AP!Elevs(event.sweeps)
  <1>1. /\ FlowTypes /\ AP!Follows(Tilts, EventLine, asm) /\ retained \in Seq(SweepGrid)
    BY DEF FlowInv, FlowTypes
  <1>2. /\ EventLine \in Seq(AP!AssemblyEvent) /\ asm.events \in Seq(AP!AssemblyEvent)
        /\ EventLine # <<>> /\ Head(EventLine) = event
    BY <1>1, EventLineType
  <1>3. AP!IsClosure(Head(EventLine))
    BY <1>2 DEF AP!IsClosure
  <1>4. AP!Of(t.volume, t.elevation_number, Head(EventLine).volume, AP!Elevs(Head(EventLine).sweeps))
    BY <1>1, <1>2, <1>3, StagesAssumption, AP!FollowsHead
  <1>5. t \in SweepGrid
    BY <1>1 DEF Tilts
  <1> QED BY <1>2, <1>4, <1>5 DEF AP!Of

(* What compute_derived makes of the tilts of a closing volume.            *)
LEMMA DerivedUpdate ==
    ASSUME NEW tilts \in Seq(SweepGrid), tilts # <<>>, NEW e \in AP!AssemblyEvent,
           e.type = "VolumeClosed", \A i \in DOMAIN tilts : tilts[i].volume = e.volume,
           NEW u, u = [type |-> "DerivedComputed", volume |-> e.volume,
                       vcp_number |-> e.vcp_number, grids |-> C!compute_derived(tilts)]
    PROVE  u \in RP!StateUpdate /\ Dated(u) /\ C!compute_derived(tilts) # {}
  <1> DEFINE S == {tilts[i] : i \in DOMAIN tilts}
             grids == {[product |-> p, tilts |-> S] : p \in {"EchoTops", "Vil"}}
  <1>1. C!compute_derived(tilts) = grids
    BY DEF C!compute_derived
  <1>2. 1 \in DOMAIN tilts /\ tilts[1] \in SweepGrid
    OBVIOUS
  <1>3. /\ S \in SUBSET SweepGrid /\ S # {} /\ (\A t \in S : t.volume = e.volume)
    BY <1>2
  <1>4. e.volume \in Times /\ e.vcp_number \in VcpNumbers
    <2>1. tilts[1].volume \in Times /\ tilts[1].volume = e.volume
      BY <1>2 DEF SweepGrid
    <2> QED BY <2>1 DEF AP!AssemblyEvent, VcpNumbers
  <1> HIDE DEF S
  <1>5. /\ grids \in (SUBSET DerivedGrid) \ {{}} /\ grids # {}
        /\ \A g \in grids : g.tilts = S
    <2>1. \A g \in grids : g \in DerivedGrid /\ g.tilts = S
      BY <1>3 DEF DerivedGrid
    <2>2. [product |-> "Vil", tilts |-> S] \in grids
      OBVIOUS
    <2> HIDE DEF grids
    <2> QED BY <2>1, <2>2
  <1> HIDE DEF grids
  <1>6. u.type = "DerivedComputed" /\ u.volume = e.volume /\ u.grids = grids
    BY <1>1
  <1>7. u \in RP!StateUpdate
    BY <1>1, <1>4, <1>5 DEF RP!StateUpdate
  <1>8. Dated(u)
    BY <1>3, <1>4, <1>5, <1>6 DEF Dated
  <1> QED BY <1>1, <1>5, <1>7, <1>8

(* A derivation job leaves the derived products and the closure, in that   *)
(* order, and no tilt behind.                                              *)
LEMMA DeriveStep ==
    ASSUME FlowInv, Derive
    PROVE  FlowInv'
  <1>0. /\ FlowTypes /\ AP!Follows(Tilts, EventLine, asm)
        /\ UNCHANGED <<stream, asm, last_activity, pc, kind, radials, late_discards, received>>
        /\ UNCHANGED <<update_rx, radar, event_rx>>
        /\ cpc = "blocking" /\ event.type = "VolumeClosed" /\ retained' = <<>>
        /\ C!Derived
    BY DEF FlowInv, Derive, C!Derived, avars, rvars
  <1>1. PICK e : e = event
    OBVIOUS
  <1>2. PICK tilts : tilts = retained
    OBVIOUS
  <1>3. /\ e \in AP!AssemblyEvent /\ e.type = "VolumeClosed" /\ pending = <<>>
        /\ tilts \in Seq(SweepGrid)
    BY <1>0, <1>1, <1>2 DEF FlowTypes
  <1>4. \A i \in DOMAIN tilts : tilts[i].volume = e.volume
    <2>1. ASSUME NEW i \in DOMAIN tilts PROVE tilts[i].volume = e.volume
      <3>1. PICK t : t = tilts[i]
        OBVIOUS
      <3>2. t \in Tilts
        BY <1>2, <3>1 DEF Tilts
      <3>3. t.volume = event.volume
        BY <1>0, <3>2, ClosureCoversTilts
      <3> QED BY <1>1, <3>1, <3>3
    <2> QED BY <2>1
  <1> DEFINE c == [type |-> "VolumeClosed", summary |-> C!from_scan(e)]
             d == [type |-> "DerivedComputed", volume |-> e.volume,
                   vcp_number |-> e.vcp_number, grids |-> C!compute_derived(tilts)]
  <1>5. PICK us : us = IF C!compute_derived(tilts) = {} THEN <<c>> ELSE <<d, c>>
    OBVIOUS
  <1>6. pending' = us /\ cpc' = "send"
    <2>1. C!Updates(us)
      BY <1>0, <1>1, <1>2, <1>5 DEF C!Derived, C!Updates
    <2> QED BY <1>5, <2>1 DEF C!Updates
  <1>7. c \in RP!StateUpdate /\ Dated(c) /\ c.type # "DerivedComputed"
    BY <1>3, ClosureUpdate
  <1>8. C!compute_derived(tilts) # {} => tilts # <<>> /\ d \in RP!StateUpdate /\ Dated(d)
    <2>1. C!compute_derived(tilts) # {} => tilts # <<>>
      BY DEF C!compute_derived
    <2>2. PICK x : x = d
      OBVIOUS
    <2> QED BY <1>3, <1>4, <2>1, <2>2, DerivedUpdate
  <1> HIDE DEF c, d
  <1>9. /\ us \in Seq(RP!StateUpdate) /\ us # <<>>
        /\ \A i \in DOMAIN us : Dated(us[i]) /\ (us[i].type = "DerivedComputed" => tilts # <<>>)
    <2>1. CASE C!compute_derived(tilts) = {}
      <3>1. us = <<c>>
        BY <1>5, <2>1
      <3> QED BY <1>7, <3>1
    <2>2. CASE C!compute_derived(tilts) # {}
      <3>1. us = <<d, c>>
        BY <1>5, <2>2
      <3> QED BY <1>7, <1>8, <2>2, <3>1
    <2> QED BY <2>1, <2>2
  <1>10. /\ AP!IndInv' /\ stream' \in Seq(AP!Chunk) /\ DisplayTypes'
    BY <1>0 DEF FlowInv, FlowTypes, DisplayTypes, RP!DerivedIsDated, AP!IndInv, AP!TaskTypeOK,
                AP!HandlerInv, AP!WatchdogArmed
  <1>11. FlowTypes'
    <2>1. event_rx' \in Seq(AP!AssemblyEvent) /\ AP!EventsOK(event_rx')
      BY <1>0 DEF FlowTypes
    <2>2. update_rx' \in Seq(RP!StateUpdate)
      BY <1>0 DEF FlowTypes
    <2>3. pending' \in Seq(RP!StateUpdate) /\ pending' # <<>> /\ cpc' = "send"
      BY <1>6, <1>9
    <2>4. retained' \in Seq(SweepGrid) /\ Len(retained') <= RetainedElevationCap
      BY <1>0, FlowAssumption
    <2> QED BY <1>10, <2>1, <2>2, <2>3, <2>4 DEF FlowTypes
  <1>12. /\ EventLine \in Seq(AP!AssemblyEvent) /\ asm.events \in Seq(AP!AssemblyEvent)
         /\ EventLine # <<>> /\ Tail(EventLine) = event_rx
    BY <1>0, EventLineType
  <1>13. EventLine' = Tail(EventLine) /\ Tilts' = {}
    <2>1. event_rx \in Seq(AP!AssemblyEvent)
      BY <1>0 DEF FlowTypes
    <2> QED BY <1>0, <1>6, <1>12, <2>1 DEF EventLine, Tilts
  <1>14. AP!Follows({}, Tail(EventLine), asm)
    BY <1>0, <1>12, StagesAssumption, AP!FollowsTail
  <1>15. AP!Follows(Tilts', EventLine', asm')
    BY <1>0, <1>13, <1>14
  <1>16. UpdatesDated' /\ SweepFirst'
    BY <1>0, <1>2, <1>3, <1>6, <1>9, NewUpdates
  <1> QED BY <1>10, <1>11, <1>15, <1>16 DEF FlowInv

(* An update goes from the compute task to the channel: the line is the    *)
(* same.                                                                   *)
LEMMA SendUpdateStep ==
    ASSUME FlowInv, SendUpdate
    PROVE  FlowInv'
  <1>0. /\ FlowTypes /\ AP!Follows(Tilts, EventLine, asm)
        /\ UNCHANGED <<stream, asm, last_activity, pc, kind, radials, late_discards, received>>
        /\ UNCHANGED <<retained, radar, event_rx>>
        /\ cpc = "send" /\ update_rx' = Append(update_rx, Head(pending))
        /\ pending' = Tail(pending) /\ cpc' = IF Tail(pending) = <<>> THEN "recv" ELSE "send"
    BY DEF FlowInv, SendUpdate, C!Send, C!Updates, avars, rvars
  <1>1. pending \in Seq(RP!StateUpdate) /\ pending # <<>> /\ update_rx \in Seq(RP!StateUpdate)
    BY <1>0 DEF FlowTypes
  <1>2. /\ Tilts' = Tilts /\ EventLine' = EventLine /\ UpdateLine' = UpdateLine
    <2>1. Tilts' = Tilts /\ EventLine' = EventLine
      BY <1>0 DEF Tilts, EventLine
    <2>2. UpdateLine' = UpdateLine
      BY <1>0, <1>1, MoveHead DEF UpdateLine
    <2> QED BY <2>1, <2>2
  <1>3. AP!IndInv' /\ DisplayTypes'
    BY <1>0 DEF FlowInv, FlowTypes, DisplayTypes, RP!DerivedIsDated, AP!IndInv, AP!TaskTypeOK,
                AP!HandlerInv, AP!WatchdogArmed
  <1>4. FlowTypes'
    <2>1. event_rx' \in Seq(AP!AssemblyEvent) /\ AP!EventsOK(event_rx') /\ stream' \in Seq(AP!Chunk)
      BY <1>0 DEF FlowTypes
    <2>2. update_rx' \in Seq(RP!StateUpdate) /\ pending' \in Seq(RP!StateUpdate)
      BY <1>0, <1>1
    <2>3. retained' \in Seq(SweepGrid) /\ Len(retained') <= RetainedElevationCap
      BY <1>0 DEF FlowTypes
    <2> QED BY <1>0, <1>3, <2>1, <2>2, <2>3 DEF FlowTypes
  <1>5. AP!Follows(Tilts', EventLine', asm')
    BY <1>0, <1>2
  <1>6. UpdatesDated' /\ SweepFirst'
    BY <1>0, <1>2 DEF FlowInv, UpdatesDated, SweepFirst
  <1> QED BY <1>3, <1>4, <1>5, <1>6 DEF FlowInv

(* The applier takes the first update of the line.                         *)
LEMMA LineHead ==
    ASSUME FlowTypes, update_rx # <<>>
    PROVE  /\ UpdateLine \in Seq(RP!StateUpdate) /\ UpdateLine # <<>>
           /\ UpdateLine[1] = Head(update_rx) /\ Head(update_rx) \in RP!StateUpdate
           /\ Tail(update_rx) \in Seq(RP!StateUpdate)
           /\ Tail(update_rx) \o pending = Tail(UpdateLine)
  <1>1. PICK S : S = RP!StateUpdate
    OBVIOUS
  <1>2. PICK s \in Seq(S), t \in Seq(S) : s = update_rx /\ t = pending
    BY <1>1 DEF FlowTypes
  <1>3. s # <<>> BY <1>2
  <1>4. s \o t \in Seq(S) /\ s \o t # <<>>
    BY <1>3
  <1>5. (s \o t)[1] = Head(s) /\ Head(s) \in S
    BY <1>3
  <1>6. Tail(s) \in Seq(S)
    BY <1>3
  <1>7. Tail(s) \o t = Tail(s \o t)
    BY <1>3
  <1> QED BY <1>1, <1>2, <1>4, <1>5, <1>6, <1>7 DEF UpdateLine

(* The applier of the flow is the one proved about.                        *)
LEMMA SameApply == \A r, u : R!apply(r, u) = RP!apply(r, u)
  BY DEF R!apply, RP!apply, R!apply_sweep, RP!apply_sweep, R!apply_derived, RP!apply_derived,
         R!apply_volume_closed, RP!apply_volume_closed, R!clear_pattern, RP!clear_pattern,
         R!NoSweeps, RP!NoSweeps

(* Only a sweep sets the pattern, and any sweep does.                      *)
LEMMA ApplyPattern ==
    ASSUME NEW r \in RP!RadarStates, NEW u \in RP!StateUpdate
    PROVE  /\ IsSweep(u) => RP!apply(r, u).current_vcp # None
           /\ ~IsSweep(u) => /\ RP!apply(r, u).current_vcp = r.current_vcp
                             /\ RP!apply(r, u).sweeps = r.sweeps
           /\ u.type \in {"VolumeClosed", "Info"} => RP!apply(r, u).derived = r.derived
  <1>0. RP!StateAssumption
    BY StagesAssumption
  <1>1. CASE u.type = "SweepGridded"
    <2>1. u.vcp_number # None
      BY <1>0, <1>1 DEF RP!StateUpdate, RP!StateAssumption
    <2>2. RP!apply_sweep(r, u).current_vcp = u.vcp_number
      BY DEF RP!apply_sweep, RP!clear_pattern, RP!RadarStates
    <2> QED BY <1>1, <2>1, <2>2 DEF RP!apply, IsSweep
  <1>2. CASE u.type = "DerivedComputed"
    BY <1>2 DEF RP!apply, RP!apply_derived, RP!RadarStates, IsSweep
  <1>3. CASE u.type = "VolumeClosed"
    BY <1>3 DEF RP!apply, RP!apply_volume_closed, RP!RadarStates, IsSweep
  <1>4. CASE u.type = "Info"
    BY <1>4 DEF RP!apply, IsSweep
  <1> QED BY <1>1, <1>2, <1>3, <1>4 DEF RP!StateUpdate

(* The applier takes an update off the line.                               *)
LEMMA ApplyStep ==
    ASSUME FlowInv, Apply
    PROVE  FlowInv'
  <1>0. /\ FlowTypes /\ AP!Follows(Tilts, EventLine, asm) /\ update_rx # <<>>
        /\ UNCHANGED <<stream, asm, last_activity, pc, kind, radials, late_discards, received>>
        /\ UNCHANGED <<cpc, event, retained, pending, event_rx>>
        /\ update_rx' = Tail(update_rx)
        /\ radar \in RP!RadarStates /\ (radar.derived_volume = None <=> radar.derived = {})
    BY DEF FlowInv, Apply, avars, cvars, DisplayTypes, RP!DerivedIsDated
  <1>1. PICK u : u = Head(update_rx)
    OBVIOUS
  <1>2. radar' = RP!apply(radar, u)
    BY <1>1, SameApply DEF Apply, R!ApplyEvent
  <1>3. PICK L : L = UpdateLine
    OBVIOUS
  <1>4. /\ u \in RP!StateUpdate /\ L \in Seq(RP!StateUpdate) /\ L # <<>> /\ L[1] = u
        /\ Tail(update_rx) \in Seq(RP!StateUpdate) /\ UpdateLine' = Tail(L)
    BY <1>0, <1>1, <1>3, LineHead DEF UpdateLine
  <1>5. /\ DOMAIN Tail(L) = 1..(Len(L) - 1) /\ DOMAIN L = 1..Len(L) /\ Len(L) \in Nat
        /\ \A i \in DOMAIN Tail(L) : i + 1 \in DOMAIN L /\ Tail(L)[i] = L[i + 1]
    BY <1>4
  <1>6. DisplayTypes'
    <2>1. radar' \in RP!RadarStates
      BY <1>0, <1>2, <1>4, StagesAssumption, RP!ApplyType
    <2>2. radar'.derived_volume = None <=> radar'.derived = {}
      BY <1>0, <1>2, <1>4, StagesAssumption, RP!ApplyDerivedDated
    <2> QED BY <2>1, <2>2 DEF DisplayTypes, RP!DerivedIsDated
  <1>7. FlowTypes'
    <2>1. AP!IndInv'
      BY <1>0 DEF FlowInv, FlowTypes, AP!IndInv, AP!TaskTypeOK, AP!HandlerInv, AP!WatchdogArmed
    <2>2. AP!EventsOK(event_rx') /\ (cpc' = "blocking" => AP!EventOK(event'))
      BY <1>0 DEF FlowTypes
    <2> QED BY <1>0, <1>4, <2>1, <2>2 DEF FlowTypes
  <1>8. AP!Follows(Tilts', EventLine', asm')
    <2>1. Tilts' = Tilts /\ EventLine' = EventLine
      BY <1>0 DEF Tilts, EventLine
    <2> QED BY <1>0, <2>1
  <1>9. UpdatesDated'
    <2>1. \A i \in DOMAIN L : Dated(L[i])
      BY <1>3 DEF FlowInv, UpdatesDated
    <2> QED BY <1>4, <1>5, <2>1 DEF UpdatesDated
  <1>10. SweepFirst'
    <2> SUFFICES ASSUME radar'.current_vcp = None
                 PROVE  /\ radar'.sweeps = [e \in Elevations |-> None] /\ radar'.derived = {}
                        /\ \A i \in DOMAIN Tail(L) : Tail(L)[i].type = "DerivedComputed" =>
                              \E j \in 1..(i - 1) : IsSweep(Tail(L)[j])
                        /\ retained # <<>> => \E j \in DOMAIN Tail(L) : IsSweep(Tail(L)[j])
      BY <1>0, <1>4 DEF SweepFirst
    <2>2. ~IsSweep(u) /\ radar.current_vcp = None /\ radar'.sweeps = radar.sweeps
          /\ (u.type \in {"VolumeClosed", "Info"} => radar'.derived = radar.derived)
      BY <1>0, <1>2, <1>4, ApplyPattern
    <2>3. /\ radar.sweeps = [e \in Elevations |-> None] /\ radar.derived = {}
          /\ \A i \in DOMAIN L : L[i].type = "DerivedComputed" => \E j \in 1..(i - 1) : IsSweep(L[j])
          /\ retained # <<>> => \E j \in DOMAIN L : IsSweep(L[j])
      BY <1>3, <2>2 DEF FlowInv, SweepFirst
    <2>4. u.type # "DerivedComputed"
      <3>1. 1 \in DOMAIN L /\ 1..(1 - 1) = {}
        BY <1>4
      <3> QED BY <1>4, <2>3, <3>1
    <2>5. radar'.derived = {}
      BY <1>4, <2>2, <2>3, <2>4 DEF RP!StateUpdate, IsSweep
    <2>6. ASSUME NEW j \in DOMAIN L, IsSweep(L[j])
          PROVE  j > 1 /\ j - 1 \in DOMAIN Tail(L) /\ IsSweep(Tail(L)[j - 1])
      <3>1. j # 1
        BY <1>4, <2>2, <2>6
      <3>2. j > 1 /\ j - 1 \in DOMAIN Tail(L) /\ (j - 1) + 1 = j
        BY <1>5, <3>1
      <3> QED BY <1>5, <2>6, <3>2
    <2>7. ASSUME NEW i \in DOMAIN Tail(L), Tail(L)[i].type = "DerivedComputed"
          PROVE  \E j \in 1..(i - 1) : IsSweep(Tail(L)[j])
      <3>1. PICK j \in 1..((i + 1) - 1) : IsSweep(L[j])
        BY <1>5, <2>3, <2>7
      <3>2. j \in DOMAIN L
        BY <1>5
      <3>3. j > 1 /\ j - 1 \in 1..(i - 1)
        BY <1>5, <2>6, <3>1, <3>2
      <3> QED BY <2>6, <3>1, <3>2, <3>3
    <2>8. retained # <<>> => \E j \in DOMAIN Tail(L) : IsSweep(Tail(L)[j])
      BY <2>3, <2>6
    <2> QED BY <2>2, <2>3, <2>5, <2>7, <2>8
  <1> QED BY <1>6, <1>7, <1>8, <1>9, <1>10 DEF FlowInv

(* Nothing is in the line after a fresh start.                             *)
LEMMA FreshLine ==
    ASSUME NEW a, a = AP!new_assembler
    PROVE  AP!Follows({}, <<>>, a)
  <1>1. a.events = <<>> /\ a.closed_sweeps = <<>> /\ <<>> \o <<>> = <<>> /\ DOMAIN <<>> = {}
    BY DEF AP!new_assembler
  <1> QED BY <1>1 DEF AP!Follows, AP!Lined

(* A restart empties both lines; the display stays.                        *)
LEMMA RestartStep ==
    ASSUME FlowInv, Restart
    PROVE  FlowInv'
  <1>0. /\ FlowTypes /\ UNCHANGED <<stream, radar>>
        /\ asm' = A!new_assembler /\ last_activity' = None /\ pc' = "select"
        /\ kind' = "Start" /\ radials' = <<>> /\ late_discards' = A!NoLate
        /\ cpc' = "recv" /\ event' = None /\ retained' = <<>> /\ pending' = <<>>
        /\ event_rx' = <<>> /\ update_rx' = <<>>
    BY DEF FlowInv, Restart, rvars
  <1>1. received' \in Nat
    <2>1. stream \in Seq(AP!Chunk)
      BY <1>0 DEF FlowTypes
    <2>2. PICK i \in 1..Len(stream) : received' = i - 1
      BY DEF Restart, ColdStarts
    <2> QED BY <2>1, <2>2
  <1>2. PICK a : a = asm'
    OBVIOUS
  <1>3. a = AP!new_assembler
    BY <1>0, <1>2, SameMethods
  <1>4. AP!Sound(a) /\ AP!Bounds(a)
    BY <1>3, StagesAssumption, AP!NewAssembler
  <1>5. a.state = "Idle"
    BY <1>3 DEF AP!new_assembler
  <1>6. AP!IndInv'
    <2>1. AP!TaskTypeOK'
      BY <1>0, <1>1 DEF AP!TaskTypeOK, AP!ChunkKind, A!NoLate
    <2>2. AP!HandlerInv' /\ AP!WatchdogArmed'
      BY <1>0, <1>2, <1>5 DEF AP!HandlerInv, AP!WatchdogArmed
    <2>3. AP!Sound(asm') /\ AP!Bounds(asm')
      BY <1>2, <1>4
    <2> QED BY <2>1, <2>2, <2>3 DEF AP!IndInv
  <1>7. FlowTypes' /\ DisplayTypes'
    <2>1. stream' \in Seq(AP!Chunk) /\ DisplayTypes'
      BY <1>0 DEF FlowInv, FlowTypes, DisplayTypes, RP!DerivedIsDated
    <2>2. AP!EventsOK(event_rx')
      BY <1>0 DEF AP!EventsOK
    <2>3. retained' \in Seq(SweepGrid) /\ Len(retained') <= RetainedElevationCap
      BY <1>0, FlowAssumption
    <2> QED BY <1>0, <1>6, <2>1, <2>2, <2>3 DEF FlowTypes
  <1>8. Tilts' = {} /\ EventLine' = <<>> /\ UpdateLine' = <<>>
    BY <1>0 DEF Tilts, EventLine, UpdateLine
  <1>9. AP!Follows({}, <<>>, a)
    BY <1>3, FreshLine
  <1>10. AP!Follows(Tilts', EventLine', asm')
    BY <1>2, <1>8, <1>9
  <1>11. UpdatesDated' /\ SweepFirst'
    BY <1>0, <1>8 DEF FlowInv, UpdatesDated, SweepFirst
  <1> QED BY <1>7, <1>10, <1>11 DEF FlowInv

(* Nothing is under way at the start.                                      *)
LEMMA InitEstablishes == Init => FlowInv
  <1> SUFFICES ASSUME Init PROVE FlowInv
    OBVIOUS
  <1>1. AP!IndInv
    BY SameTask, StagesAssumption, AP!InitEstablishes DEF Init
  <1>2. /\ cpc = "recv" /\ retained = <<>> /\ pending = <<>> /\ event_rx = <<>> /\ update_rx = <<>>
        /\ stream \in Seq(AP!Chunk) /\ asm = AP!new_assembler
    BY FlowAssumption, SameTask, SameMethods DEF Init, C!Init, A!Init
  <1>3. RP!Init
    BY DEF Init, R!Init, RP!Init, R!new_radar, RP!new_radar, R!NoSweeps, RP!NoSweeps
  <1>4. DisplayTypes
    BY <1>3, StagesAssumption, RP!InitEstablishes DEF RP!RadarInv, RP!TypeOK, DisplayTypes
  <1>5. radar.sweeps = [e \in Elevations |-> None] /\ radar.derived = {}
    BY <1>3 DEF RP!Init, RP!new_radar, RP!NoSweeps
  <1>6. FlowTypes
    <2>1. AP!EventsOK(event_rx)
      BY <1>2 DEF AP!EventsOK
    <2>2. retained \in Seq(SweepGrid) /\ Len(retained) <= RetainedElevationCap
      BY <1>2, FlowAssumption
    <2> QED BY <1>1, <1>2, <2>1, <2>2 DEF FlowTypes
  <1>7. Tilts = {} /\ EventLine = <<>> /\ UpdateLine = <<>>
    BY <1>2 DEF Tilts, EventLine, UpdateLine
  <1>8. AP!Follows(Tilts, EventLine, asm)
    BY <1>2, <1>7, FreshLine
  <1>9. UpdatesDated /\ SweepFirst
    BY <1>2, <1>5, <1>7 DEF UpdatesDated, SweepFirst
  <1> QED BY <1>4, <1>6, <1>8, <1>9 DEF FlowInv

(* Every step preserves the invariant.                                     *)
LEMMA NextPreserves == FlowInv /\ [Next]_vars => FlowInv'
  <1> SUFFICES ASSUME FlowInv, [Next]_vars PROVE FlowInv'
    OBVIOUS
  <1>1. CASE UNCHANGED vars
    <2>1. /\ AP!IndInv' /\ AP!Follows(Tilts, EventLine, asm')
          /\ UNCHANGED <<stream, cvars, rvars, event_rx, update_rx>>
      BY <1>1 DEF vars, avars, cvars, rvars, FlowInv, FlowTypes, AP!IndInv, AP!TaskTypeOK,
                  AP!HandlerInv, AP!WatchdogArmed
    <2> QED BY <2>1, AssemblyStep
  <1> QED BY <1>1, ReceiveStep, AssembleStep, SendEventStep, TakeEventStep, GridStep, DeriveStep,
             SendUpdateStep, ApplyStep, RestartStep DEF Next, AtRest

(* In every behaviour, over any stream of chunks: the derived products on  *)
(* their way to the display are made of tilts of the volume they are       *)
(* stamped with, the closure in hand lists every elevation they use, and   *)
(* handle_event never keeps more tilts than its cap.                       *)
THEOREM DerivedProductsAreOfOneVolume == Spec => []DerivedFromClosingVolume
  <1>1. FlowInv => DerivedFromClosingVolume
    <2> SUFFICES ASSUME FlowInv PROVE DerivedFromClosingVolume
      OBVIOUS
    <2>1. /\ Len(retained) <= RetainedElevationCap /\ update_rx \in Seq(RP!StateUpdate)
          /\ pending \in Seq(RP!StateUpdate)
      BY DEF FlowInv, FlowTypes
    <2>2. \A i \in DOMAIN update_rx : Dated(update_rx[i])
      <3>1. \A i \in DOMAIN update_rx : i \in DOMAIN UpdateLine /\ UpdateLine[i] = update_rx[i]
        BY <2>1, ConcatIndex DEF UpdateLine
      <3> QED BY <3>1 DEF FlowInv, UpdatesDated
    <2>3. ASSUME cpc = "blocking", event.type = "VolumeClosed", NEW i \in DOMAIN retained
          PROVE  retained[i].elevation_number \in AP!Elevs(event.sweeps)
      <3>1. PICK t : t = retained[i]
        OBVIOUS
      <3>2. t \in Tilts
        BY <3>1 DEF Tilts
      <3>3. t.elevation_number \in AP!Elevs(event.sweeps)
        BY <2>3, <3>2, ClosureCoversTilts
      <3> QED BY <3>1, <3>3
    <2> QED BY <2>1, <2>2, <2>3 DEF DerivedFromClosingVolume, Dated, AP!Elevs
  <1> QED BY <1>1, InitEstablishes, NextPreserves, PTL DEF Spec

-----------------------------------------------------------------------------
(* What a radar state puts on the display: the refinement mapping.         *)
ShownOf(r) == [e \in Elevations |-> IF r.sweeps[e] = None THEN None ELSE r.sweeps[e].volume]

TiltsOf(grids) ==
    UNION {{[elevation_number |-> t.elevation_number, volume |-> t.volume] : t \in g.tilts}
             : g \in grids}

DerivedOf(r) == IF r.derived = {} THEN None
                ELSE [volume |-> r.derived_volume, tilts |-> TiltsOf(r.derived)]

(* A sweep refreshes its elevation, or is stale and ignored, or begins a   *)
(* new pattern on a blank display.                                         *)
LEMMA SweepShows ==
    ASSUME NEW r \in RP!RadarStates, NEW u \in RP!StateUpdate, IsSweep(u), NEW s,
           s = RP!apply(r, u),
           r.current_vcp = None =>
               r.sweeps = [e \in Elevations |-> None] /\ r.derived = {}
    PROVE  /\ u.elevation_number \in Elevations /\ u.vcp_number \in VcpNumbers
           /\ s.current_vcp = u.vcp_number
           /\ r.current_vcp = u.vcp_number =>
                 /\ r.current_vcp # None
                 /\ DerivedOf(s) = DerivedOf(r)
                 /\ \/ ShownOf(s) = ShownOf(r)
                    \/ /\ ShownOf(r)[u.elevation_number] = None
                             \/ ~(u.volume < ShownOf(r)[u.elevation_number])
                       /\ ShownOf(s) = [ShownOf(r) EXCEPT ![u.elevation_number] = u.volume]
           /\ r.current_vcp # u.vcp_number =>
                 /\ DerivedOf(s) = None
                 /\ ShownOf(s) = [[e \in Elevations |-> None] EXCEPT ![u.elevation_number] = u.volume]
  <1> DEFINE shown == [volume |-> u.volume, vcp_number |-> u.vcp_number, grids |-> u.grids]
             e == u.elevation_number
             Blank == [x \in Elevations |-> None]
  <1>0. RP!StateAssumption
    BY StagesAssumption
  <1>1. /\ e \in Elevations /\ u.volume \in Times \cup {0} /\ u.vcp_number \in VcpNumbers
        /\ u.grids \in SUBSET SweepGrid /\ u.type = "SweepGridded"
    BY DEF IsSweep, RP!StateUpdate
  <1>2. shown # None /\ u.vcp_number # None /\ shown.volume = u.volume
    BY <1>0, <1>1 DEF RP!DisplaySweep, RP!StateAssumption
  <1>3. s = RP!apply_sweep(r, u)
    BY <1>1 DEF RP!apply
  <1>4. s.current_vcp = u.vcp_number
    BY <1>3 DEF RP!apply_sweep, RP!clear_pattern, RP!RadarStates
  <1>5. \A f \in [Elevations -> RP!DisplaySweep \cup {None}] :
           s.sweeps = [f EXCEPT ![e] = shown] =>
               ShownOf(s) = [[x \in Elevations |-> IF f[x] = None THEN None ELSE f[x].volume]
                                EXCEPT ![e] = u.volume]
    BY <1>1, <1>2 DEF ShownOf
  <1> HIDE DEF shown
  <1>6. ASSUME r.current_vcp = u.vcp_number
        PROVE  /\ r.current_vcp # None /\ DerivedOf(s) = DerivedOf(r)
               /\ \/ ShownOf(s) = ShownOf(r)
                  \/ /\ ShownOf(r)[e] = None \/ ~(u.volume < ShownOf(r)[e])
                     /\ ShownOf(s) = [ShownOf(r) EXCEPT ![e] = u.volume]
    <2>1. /\ s.derived = r.derived /\ s.derived_volume = r.derived_volume
          /\ \/ s.sweeps = r.sweeps
             \/ /\ s.sweeps = [r.sweeps EXCEPT ![e] = shown]
                /\ ~(r.sweeps[e] # None /\ u.volume < r.sweeps[e].volume)
      BY <1>3, <1>6 DEF RP!apply_sweep, RP!RadarStates, shown
    <2>2. DerivedOf(s) = DerivedOf(r)
      BY <2>1 DEF DerivedOf
    <2>3. CASE s.sweeps = r.sweeps
      BY <1>2, <1>6, <2>2, <2>3 DEF ShownOf
    <2>4. CASE /\ s.sweeps = [r.sweeps EXCEPT ![e] = shown]
               /\ ~(r.sweeps[e] # None /\ u.volume < r.sweeps[e].volume)
      <3>1. r.sweeps \in [Elevations -> RP!DisplaySweep \cup {None}]
        BY DEF RP!RadarStates
      <3>2. ShownOf(s) = [ShownOf(r) EXCEPT ![e] = u.volume]
        BY <1>5, <2>4, <3>1 DEF ShownOf
      <3>3. ShownOf(r)[e] = None \/ ~(u.volume < ShownOf(r)[e])
        BY <1>1, <2>4 DEF ShownOf
      <3> QED BY <1>2, <1>6, <2>2, <3>2, <3>3
    <2> QED BY <2>1, <2>3, <2>4
  <1>7. ASSUME r.current_vcp # u.vcp_number
        PROVE  DerivedOf(s) = None /\ ShownOf(s) = [Blank EXCEPT ![e] = u.volume]
    <2>1. Blank \in [Elevations -> RP!DisplaySweep \cup {None}] /\ Blank[e] = None
      BY <1>1
    <2>2. s.derived = {} /\ s.sweeps = [Blank EXCEPT ![e] = shown]
      <3>1. CASE r.current_vcp = None
        <4>1. r.sweeps = Blank /\ r.derived = {}
          BY <3>1
        <4> HIDE DEF Blank
        <4> QED BY <1>3, <2>1, <3>1, <4>1 DEF RP!apply_sweep, RP!RadarStates, shown
      <3>2. CASE r.current_vcp # None
        <4>1. RP!NoSweeps = Blank
          BY DEF RP!NoSweeps
        <4> HIDE DEF Blank
        <4> QED BY <1>3, <1>7, <2>1, <3>2, <4>1
                DEF RP!apply_sweep, RP!clear_pattern, RP!RadarStates, shown
      <3> QED BY <3>1, <3>2
    <2>3. [x \in Elevations |-> IF Blank[x] = None THEN None ELSE Blank[x].volume] = Blank
      OBVIOUS
    <2> HIDE DEF Blank
    <2> QED BY <1>5, <2>1, <2>2, <2>3 DEF DerivedOf
  <1> QED BY <1>1, <1>4, <1>6, <1>7

(* The derived products of volume v, from tilts of v alone, take the place *)
(* of those of r, which are not newer.                                     *)
DerivedReplaced(r, s, v) ==
    /\ DerivedOf(r) # None => ~(v < DerivedOf(r).volume)
    /\ \E es \in SUBSET Elevations :
          /\ es # {}
          /\ DerivedOf(s) = [volume |-> v, tilts |-> [elevation_number : es, volume : {v}]]

(* Derived products of one volume replace those shown unless they are      *)
(* older.                                                                  *)
LEMMA DerivedShows ==
    ASSUME NEW r \in RP!RadarStates, NEW u \in RP!StateUpdate, u.type = "DerivedComputed",
           Dated(u), r.derived_volume = None <=> r.derived = {}, NEW s, s = RP!apply(r, u)
    PROVE  /\ ShownOf(s) = ShownOf(r) /\ s.current_vcp = r.current_vcp
           /\ DerivedOf(s) = DerivedOf(r) \/ DerivedReplaced(r, s, u.volume)
  <1>1. s = RP!apply_derived(r, u)
    BY DEF RP!apply
  <1>2. s.sweeps = r.sweeps /\ s.current_vcp = r.current_vcp
    BY <1>1 DEF RP!apply_derived, RP!RadarStates
  <1>3. ShownOf(s) = ShownOf(r)
    BY <1>2 DEF ShownOf
  <1>4. CASE r.derived_volume # None /\ u.volume < r.derived_volume
    BY <1>1, <1>2, <1>4 DEF RP!apply_derived
  <1>5. CASE ~(r.derived_volume # None /\ u.volume < r.derived_volume)
    <2>1. s.derived = u.grids /\ s.derived_volume = u.volume
      BY <1>1, <1>5 DEF RP!apply_derived, RP!RadarStates
    <2>2. u.grids \in SUBSET DerivedGrid /\ u.grids # {}
      BY DEF RP!StateUpdate
    <2> DEFINE es == UNION {{t.elevation_number : t \in g.tilts} : g \in u.grids}
    <2>3. \A g \in u.grids : /\ g.tilts \in SUBSET SweepGrid /\ g.tilts # {}
                             /\ \A t \in g.tilts : t.volume = u.volume
      BY <2>2 DEF DerivedGrid, Dated
    <2>4. es \in SUBSET Elevations /\ es # {}
      BY <2>2, <2>3 DEF SweepGrid
    <2>5. TiltsOf(u.grids) = [elevation_number : es, volume : {u.volume}]
      <3>1. ASSUME NEW x \in TiltsOf(u.grids)
            PROVE  x \in [elevation_number : es, volume : {u.volume}]
        <4>0. PICK g \in u.grids : \E t \in g.tilts :
                 x = [elevation_number |-> t.elevation_number, volume |-> t.volume]
          BY <3>1 DEF TiltsOf
        <4>1. PICK t \in g.tilts : x = [elevation_number |-> t.elevation_number, volume |-> t.volume]
          BY <4>0
        <4>2. t.elevation_number \in es
          OBVIOUS
        <4> HIDE DEF es
        <4> QED BY <2>3, <4>1, <4>2
      <3>2. ASSUME NEW x \in [elevation_number : es, volume : {u.volume}]
            PROVE  x \in TiltsOf(u.grids)
        <4>0. PICK g \in u.grids : \E t \in g.tilts : x.elevation_number = t.elevation_number
          BY <3>2
        <4>1. PICK t \in g.tilts : x.elevation_number = t.elevation_number
          BY <4>0
        <4>2. x = [elevation_number |-> t.elevation_number, volume |-> t.volume]
          <5>1. t.volume = u.volume
            BY <2>3
          <5> HIDE DEF es
          <5> QED BY <3>2, <4>1, <5>1
        <4> QED BY <4>2 DEF TiltsOf
      <3> QED BY <3>1, <3>2
    <2>6. DerivedOf(s) = [volume |-> u.volume, tilts |-> [elevation_number : es, volume : {u.volume}]]
      BY <2>1, <2>2, <2>5 DEF DerivedOf
    <2>7. DerivedOf(r) # None => ~(u.volume < DerivedOf(r).volume)
      BY <1>5 DEF DerivedOf
    <2> HIDE DEF es
    <2> QED BY <1>2, <1>3, <2>4, <2>6, <2>7 DEF DerivedReplaced
  <1> QED BY <1>4, <1>5

(* The applier takes the display from one state of MergedDisplay to the    *)
(* next, or leaves it.                                                     *)
LEMMA ApplyRefines ==
    ASSUME FlowInv, Apply
    PROVE  [Display!DisplayNext]_(Display!dvars)
  <1>0. /\ FlowTypes /\ update_rx # <<>> /\ radar \in RP!RadarStates
        /\ radar.derived_volume = None <=> radar.derived = {}
        /\ radar.current_vcp = None =>
              radar.sweeps = [e \in Elevations |-> None] /\ radar.derived = {}
    BY DEF FlowInv, Apply, DisplayTypes, RP!DerivedIsDated, SweepFirst
  <1>1. PICK u : u = Head(update_rx)
    OBVIOUS
  <1>2. radar' = RP!apply(radar, u)
    BY <1>1, SameApply DEF Apply, R!ApplyEvent
  <1>3. u \in RP!StateUpdate /\ Dated(u)
    <2>1. /\ UpdateLine \in Seq(RP!StateUpdate) /\ UpdateLine # <<>> /\ UpdateLine[1] = u
          /\ u \in RP!StateUpdate
      BY <1>0, <1>1, LineHead
    <2>2. 1 \in DOMAIN UpdateLine
      BY <2>1
    <2> QED BY <2>1, <2>2 DEF FlowInv, UpdatesDated
  <1>4. PICK r : r = radar
    OBVIOUS
  <1>5. PICK s : s = radar'
    OBVIOUS
  <1>6. /\ r \in RP!RadarStates /\ s = RP!apply(r, u)
        /\ r.derived_volume = None <=> r.derived = {}
        /\ r.current_vcp = None => r.sweeps = [e \in Elevations |-> None] /\ r.derived = {}
    BY <1>0, <1>2, <1>4, <1>5
  <1>7. (ShownOf(s) = ShownOf(r) /\ s.current_vcp = r.current_vcp /\ DerivedOf(s) = DerivedOf(r))
          => UNCHANGED Display!dvars
    BY <1>4, <1>5 DEF Display!dvars, ShownOf, DerivedOf, TiltsOf
  <1>8. CASE u.type = "SweepGridded"
    <2>1. /\ u.elevation_number \in Elevations /\ u.volume \in Times /\ u.vcp_number \in VcpNumbers
          /\ s.current_vcp = u.vcp_number
      BY <1>3, <1>6, <1>8, SweepShows DEF IsSweep, Dated
    <2>2. CASE r.current_vcp = u.vcp_number
      <3>1. /\ r.current_vcp # None /\ DerivedOf(s) = DerivedOf(r)
            /\ \/ ShownOf(s) = ShownOf(r)
               \/ /\ ShownOf(r)[u.elevation_number] = None
                        \/ ~(u.volume < ShownOf(r)[u.elevation_number])
                  /\ ShownOf(s) = [ShownOf(r) EXCEPT ![u.elevation_number] = u.volume]
        BY <1>3, <1>6, <1>8, <2>2, SweepShows DEF IsSweep
      <3>2. CASE ShownOf(s) = ShownOf(r)
        BY <1>7, <2>1, <2>2, <3>1, <3>2
      <3>3. CASE ShownOf(s) # ShownOf(r)
        <4>1. Display!ShowSweep(u.elevation_number, u.volume)
          BY <1>4, <1>5, <2>1, <2>2, <3>1, <3>3 DEF Display!ShowSweep, ShownOf, DerivedOf, TiltsOf
        <4> QED BY <2>1, <4>1 DEF Display!DisplayNext
      <3> QED BY <3>2, <3>3
    <2>3. CASE r.current_vcp # u.vcp_number
      <3>1. /\ DerivedOf(s) = None
            /\ ShownOf(s) = [[e \in Elevations |-> None] EXCEPT ![u.elevation_number] = u.volume]
        BY <1>3, <1>6, <1>8, <2>3, SweepShows DEF IsSweep
      <3>2. Display!SwitchPattern(u.elevation_number, u.volume, u.vcp_number)
        BY <1>4, <1>5, <2>1, <2>3, <3>1
           DEF Display!SwitchPattern, Display!Blank, ShownOf, DerivedOf, TiltsOf
      <3> QED BY <2>1, <3>2 DEF Display!DisplayNext
    <2> QED BY <2>2, <2>3
  <1>9. CASE u.type = "DerivedComputed"
    <2>1. /\ ShownOf(s) = ShownOf(r) /\ s.current_vcp = r.current_vcp
          /\ DerivedOf(s) = DerivedOf(r) \/ DerivedReplaced(r, s, u.volume)
      BY <1>3, <1>6, <1>9, DerivedShows
    <2>2. CASE DerivedOf(s) = DerivedOf(r)
      BY <1>7, <2>1, <2>2
    <2>3. CASE DerivedReplaced(r, s, u.volume)
      <3>0. DerivedOf(r) # None => ~(u.volume < DerivedOf(r).volume)
        BY <2>3 DEF DerivedReplaced
      <3>1. PICK es \in SUBSET Elevations :
               /\ es # {}
               /\ DerivedOf(s) = [volume |-> u.volume,
                                  tilts |-> [elevation_number : es, volume : {u.volume}]]
        BY <2>3 DEF DerivedReplaced
      <3>2. Display!ShowDerived(u.volume, es)
        BY <1>4, <1>5, <2>1, <3>0, <3>1 DEF Display!ShowDerived, ShownOf, DerivedOf, TiltsOf
      <3>3. u.volume \in Times
        BY <1>3, <1>9 DEF Dated
      <3> QED BY <3>2, <3>3 DEF Display!DisplayNext
    <2> QED BY <2>1, <2>2, <2>3
  <1>10. CASE u.type \in {"VolumeClosed", "Info"}
    <2>1. s.sweeps = r.sweeps /\ s.current_vcp = r.current_vcp /\ s.derived = r.derived
      BY <1>3, <1>6, <1>10, ApplyPattern DEF IsSweep
    <2>2. s.derived_volume = r.derived_volume
      BY <1>6, <1>10 DEF RP!apply, RP!apply_volume_closed, RP!RadarStates
    <2> QED BY <1>7, <2>1, <2>2 DEF ShownOf, DerivedOf
  <1> QED BY <1>3, <1>8, <1>9, <1>10 DEF RP!StateUpdate

(* In every behaviour, over any stream of chunks, wherever stages panic    *)
(* and restart, the stages together implement the merged display.          *)
THEOREM FlowRefinesMergedDisplay == Spec => ImplementsMergedDisplay
  <1>1. Init => Display!DisplayInit
    <2> SUFFICES ASSUME Init PROVE Display!DisplayInit
      OBVIOUS
    <2>1. radar.sweeps = [e \in Elevations |-> None] /\ radar.derived = {} /\ radar.current_vcp = None
      BY DEF Init, R!Init, R!new_radar, R!NoSweeps
    <2> QED BY <2>1 DEF Display!DisplayInit, Display!Blank
  <1>2. FlowInv /\ [Next]_vars => [Display!DisplayNext]_(Display!dvars)
    <2> SUFFICES ASSUME FlowInv, [Next]_vars PROVE [Display!DisplayNext]_(Display!dvars)
      OBVIOUS
    <2>1. CASE Apply
      BY <2>1, ApplyRefines
    <2>2. CASE radar' = radar
      BY <2>2 DEF Display!dvars
    <2>3. Apply \/ radar' = radar
      BY DEF Next, Receive, Assemble, SendEvent, TakeEvent, Grid, R!Report, Derive, SendUpdate,
             Restart, AtRest, vars, rvars
    <2> QED BY <2>1, <2>2, <2>3
  <1> QED BY <1>1, <1>2, InitEstablishes, NextPreserves, PTL
          DEF Spec, ImplementsMergedDisplay, Display!DisplaySpec
=============================================================================
