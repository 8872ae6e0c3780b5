------------------------------ MODULE VolumeFlow ------------------------------
(***************************************************************************)
(* The stages from a chunk to the display, composed: VolumeAssembler,      *)
(* Compute and RadarState, joined by the two bounded channels of           *)
(* run_ingest_pipeline, over a stream of chunks in bucket order some of    *)
(* which never decode.  A panic in any stage throws all task state away    *)
(* and starts the stages afresh on the newest volume, while AppState lives *)
(* on.  Shutdown is in Pipeline, the poller in S3Poller.                   *)
(***************************************************************************)
EXTENDS Naturals, Sequences, FiniteSets

CONSTANTS
    Elevations, Vcps, Times, None, WatchdogTimeout,
    Streams,               \* sequences of chunks the bucket may hold
    Origin(_),             \* the radar volume a time stamp belongs to
    BaseProducts, RetainedElevationCap, EventLogCapacity,
    EventChannelCapacity,    \* EVENT_CHANNEL_CAPACITY
    ComputeChannelCapacity,  \* COMPUTE_CHANNEL_CAPACITY
    MaxPanics                \* bound: panics in one behaviour

VARIABLES
    stream,       \* the chunks of the bucket, fixed
    asm, last_activity, pc, kind, radials, late_discards, received,
    cpc, event, retained, pending,
    radar, events, reported,
    uploaded,     \* no renderer is composed here: stays None
    event_rx,     \* assembly -> compute
    update_rx,    \* compute -> applier
    panics

avars == <<asm, last_activity, pc, kind, radials, late_discards, received>>
cvars == <<cpc, event, retained, pending>>
rvars == <<radar, events, reported, uploaded>>
vars  == <<stream, avars, cvars, rvars, event_rx, update_rx, panics>>

VcpNumbers == Vcps \cup {0}

SweepGrid == [product : BaseProducts, elevation_number : Elevations, volume : Times]

DerivedGrid == [product : {"EchoTops", "Vil"}, tilts : SUBSET SweepGrid]

A == INSTANCE VolumeAssembler WITH Inputs <- {}, MaxChunks <- 0
C == INSTANCE Compute
R == INSTANCE RadarState WITH
        VolumeIds <- Times \cup {0}, SweepGrids <- SUBSET SweepGrid,
        DerivedGrids <- (SUBSET DerivedGrid) \ {{}}, Sites <- {"site"},
        MaxRevision <- 0, MaxReports <- 0

ASSUME FlowAssumption ==
    /\ Vcps \subseteq Nat \ {0} /\ Times \subseteq Nat \ {0}
    /\ "Reflectivity" \in BaseProducts
    /\ Streams \subseteq Seq(A!Chunk)
    /\ None \notin Nat /\ None \notin A!SweepBuilder
    /\ None \notin R!DisplaySweep /\ None \notin R!VolumeSummary
    /\ RetainedElevationCap \in Nat \ {0} /\ EventLogCapacity \in Nat \ {0}
    /\ EventChannelCapacity \in Nat \ {0} /\ ComputeChannelCapacity \in Nat \ {0}
    /\ WatchdogTimeout \in Nat \ {0} /\ MaxPanics \in Nat

Init ==
    /\ stream \in Streams
    /\ A!Init /\ C!Init /\ R!Init
    /\ event_rx = <<>> /\ update_rx = <<>>
    /\ panics = 0

(* assembly::run takes the next chunk.                                     *)
Receive ==
    /\ received < Len(stream)
    /\ LET c == stream[received + 1]
       IN  A!DropUndecodable(c) \/ A!OnStartChunk(c) \/ A!OnChunk(c)
    /\ UNCHANGED <<stream, cvars, rvars, event_rx, update_rx, panics>>

Assemble ==
    /\ A!Handle \/ A!OnTick \/ A!Elapse
    /\ UNCHANGED <<stream, cvars, rvars, event_rx, update_rx, panics>>

SendEvent ==
    /\ A!Send
    /\ Len(event_rx) < EventChannelCapacity
    /\ event_rx' = Append(event_rx, Head(asm.events))
    /\ UNCHANGED <<stream, cvars, rvars, update_rx, panics>>

TakeEvent ==
    /\ event_rx # <<>>
    /\ C!Take(Head(event_rx))
    /\ event_rx' = Tail(event_rx)
    /\ UNCHANGED <<stream, avars, rvars, update_rx, panics>>

Grid ==
    /\ \E products \in SUBSET BaseProducts :
         /\ C!Gridded(products)
         /\ IF C!BoundsRetained(products)
            THEN R!Report("RetainedGridSetBounded")
            ELSE UNCHANGED rvars
    /\ UNCHANGED <<stream, avars, event_rx, update_rx, panics>>

Derive ==
    /\ C!Derived
    /\ UNCHANGED <<stream, avars, rvars, event_rx, update_rx, panics>>

SendUpdate ==
    /\ C!Send
    /\ Len(update_rx) < ComputeChannelCapacity
    /\ update_rx' = Append(update_rx, Head(pending))
    /\ UNCHANGED <<stream, avars, rvars, event_rx, panics>>

(* apply_loop.                                                             *)
Apply ==
    /\ update_rx # <<>>
    /\ R!ApplyEvent(Head(update_rx))
    /\ update_rx' = Tail(update_rx)
    /\ UNCHANGED <<stream, avars, cvars, event_rx, panics>>

(* Where a cold start may begin: the first chunk of the volume in progress *)
(* or of a later one.                                                      *)
ColdStarts ==
    {i \in 1..Len(stream) : stream[i].kind = "Start" /\
        \A j \in 1..received : j > i => stream[j].kind # "Start"}

Restart_KeepsRetained ==
    /\ panics < MaxPanics
    /\ panics' = panics + 1
    /\ \E i \in ColdStarts : received' = i - 1
    /\ asm' = A!new_assembler /\ last_activity' = None /\ pc' = "select"
    /\ kind' = "Start" /\ radials' = <<>> /\ late_discards' = A!NoLate
    /\ cpc' = "recv" /\ event' = None /\ pending' = <<>>
    /\ event_rx' = <<>> /\ update_rx' = <<>>
    /\ UNCHANGED <<stream, rvars, retained>>

(* A stage panics and supervise starts a fresh quartet.                    *)
Restart ==
    /\ panics < MaxPanics
    /\ panics' = panics + 1
    /\ \E i \in ColdStarts : received' = i - 1
    /\ asm' = A!new_assembler /\ last_activity' = None /\ pc' = "select"
    /\ kind' = "Start" /\ radials' = <<>> /\ late_discards' = A!NoLate
    /\ cpc' = "recv" /\ event' = None /\ retained' = <<>> /\ pending' = <<>>
    /\ event_rx' = <<>> /\ update_rx' = <<>>
    /\ UNCHANGED <<stream, rvars>>

(* Nothing is under way and no chunk is left: only then may every stage    *)
(* wait.                                                                   *)
Quiescent ==
    /\ received = Len(stream) /\ pc = "select" /\ asm.state = "Idle"
    /\ cpc = "recv" /\ event_rx = <<>> /\ update_rx = <<>>

AtRest == Quiescent /\ UNCHANGED vars

Next == Receive \/ Assemble \/ SendEvent \/ TakeEvent \/ Grid \/ Derive
        \/ SendUpdate \/ Apply \/ Restart \/ AtRest

Spec == Init /\ [][Next]_vars

(* One task polls every stage: each keeps going while it can.              *)
FairSpec ==
    /\ Spec
    /\ WF_vars(Receive) /\ WF_vars(Assemble) /\ WF_vars(SendEvent) /\ WF_vars(TakeEvent)
    /\ WF_vars(Grid) /\ WF_vars(Derive) /\ WF_vars(SendUpdate) /\ WF_vars(Apply)

-----------------------------------------------------------------------------
(* Properties *)

(* Whatever volumes were cut short before, the derived products of a       *)
(* volume come from tilts of that volume alone, and of elevations its scan *)
(* closed: retained is emptied at every closure before a sweep of the next *)
(* volume is offered, and a volume that never closes does not grow it past *)
(* its cap (RetainedTilts, handle_event).                                  *)
DerivedFromClosingVolume ==
    /\ Len(retained) <= RetainedElevationCap
    /\ \A i \in DOMAIN update_rx :
          update_rx[i].type = "DerivedComputed" =>
              \A g \in update_rx[i].grids : \A t \in g.tilts : t.volume = update_rx[i].volume
    /\ (cpc = "blocking" /\ event.type = "VolumeClosed") =>
          {retained[i].elevation_number : i \in DOMAIN retained}
              \subseteq {event.sweeps[i].elevation_number : i \in DOMAIN event.sweeps}

(* Echo Tops and VIL are never shown beside sweeps of another pattern,     *)
(* although apply ignores the vcp_number of DerivedComputed: the order of  *)
(* the channel is what guarantees it.                                      *)
DerivedPrecedesNextPattern ==
    [][ radar'.derived_volume # radar.derived_volume /\ radar'.derived_volume # None
          => Head(update_rx).vcp_number = radar.current_vcp ]_vars

(* The flow implements the merged display.                                 *)
Display == INSTANCE MergedDisplay WITH
    VolumeIds <- Times, Patterns <- VcpNumbers,
    shown   <- [e \in Elevations |->
                  IF radar.sweeps[e] = None THEN None ELSE radar.sweeps[e].volume],
    pattern <- radar.current_vcp,
    derived <- IF radar.derived = {} THEN None
               ELSE [volume |-> radar.derived_volume,
                     tilts  |-> UNION {{[elevation_number |-> t.elevation_number, volume |-> t.volume]
                                          : t \in g.tilts} : g \in radar.derived}]

ImplementsMergedDisplay == Display!DisplaySpec

(* Time stamps of elevation e in the chunks of the stream that decode.     *)
Scanned(e) ==
    UNION {{stream[i].radials[j].time : j \in {k \in DOMAIN stream[i].radials :
                                                  stream[i].radials[k].elevation_number = e}}
             : i \in {k \in DOMAIN stream : stream[k].decodes}}

(* Once everything has been drained the display is up to date: every       *)
(* elevation that the newest volume scanned shows a sweep of that volume,  *)
(* whatever chunk was lost, wherever the watchdog fired and a stage        *)
(* panicked, and even when no product of the sweep could be gridded.       *)
NewestVolumeIsShown ==
    Quiescent =>
        LET all    == UNION {Scanned(e) : e \in Elevations}
            newest == CHOOSE v \in {Origin(t) : t \in all} : \A t \in all : Origin(t) <= v
        IN  \A e \in Elevations :
              (\E t \in Scanned(e) : Origin(t) = newest) =>
                  /\ radar.sweeps[e] # None
                  /\ Origin(radar.sweeps[e].volume) = newest

(* What ADR-0012 says of a sweep handed to the compute layer: it is never  *)
(* modified, so a sweep shown is replaced only by one of a later volume of *)
(* the radar.                                                              *)
RenderedSweepIsImmutable ==
    [][ \A e \in Elevations :
          (radar.sweeps[e] # None /\ radar'.sweeps[e] # None /\ radar'.sweeps[e] # radar.sweeps[e])
            => Origin(radar'.sweeps[e].volume) > Origin(radar.sweeps[e].volume) ]_vars
=============================================================================
