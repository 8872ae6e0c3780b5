-------------------------------- MODULE Pipeline --------------------------------
(***************************************************************************)
(* The ingest quartet under supervision: poller, assembly, compute and     *)
(* applier as four futures of one task (run_ingest_pipeline's join!),      *)
(* joined by three bounded channels, with supervise restarting the task    *)
(* after a panic and Pipeline::shutdown stopping it.                       *)
(*                                                                         *)
(* The stages are numbered 1 (poller) to 4 (applier); channel i leads from *)
(* stage i to stage i + 1.  What the messages say is in the other modules; *)
(* here a channel is the number of messages in it.  A stage is             *)
(*                                                                         *)
(*   select   in its select!: next message or tick, or shutdown            *)
(*   work     handling one: poll_once, a decode, a blocking grid job       *)
(*   send     in tx.send with owed messages left; NOT raced with shutdown  *)
(*   done     returned: its ends of the channels are dropped               *)
(*   none     there is no task                                             *)
(***************************************************************************)
EXTENDS Naturals

CONSTANTS
    Capacity,   \* CHUNK_, EVENT_ and COMPUTE_CHANNEL_CAPACITY
    MaxOwed,    \* bound: messages one handler of a stage makes
    MaxPanics   \* bound: panics in one behaviour

Stages == 1..4
Channels == 1..3

ASSUME PipelineAssumption ==
    /\ Capacity \in [Channels -> Nat \ {0}]
    /\ MaxOwed \in [Channels -> Nat]
    /\ MaxPanics \in Nat

VARIABLES
    sup,        \* supervise: running, backoff or stopped
    shutdown,   \* the watch channel of Pipeline
    stage,
    owed,       \* messages the running handler of a stage has still to send
    channel,    \* messages in a channel
    panics

vars == <<sup, shutdown, stage, owed, channel, panics>>

-----------------------------------------------------------------------------

(* Mutants, used by no specification, end in a name of their fault.       *)

FreshStages == [i \in Stages |-> "select"]
NoStages == [i \in Stages |-> "none"]
NothingOwed == [c \in Channels |-> 0]

Init ==
    /\ sup = "running" /\ shutdown = FALSE
    /\ stage = FreshStages /\ owed = NothingOwed /\ channel = NothingOwed
    /\ panics = 0

(* interval.tick() of the poller and of assembly's watchdog.               *)
Tick(i) ==
    /\ i \in {1, 2} /\ stage[i] = "select"
    /\ stage' = [stage EXCEPT ![i] = "work"]
    /\ UNCHANGED <<sup, shutdown, owed, channel, panics>>

(* rx.recv() gives a message.                                              *)
Recv(i) ==
    /\ i > 1 /\ stage[i] = "select" /\ channel[i - 1] > 0
    /\ channel' = [channel EXCEPT ![i - 1] = @ - 1]
    /\ stage' = [stage EXCEPT ![i] = "work"]
    /\ UNCHANGED <<sup, shutdown, owed, panics>>

(* The handler is through; the applier's has nothing to send.              *)
FinishWork(i, n) ==
    /\ stage[i] = "work"
    /\ stage' = [stage EXCEPT ![i] = IF n = 0 THEN "select" ELSE "send"]
    /\ owed' = IF i = 4 THEN owed ELSE [owed EXCEPT ![i] = n]
    /\ UNCHANGED <<sup, shutdown, channel, panics>>

Send(i) ==
    /\ i < 4 /\ stage[i] = "send"
    /\ stage[i + 1] # "done" /\ channel[i] < Capacity[i]
    /\ channel' = [channel EXCEPT ![i] = @ + 1]
    /\ owed' = [owed EXCEPT ![i] = @ - 1]
    /\ stage' = [stage EXCEPT ![i] = IF owed[i] = 1 THEN "select" ELSE "send"]
    /\ UNCHANGED <<sup, shutdown, panics>>

Stop(i) ==
    /\ stage' = [stage EXCEPT ![i] = "done"]
    /\ UNCHANGED <<sup, shutdown, owed, channel, panics>>

SendFails_Ignored(i) ==
    /\ i < 4 /\ stage[i] = "send" /\ stage[i + 1] = "done"
    /\ UNCHANGED vars

(* tx.send(..).await is Err: the receiver is gone, however full the        *)
(* channel was.                                                            *)
SendFails(i) ==
    /\ i < 4 /\ stage[i] = "send" /\ stage[i + 1] = "done"
    /\ Stop(i)

ReturnOnClosed_EmptyIsClosed(i) ==
    /\ i > 1 /\ stage[i] = "select"
    /\ channel[i - 1] = 0
    /\ Stop(i)

(* rx.recv() is None: the sender is gone and everything it sent was taken. *)
ReturnOnClosed(i) ==
    /\ i > 1 /\ stage[i] = "select"
    /\ channel[i - 1] = 0 /\ stage[i - 1] = "done"
    /\ Stop(i)

(* shutdown.wait_for(|s| *s) wins the select!.                             *)
ReturnOnShutdown(i) ==
    /\ stage[i] = "select" /\ shutdown
    /\ Stop(i)

-----------------------------------------------------------------------------
(* supervise and Pipeline::shutdown *)

(* Any stage panics: the task unwinds and drops all four futures and every *)
(* channel end.                                                            *)
Panic ==
    /\ sup = "running" /\ panics < MaxPanics
    /\ \E i \in Stages : stage[i] \in {"select", "work", "send"}
    /\ panics' = panics + 1
    /\ stage' = NoStages /\ owed' = NothingOwed /\ channel' = NothingOwed
    /\ sup' = IF shutdown THEN "stopped" ELSE "backoff"
    /\ UNCHANGED shutdown

(* The sleep ends, possibly in the same poll as a shutdown: make_task runs *)
(* again, with fresh channels and stages.                                  *)
Respawn ==
    /\ sup = "backoff"
    /\ sup' = "running"
    /\ stage' = FreshStages
    /\ UNCHANGED <<shutdown, owed, channel, panics>>

StopInBackoff ==
    /\ sup = "backoff" /\ shutdown
    /\ sup' = "stopped"
    /\ UNCHANGED <<shutdown, stage, owed, channel, panics>>

(* join! is through and handle.await is Ok: no restart.                    *)
TaskReturns ==
    /\ sup = "running" /\ \A i \in Stages : stage[i] = "done"
    /\ sup' = "stopped"
    /\ UNCHANGED <<shutdown, stage, owed, channel, panics>>

Shutdown ==
    /\ ~shutdown
    /\ shutdown' = TRUE
    /\ UNCHANGED <<sup, stage, owed, channel, panics>>

StageStep(i) ==
    \/ Tick(i) \/ Recv(i) \/ Send(i) \/ SendFails(i) \/ ReturnOnClosed(i) \/ ReturnOnShutdown(i)
    \/ \E n \in 0..(IF i = 4 THEN 0 ELSE MaxOwed[i]) : FinishWork(i, n)

Next ==
    \/ \E i \in Stages : StageStep(i)
    \/ Panic \/ Respawn \/ StopInBackoff \/ TaskReturns \/ Shutdown

Spec == Init /\ [][Next]_vars

(* The runtime polls every ready future; requests and blocking jobs end    *)
(* (each read of a request has a timeout); select! tries its branches in   *)
(* random order, so neither a message nor shutdown loses forever.          *)
FairSpec ==
    /\ Spec
    /\ \A i \in Stages : WF_vars(StageStep(i)) /\ SF_vars(Recv(i)) /\ SF_vars(ReturnOnShutdown(i))
    /\ WF_vars(Respawn \/ StopInBackoff) /\ WF_vars(TaskReturns)

-----------------------------------------------------------------------------
(* Properties *)

(* Every variable keeps its shape; the channels stay within the capacity   *)
(* given to mpsc::channel.                                                 *)
TypeOK ==
    /\ sup \in {"running", "backoff", "stopped"}
    /\ shutdown \in BOOLEAN
    /\ stage \in [Stages -> {"select", "work", "send", "done", "none"}]
    /\ owed \in [Channels -> Nat]
    /\ channel \in [Channels -> Nat] /\ \A c \in Channels : channel[c] <= Capacity[c]
    /\ panics \in Nat

(* The pipeline never stops by itself: a stage has returned only if        *)
(* shutdown was asked for.  A closed channel spreads a shutdown, it never  *)
(* starts one, so supervise's normal return is a shutdown too.             *)
StopsOnlyOnShutdown ==
    /\ \A i \in Stages : stage[i] = "done" => shutdown
    /\ sup = "stopped" => shutdown

(* A stage in tx.send has something to send.                               *)
SendersOwe == \A c \in Channels : stage[c] = "send" => owed[c] > 0

SupervisorInv ==
    /\ TypeOK
    /\ StopsOnlyOnShutdown
    /\ SendersOwe
    /\ sup = "backoff" => stage = NoStages

(* Shutdown always completes, with every channel full and every stage      *)
(* blocked in a send, during a poll, during a backoff, or with a panic in  *)
(* the middle of it.                                                       *)
ShutdownCompletes == shutdown ~> sup = "stopped"
=============================================================================
