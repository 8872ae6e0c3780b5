------------------------------- MODULE S3Poller -------------------------------
(***************************************************************************)
(* The ingest task: S3Poller::run over a bucket that keeps growing.        *)
(*                                                                         *)
(* The bucket is external: one directory per volume-sequence number, each  *)
(* a sequence of keys in lexical (= upload) order.  A key is its position  *)
(* in the directory and its kind; "Other" is a key whose suffix is not     *)
(* recognised.  Uploads are sequential, volume numbers increase and may    *)
(* skip, and a volume may be left without its -E.                          *)
(*                                                                         *)
(* poll_once is taken apart at its awaits, because the bucket changes and  *)
(* requests fail there.  pc says which await the task is in:               *)
(*                                                                         *)
(*   tick     select! between the interval and shutdown                    *)
(*   cold     list_volume_folders of a cold start                          *)
(*   keys     list_all_keys_after for the target volume                    *)
(*   relist   list_volume_folders of apply_recovery                        *)
(*   fetch    get_object for the next key of the batch                     *)
(*   send     tx.send for the next envelope                                *)
(*   done     run has returned                                             *)
(***************************************************************************)
EXTENDS Naturals, Sequences

CONSTANTS
    None,                  \* Option::None
    ReanchorEmptyPolls,    \* REANCHOR_EMPTY_POLLS
    StuckEmptyPolls,       \* STUCK_MID_VOLUME_EMPTY_POLLS
    StalledAfter,          \* STALLED_AFTER_CONSECUTIVE_ERRORS
    UploadedKinds,         \* kinds of key the radar uploads to a directory
    MaxVolume,             \* bound: highest volume-sequence number
    KeysPerVolume,         \* bound: keys in one directory
    MaxFailures            \* bound: failed requests in one behaviour

Recognised == {"Start", "Intermediate", "End"}

KeyKind == Recognised \cup {"Other"}

ASSUME PollerAssumption ==
    /\ UploadedKinds \in [1..MaxVolume -> SUBSET KeyKind]
    /\ None \notin Nat
    /\ ReanchorEmptyPolls \in Nat \ {0}
    /\ StuckEmptyPolls \in Nat \ {0}
    /\ StalledAfter \in Nat \ {0}
    /\ MaxVolume \in Nat /\ KeysPerVolume \in Nat /\ MaxFailures \in Nat

Volumes == 1..MaxVolume

Envelope == [volume : Nat, key : Nat, kind : Recognised]

VARIABLES
    bucket,                 \* external: the keys of every volume directory
    failures,               \* external: requests that have failed so far
    last_completed_volume,
    last_seen_key,          \* position of the start-after key, 0 for None
    consecutive_empty_polls,
    seen_any_key_in_current_volume,
    consecutive_errors,
    status,                 \* the watch channel: state and current_volume
    pc,
    baseline,               \* poll_once's local of that name
    keys,                   \* poll_once: position of the last listed key
    envelopes,              \* poll_once: what was fetched, then what run sends
    sent                    \* history: the envelopes tx has accepted

poller == <<last_completed_volume, last_seen_key, consecutive_empty_polls,
            seen_any_key_in_current_volume, consecutive_errors>>
locals == <<baseline, keys, envelopes>>
vars   == <<bucket, failures, poller, status, pc, locals, sent>>

-----------------------------------------------------------------------------
(* The bucket (external) *)

(* A directory beyond the bound is one that does not exist.                *)
Dir(v) == IF v \in Volumes THEN bucket[v] ELSE <<>>

Folders == {v \in Volumes : bucket[v] # <<>>}

Newest == IF Folders = {} THEN 0 ELSE CHOOSE v \in Folders : \A w \in Folders : w <= v

Ended(v) == \E n \in DOMAIN bucket[v] : bucket[v][n] = "End"

(* The radar appends to the newest directory, or starts a later one.       *)
Upload(v, k) ==
    /\ v >= Newest
    /\ Len(bucket[v]) < KeysPerVolume
    /\ ~Ended(v)
    /\ bucket' = [bucket EXCEPT ![v] = Append(@, k)]
    /\ UNCHANGED <<failures, poller, status, pc, locals, sent>>

-----------------------------------------------------------------------------
(* Pure functions *)

cold_start_baseline(newest) == IF newest = 0 THEN 0 ELSE newest - 1

(* Mutants: the deliberate faults that show what each property depends on  *)
(* stand before the definition they replace and end in an underscored name *)
(* of the fault.  No specification uses them.                              *)
ReanchorCandidate_OffByOne(current_target, newest) ==
    IF newest > current_target + 1 THEN newest - 2 ELSE current_target

(* next_target, with listing = the newest listed folder, 0 for none.       *)
(* candidate is max(newest - 1, current_target).                           *)
ReanchorCandidate(current_target, newest) ==
    IF newest > current_target THEN newest - 1 ELSE current_target

target == baseline + 1

-----------------------------------------------------------------------------
(* run and poll_once *)

Init ==
    /\ bucket = [v \in Volumes |-> <<>>]
    /\ failures = 0
    /\ last_completed_volume = None
    /\ last_seen_key = 0
    /\ consecutive_empty_polls = 0
    /\ seen_any_key_in_current_volume = FALSE
    /\ consecutive_errors = 0
    /\ status = [state |-> "Polling", current_volume |-> None]
    /\ pc = "tick"
    /\ baseline = 0 /\ keys = 0 /\ envelopes = <<>>
    /\ sent = <<>>

Tick ==
    /\ pc = "tick"
    /\ IF last_completed_volume = None
       THEN pc' = "cold" /\ UNCHANGED baseline
       ELSE pc' = "keys" /\ baseline' = last_completed_volume
    /\ UNCHANGED <<bucket, failures, poller, status, keys, envelopes, sent>>

ColdStart ==
    /\ pc = "cold"
    /\ baseline' = cold_start_baseline(Newest)
    /\ pc' = "keys"
    /\ UNCHANGED <<bucket, failures, poller, status, keys, envelopes, sent>>

(* poll_once has returned and its locals are gone.                         *)
EndPoll == baseline' = 0 /\ keys' = 0

(* poll_once returned Ok and run has published it: go through the sends.   *)
PollOk(completed) ==
    /\ EndPoll
    /\ consecutive_errors' = 0
    /\ status' = [state |-> "Polling", current_volume |-> completed]
    /\ pc' = "send"

(* The listing of the target directory after last_seen_key.  An empty one  *)
(* goes on to apply_recovery, which may need another request.              *)
ListSomeKeys ==
    /\ pc = "keys"
    /\ Len(Dir(target)) > last_seen_key
    /\ consecutive_empty_polls' = 0
    /\ seen_any_key_in_current_volume' = TRUE
    /\ keys' = Len(Dir(target))
    /\ envelopes' = <<>>
    /\ pc' = "fetch"
    /\ UNCHANGED <<bucket, failures, last_completed_volume, last_seen_key,
                   consecutive_errors, status, baseline, sent>>

NoKeyListed ==
    /\ pc = "keys"
    /\ Len(Dir(target)) <= last_seen_key

(* This poll is one empty poll more; a threshold of limit is crossed.      *)
Reached(limit) == consecutive_empty_polls + 1 >= limit

EmptyPoll_CounterReset ==
    /\ NoKeyListed
    /\ ~Reached(IF seen_any_key_in_current_volume THEN StuckEmptyPolls ELSE ReanchorEmptyPolls)
    /\ consecutive_empty_polls' = 0
    /\ last_completed_volume' = baseline
    /\ envelopes' = <<>>
    /\ PollOk(baseline)
    /\ UNCHANGED <<bucket, failures, last_seen_key, seen_any_key_in_current_volume, sent>>

(* Nothing new, and no threshold crossed.                                  *)
EmptyPoll ==
    /\ NoKeyListed
    /\ ~Reached(IF seen_any_key_in_current_volume THEN StuckEmptyPolls ELSE ReanchorEmptyPolls)
    /\ consecutive_empty_polls' = consecutive_empty_polls + 1
    /\ last_completed_volume' = baseline
    /\ envelopes' = <<>>
    /\ PollOk(baseline)
    /\ UNCHANGED <<bucket, failures, last_seen_key, seen_any_key_in_current_volume, sent>>

Anchor_KeepsCursor(new_target) ==
    /\ last_completed_volume' = new_target - 1
    /\ consecutive_empty_polls' = 0
    /\ seen_any_key_in_current_volume' = FALSE
    /\ envelopes' = <<>>
    /\ PollOk(new_target - 1)
    /\ UNCHANGED last_seen_key

(* Anchor to another volume: ReAnchor and AdvancePastStuckVolume alike.    *)
(* The ReAnchoring status is overwritten before the next await.            *)
Anchor(new_target) ==
    /\ last_completed_volume' = new_target - 1
    /\ last_seen_key' = 0
    /\ consecutive_empty_polls' = 0
    /\ seen_any_key_in_current_volume' = FALSE
    /\ envelopes' = <<>>
    /\ PollOk(new_target - 1)

AdvancePastStuckVolume ==
    /\ NoKeyListed
    /\ seen_any_key_in_current_volume
    /\ Reached(StuckEmptyPolls)
    /\ Anchor(target + 1)
    /\ UNCHANGED <<bucket, failures, sent>>

ShouldRelist ==
    /\ NoKeyListed
    /\ ~seen_any_key_in_current_volume
    /\ Reached(ReanchorEmptyPolls)
    /\ last_completed_volume' = baseline
    /\ consecutive_empty_polls' = consecutive_empty_polls + 1
    /\ pc' = "relist"
    /\ UNCHANGED <<bucket, failures, last_seen_key, seen_any_key_in_current_volume,
                   consecutive_errors, status, locals, sent>>

ReAnchor_ToNewest ==
    /\ pc = "relist"
    /\ Newest # 0
    /\ Anchor(Newest)
    /\ UNCHANGED <<bucket, failures, sent>>

ReAnchor ==
    /\ pc = "relist"
    /\ ReanchorCandidate(target, Newest) > target
    /\ Anchor(ReanchorCandidate(target, Newest))
    /\ UNCHANGED <<bucket, failures, sent>>

NoGapFound ==
    /\ pc = "relist"
    /\ ReanchorCandidate(target, Newest) <= target
    /\ consecutive_empty_polls' = 0
    /\ envelopes' = <<>>
    /\ PollOk(baseline)
    /\ UNCHANGED <<bucket, failures, last_completed_volume, last_seen_key,
                   seen_any_key_in_current_volume, sent>>

(* The keys of the batch that are still to be fetched, which happens in    *)
(* listing order.                                                          *)
ToFetch == {n \in (last_seen_key + 1)..keys :
              /\ Dir(target)[n] \in Recognised
              /\ \A i \in DOMAIN envelopes : envelopes[i].key < n}

Fetch ==
    /\ pc = "fetch"
    /\ \E n \in ToFetch :
         /\ \A m \in ToFetch : n <= m
         /\ envelopes' = Append(envelopes,
                [volume |-> target, key |-> n, kind |-> Dir(target)[n]])
    /\ UNCHANGED <<bucket, failures, poller, status, pc, baseline, keys, sent>>

SawEnd == \E i \in DOMAIN envelopes : envelopes[i].kind = "End"

BatchComplete_CursorStays ==
    /\ pc = "fetch"
    /\ ToFetch = {}
    /\ last_completed_volume' = baseline
    /\ PollOk(baseline)
    /\ UNCHANGED <<bucket, failures, consecutive_empty_polls, last_seen_key,
                   seen_any_key_in_current_volume, envelopes, sent>>

(* Every fetch of the batch has succeeded: the cursor advances.            *)
BatchComplete ==
    /\ pc = "fetch"
    /\ ToFetch = {}
    /\ IF SawEnd
       THEN /\ last_completed_volume' = target
            /\ last_seen_key' = 0
            /\ seen_any_key_in_current_volume' = FALSE
            /\ PollOk(target)
       ELSE /\ last_completed_volume' = baseline
            /\ last_seen_key' = keys
            /\ PollOk(baseline)
            /\ UNCHANGED seen_any_key_in_current_volume
    /\ UNCHANGED <<bucket, failures, consecutive_empty_polls, envelopes, sent>>

(* A request of poll_once failed: the ? returns, run counts and publishes. *)
PollFailed ==
    /\ pc \in {"cold", "keys", "relist"} \/ (pc = "fetch" /\ ToFetch # {})
    /\ failures < MaxFailures
    /\ failures' = failures + 1
    /\ LET errors == IF consecutive_errors < StalledAfter
                     THEN consecutive_errors + 1 ELSE StalledAfter
       IN  /\ consecutive_errors' = errors
           /\ status' = [status EXCEPT
                  !.state = IF errors >= StalledAfter THEN "Stalled" ELSE "Retrying"]
    /\ envelopes' = <<>>
    /\ pc' = "tick"
    /\ EndPoll
    /\ UNCHANGED <<bucket, last_completed_volume, last_seen_key, consecutive_empty_polls,
                   seen_any_key_in_current_volume, sent>>

Send ==
    /\ pc = "send"
    /\ IF envelopes = <<>>
       THEN pc' = "tick" /\ UNCHANGED <<envelopes, sent>>
       ELSE /\ sent' = Append(sent, Head(envelopes))
            /\ envelopes' = Tail(envelopes)
            /\ UNCHANGED pc
    /\ UNCHANGED <<bucket, failures, poller, status, baseline, keys>>

(* Shutdown at the select, or the channel closed under a send.             *)
Return ==
    /\ pc = "tick" \/ (pc = "send" /\ envelopes # <<>>)
    /\ pc' = "done"
    /\ UNCHANGED <<bucket, failures, poller, status, locals, sent>>

Poll == \/ Tick \/ ColdStart \/ ListSomeKeys \/ EmptyPoll \/ AdvancePastStuckVolume
        \/ ShouldRelist \/ ReAnchor \/ NoGapFound \/ Fetch \/ BatchComplete \/ Send

Next == Poll \/ PollFailed \/ Return \/ \E v \in Volumes : \E k \in UploadedKinds[v] : Upload(v, k)

Spec == Init /\ [][Next]_vars

(* The interval keeps ticking and, once the MaxFailures failures are spent, *)
(* every request is answered.                                               *)
FairSpec == Spec /\ WF_vars(Poll)

-----------------------------------------------------------------------------
(* Properties *)

(* Every variable keeps the shape its Rust declaration gives it.           *)
TypeOK ==
    /\ bucket \in [Volumes -> Seq(KeyKind)]
    /\ failures \in 0..MaxFailures
    /\ last_completed_volume \in Nat \cup {None}
    /\ last_seen_key \in Nat
    /\ consecutive_empty_polls \in Nat
    /\ seen_any_key_in_current_volume \in BOOLEAN
    /\ consecutive_errors \in 0..StalledAfter
    /\ status \in [state : {"Polling", "Retrying", "Stalled"},
                   current_volume : Nat \cup {None}]
    /\ pc \in {"tick", "cold", "keys", "relist", "fetch", "send", "done"}
    /\ baseline \in Nat /\ keys \in Nat
    /\ envelopes \in Seq(Envelope) /\ sent \in Seq(Envelope)

(* Envelopes run has sent or is committed to sending.                      *)
Committed == IF pc \in {"send", "done"} THEN sent \o envelopes ELSE sent

Before(e, f) == e.volume < f.volume \/ (e.volume = f.volume /\ e.key < f.key)

(* Assembly sees every chunk at most once, in bucket order and without a   *)
(* hole inside a volume, whatever requests fail and are retried: a batch   *)
(* that fails half way is fetched again, never sent twice and never passed *)
(* over, and when a chunk is delivered so was every recognised key before  *)
(* it in its directory (poll_once, run).                                   *)
DeliveredOnceInOrder ==
    /\ \A i, j \in DOMAIN Committed : i < j => Before(Committed[i], Committed[j])
    /\ \A i \in DOMAIN Committed : \A n \in 1..(Committed[i].key - 1) :
          Dir(Committed[i].volume)[n] \in Recognised =>
              \E j \in DOMAIN Committed :
                  Committed[j].volume = Committed[i].volume /\ Committed[j].key = n

(* Between polls the cursor tells the truth: what was delivered of the     *)
(* target volume is exactly the recognised keys up to last_seen_key, and   *)
(* nothing of a later volume was.                                          *)
CursorIsExact ==
    (pc = "tick" /\ last_completed_volume # None) =>
        LET v == last_completed_volume + 1
            got == {sent[i].key : i \in {j \in DOMAIN sent : sent[j].volume = v}}
        IN  /\ got = {n \in DOMAIN Dir(v) : n <= last_seen_key /\ Dir(v)[n] \in Recognised}
            /\ \A i \in DOMAIN sent : sent[i].volume <= v
            /\ last_seen_key # 0 => seen_any_key_in_current_volume

(* "Never re-anchor backwards past a volume already delivered": the target *)
(* volume never moves back, by completion, re-anchoring or abandonment.    *)
TargetNeverRetreats ==
    [][ last_completed_volume # None =>
          /\ last_completed_volume' # None
          /\ last_completed_volume' >= last_completed_volume ]_vars

(* The volume the poller is waiting for.                                   *)
WaitingFor(v) == last_completed_volume # None /\ last_completed_volume + 1 = v

Moved(v) == pc = "done" \/ ~WaitingFor(v)

(* A volume whose directory has data is left behind once a later one       *)
(* exists: by its -E, or by AdvancePastStuckVolume when that never comes.  *)
StuckVolumeIsLeft ==
    \A v \in Volumes :
        (WaitingFor(v) /\ bucket[v] # <<>> /\ Newest > v) ~> Moved(v)

(* A sequence number that was skipped is left behind once two later ones   *)
(* exist.                                                                  *)
GapIsPassed ==
    \A v \in Volumes : (WaitingFor(v) /\ Newest >= v + 2) ~> Moved(v)

(* What the data-flow document says of skipped sequence numbers: the       *)
(* poller does not stall on a directory that will never exist while a      *)
(* later one does.                                                         *)
NeverStallsOnAbsentDirectory ==
    \A v \in Volumes :
        (WaitingFor(v) /\ bucket[v] = <<>> /\ Newest > v) ~> Moved(v)
=============================================================================
