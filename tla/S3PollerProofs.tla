---------------------------- MODULE S3PollerProofs ----------------------------
(***************************************************************************)
(* The poller delivers the chunks of a volume once, in order and without   *)
(* holes, its cursor says exactly what was delivered, and its target       *)
(* volume never moves back: for a bucket that grows in any way, any        *)
(* thresholds and any failures.                                            *)
(***************************************************************************)
EXTENDS S3Poller, TLAPS, WellFoundedInduction

(* A poll works on its local copy of last_completed_volume across several  *)
(* awaits; TargetNeverRetreats needs that the copy is still the field's    *)
(* value when the poll assigns it back, and that a cold start is the only  *)
(* poll without one.                                                       *)
Polling == pc \in {"keys", "relist", "fetch"}

AnchorInv ==
    /\ last_completed_volume \in Nat \cup {None}
    /\ baseline \in Nat
    /\ pc = "cold" => last_completed_volume = None
    /\ (Polling /\ last_completed_volume # None) => last_completed_volume = baseline

(* The volume a step leaves the poller at is not before the one it was at. *)
Advances ==
    last_completed_volume # None =>
        /\ last_completed_volume' # None
        /\ last_completed_volume' >= last_completed_volume

(* A set of natural numbers has a least element.                           *)
LEMMA LeastExists ==
    ASSUME NEW T, T \subseteq Nat, T # {}
    PROVE  \E x \in T : \A y \in T : x <= y
<1>1. PICK x \in T : \A y \in T : ~(<<y, x>> \in OpToRel(<, Nat))
  <2> HIDE DEF OpToRel
  <2> QED BY WFMin, NatLessThanWellFounded
<1>2. ASSUME NEW y \in T PROVE x <= y
  <2>1. <<y, x>> \in Nat \X Nat OBVIOUS
  <2>2. ~(y < x) BY <1>1, <2>1 DEF OpToRel
  <2> QED BY <2>2
<1> QED BY <1>1, <1>2

(* The newest folder of a listing is a volume number, 0 if there is none   *)
(* (list_volume_folders and the max of poll_once and next_target).         *)
LEMMA NewestType == Newest \in Nat
<1>1. CASE Folders = {}
  BY <1>1 DEF Newest
<1>2. CASE Folders # {}
  <2> DEFINE distance == {MaxVolume - v : v \in Folders}
  <2>1. Folders \subseteq Nat /\ \A v \in Folders : MaxVolume - v \in Nat
    BY PollerAssumption DEF Folders, Volumes
  <2>2. distance \subseteq Nat /\ distance # {}
    BY <1>2, <2>1
  <2>3. PICK d \in distance : \A e \in distance : d <= e
    <3> HIDE DEF distance
    <3> QED BY <2>2, LeastExists
  <2>4. PICK v \in Folders : d = MaxVolume - v
    BY <2>3
  <2>5. ASSUME NEW w \in Folders PROVE w <= v
    <3>1. MaxVolume - v <= MaxVolume - w
      BY <2>3, <2>4
    <3> QED BY <2>1, <2>4, <3>1, PollerAssumption
  <2>6. Newest \in Folders
    BY <1>2, <2>4, <2>5 DEF Newest
  <2> QED BY <2>1, <2>6
<1> QED BY <1>1, <1>2

(* Before the first poll there is no volume to go back to.                 *)
LEMMA AnchorInit == Init => AnchorInv
BY DEF Init, AnchorInv, Polling

(* Whatever a poll assigns to last_completed_volume lies at or after the   *)
(* volume the poll started from, and so after the one before it.           *)
LEMMA Assigned ==
    ASSUME AnchorInv, Polling, baseline' = 0, pc' = "send",
           last_completed_volume' \in Nat, last_completed_volume' >= baseline
    PROVE  AnchorInv' /\ Advances
BY PollerAssumption DEF AnchorInv, Advances, Polling

(* Each step of the poller, of the bucket and of a failing request keeps   *)
(* the invariant and does not move the target back.                        *)
LEMMA AnchorStep ==
    ASSUME AnchorInv, [Next]_vars
    PROVE  AnchorInv' /\ Advances
<1> USE PollerAssumption
<1>0. baseline \in Nat /\ last_completed_volume \in Nat \cup {None}
  BY DEF AnchorInv
<1>u. ASSUME UNCHANGED <<last_completed_volume, baseline>>, pc' = pc \/ pc' \in {"tick", "done"} \/ (Polling /\ Polling')
      PROVE  AnchorInv' /\ Advances
  BY <1>u, <1>0 DEF AnchorInv, Advances, Polling
<1>1. CASE Tick
  BY <1>1 DEF Tick, poller, AnchorInv, Advances, Polling
<1>2. CASE ColdStart
  <2>1. baseline' \in Nat
    BY <1>2, NewestType DEF ColdStart, cold_start_baseline
  <2> QED BY <1>2, <2>1 DEF ColdStart, poller, AnchorInv, Advances, Polling
<1>3. CASE ListSomeKeys
  <2>1. Polling /\ Polling' /\ UNCHANGED <<last_completed_volume, baseline>>
    BY <1>3 DEF ListSomeKeys, Polling
  <2> QED BY <2>1, <1>u
<1>4. CASE EmptyPoll
  <2>1. Polling /\ baseline' = 0 /\ pc' = "send" /\ last_completed_volume' = baseline
    BY <1>4 DEF EmptyPoll, NoKeyListed, PollOk, EndPoll, Polling
  <2> QED BY <2>1, <1>0, Assigned
<1>5. ASSUME NEW v \in Nat, Polling, v > baseline, Anchor(v)
      PROVE  AnchorInv' /\ Advances
  <2>1. baseline' = 0 /\ pc' = "send" /\ last_completed_volume' = v - 1
    BY <1>5 DEF Anchor, PollOk, EndPoll
  <2> QED BY <2>1, <1>0, <1>5, Assigned
<1>6. CASE AdvancePastStuckVolume
  <2>1. Polling /\ Anchor(target + 1) /\ target + 1 \in Nat /\ target + 1 > baseline
    BY <1>6, <1>0 DEF AdvancePastStuckVolume, NoKeyListed, Polling, target
  <2> QED BY <2>1, <1>5
<1>7. CASE ShouldRelist
  <2>1. /\ Polling /\ pc' = "relist" /\ last_completed_volume' = baseline /\ baseline' = baseline
    BY <1>7 DEF ShouldRelist, NoKeyListed, locals, Polling
  <2> QED BY <2>1, <1>0 DEF AnchorInv, Advances, Polling
<1>8. CASE ReAnchor
  <2> DEFINE v == ReanchorCandidate(target, Newest)
  <2>1. Polling /\ Anchor(v) /\ v > target
    BY <1>8 DEF ReAnchor, Polling
  <2>2. v \in Nat /\ v > baseline
    BY <2>1, <1>0, NewestType DEF ReanchorCandidate, target
  <2> HIDE DEF v
  <2> QED BY <2>1, <2>2, <1>5
<1>9. CASE NoGapFound
  <2>1. /\ pc = "relist" /\ baseline' = 0 /\ pc' = "send"
        /\ last_completed_volume' = last_completed_volume
    BY <1>9 DEF NoGapFound, PollOk, EndPoll
  <2> QED BY <2>1, <1>0 DEF AnchorInv, Advances, Polling
<1>10. CASE Fetch
  BY <1>10, <1>u DEF Fetch, poller
<1>11. CASE BatchComplete
  <2>1. Polling /\ baseline' = 0 /\ pc' = "send"
    BY <1>11 DEF BatchComplete, PollOk, EndPoll, Polling
  <2>2. last_completed_volume' \in {baseline, target}
    BY <1>11 DEF BatchComplete
  <2>3. last_completed_volume' \in Nat /\ last_completed_volume' >= baseline
    BY <2>2, <1>0 DEF target
  <2> QED BY <2>1, <2>3, Assigned
<1>12. CASE Send
  BY <1>12, <1>u DEF Send, poller
<1>13. CASE PollFailed
  <2>1. pc' = "tick" /\ baseline' = 0 /\ last_completed_volume' = last_completed_volume
    BY <1>13 DEF PollFailed, EndPoll
  <2> QED BY <2>1, <1>0 DEF AnchorInv, Advances, Polling
<1>14. CASE Return
  BY <1>14, <1>u DEF Return, poller, locals
<1>15. ASSUME NEW v, NEW k, Upload(v, k) PROVE AnchorInv' /\ Advances
  BY <1>15, <1>u DEF Upload, poller, locals
<1>16. CASE UNCHANGED vars
  BY <1>16, <1>u DEF vars, poller, locals
<1> QED
  BY <1>1, <1>2, <1>3, <1>4, <1>6, <1>7, <1>8, <1>9, <1>10, <1>11, <1>12, <1>13, <1>14,
     <1>15, <1>16 DEF Next, Poll

-----------------------------------------------------------------------------
(* The shapes of the variables that the order of deliveries depends on.    *)
CoreTypes ==
    /\ bucket \in [Volumes -> Seq(KeyKind)]
    /\ last_seen_key \in Nat /\ keys \in Nat
    /\ pc \in {"tick", "cold", "keys", "relist", "fetch", "send", "done"}
    /\ envelopes \in Seq(Envelope) /\ sent \in Seq(Envelope)

(* What the poller relies on beyond its types: outside a poll's own steps  *)
(* no envelope lies about.                                                 *)
EnvelopesInv == pc \notin {"fetch", "send", "done"} => envelopes = <<>>

(* Every chunk handed on is a recognised key of the bucket.                *)
Genuine(e) ==
    /\ e.key \in DOMAIN Dir(e.volume)
    /\ e.kind = Dir(e.volume)[e.key] /\ e.kind \in Recognised

(* The batch under way holds, in order, the recognised keys behind the     *)
(* cursor as far as they were fetched.                                     *)
BatchInv ==
    pc = "fetch" =>
        /\ seen_any_key_in_current_volume
        /\ last_seen_key <= keys /\ keys <= Len(Dir(target))
        /\ \A i \in DOMAIN envelopes :
              /\ envelopes[i].volume = target /\ Genuine(envelopes[i])
              /\ last_seen_key < envelopes[i].key /\ envelopes[i].key <= keys
        /\ \A i, j \in DOMAIN envelopes : i < j => envelopes[i].key < envelopes[j].key
        /\ \A n \in (last_seen_key + 1)..keys :
              Dir(target)[n] \in Recognised =>
                  n \in ToFetch \/ \E i \in DOMAIN envelopes : envelopes[i].key = n

(* Nothing was handed on before the first poll was complete, and after it  *)
(* nothing behind the cursor; of the target volume, everything up to it.   *)
CursorInv ==
    /\ last_completed_volume = None => last_seen_key = 0 /\ Committed = <<>>
    /\ last_completed_volume # None =>
          /\ last_seen_key <= Len(Dir(last_completed_volume + 1))
          /\ \A i \in DOMAIN Committed :
                \/ Committed[i].volume < last_completed_volume + 1
                \/ Committed[i].volume = last_completed_volume + 1 /\ Committed[i].key <= last_seen_key
          /\ \A n \in 1..last_seen_key :
                Dir(last_completed_volume + 1)[n] \in Recognised =>
                    \E i \in DOMAIN Committed :
                        Committed[i].volume = last_completed_volume + 1 /\ Committed[i].key = n
    /\ last_seen_key # 0 => seen_any_key_in_current_volume
    /\ \A i \in DOMAIN Committed : Genuine(Committed[i])

(* DeliveredOnceInOrder and CursorIsExact speak of what was sent.  Between *)
(* the end of a batch and its last send the cursor is ahead of that, and   *)
(* while a batch is fetched it is behind: hence Committed and BatchInv.    *)
DeliveryInv ==
    /\ CoreTypes /\ AnchorInv /\ EnvelopesInv /\ BatchInv /\ CursorInv
    /\ DeliveredOnceInOrder

(* What has been handed on is a sequence of envelopes.                     *)
LEMMA CommittedType ==
    ASSUME CoreTypes
    PROVE  Committed \in Seq(Envelope)
BY DEF CoreTypes, Committed

(* The fields of an envelope of a sequence.                                *)
LEMMA EnvelopeFields ==
    ASSUME NEW s \in Seq(Envelope), NEW i \in DOMAIN s
    PROVE  s[i].volume \in Nat /\ s[i].key \in Nat /\ s[i].kind \in Recognised
<1>1. s[i] \in Envelope
  OBVIOUS
<1> QED BY <1>1 DEF Envelope

(* Where the elements of a concatenation come from and go to.              *)
LEMMA ConcatIndex ==
    ASSUME NEW S, NEW s \in Seq(S), NEW t \in Seq(S)
    PROVE  /\ \A i \in DOMAIN (s \o t) :
                 \/ i \in DOMAIN s /\ (s \o t)[i] = s[i]
                 \/ i > Len(s) /\ i - Len(s) \in DOMAIN t /\ (s \o t)[i] = t[i - Len(s)]
           /\ \A i \in DOMAIN s : i \in DOMAIN (s \o t) /\ (s \o t)[i] = s[i]
           /\ \A i \in DOMAIN t : Len(s) + i \in DOMAIN (s \o t) /\ (s \o t)[Len(s) + i] = t[i]
OBVIOUS

(* A directory is a sequence of keys, empty outside the bound.             *)
LEMMA DirType ==
    ASSUME CoreTypes, NEW v
    PROVE  /\ Dir(v) \in Seq(KeyKind)
           /\ Len(Dir(v)) # 0 => v \in Volumes
<1>1. CASE v \in Volumes
  BY <1>1 DEF CoreTypes, Dir
<1>2. CASE v \notin Volumes
  BY <1>2 DEF Dir
<1> QED BY <1>1, <1>2

(* A step that hands nothing on and leaves the cursor alone keeps the      *)
(* account of what was delivered.                                          *)
LEMMA SamePlace ==
    ASSUME DeliveryInv, bucket' = bucket, Committed' = Committed,
           UNCHANGED <<last_completed_volume, last_seen_key>>,
           seen_any_key_in_current_volume => seen_any_key_in_current_volume'
    PROVE  CursorInv' /\ DeliveredOnceInOrder'
<1>1. \A v : Dir(v)' = Dir(v)
  BY DEF Dir
<1>2. \A e : Genuine(e)' <=> Genuine(e)
  BY <1>1 DEF Genuine
<1>3. CursorInv'
  BY <1>1, <1>2 DEF DeliveryInv, CursorInv
<1>4. DeliveredOnceInOrder'
  BY <1>1 DEF DeliveryInv, DeliveredOnceInOrder
<1> QED BY <1>3, <1>4

(* So does one that hands nothing on and leaves the volume it was working  *)
(* on for a later one, with the cursor at its beginning.                   *)
LEMMA NextPlace ==
    ASSUME DeliveryInv, Polling, bucket' = bucket, Committed' = Committed,
           last_completed_volume' \in Nat, last_completed_volume' > baseline,
           last_seen_key' = 0
    PROVE  CursorInv' /\ DeliveredOnceInOrder'
<1>0. baseline \in Nat /\ Committed \in Seq(Envelope)
  BY CommittedType DEF DeliveryInv, AnchorInv
<1>1. \A v : Dir(v)' = Dir(v)
  BY DEF Dir
<1>2. \A e : Genuine(e)' <=> Genuine(e)
  BY <1>1 DEF Genuine
<1>3. DeliveredOnceInOrder'
  BY <1>1 DEF DeliveryInv, DeliveredOnceInOrder
<1>4. \A i \in DOMAIN Committed : Committed[i].volume \in Nat
  BY <1>0, EnvelopeFields
<1>5. \A i \in DOMAIN Committed : Committed[i].volume < last_completed_volume' + 1
  <2>1. CASE last_completed_volume = None
    <3>1. Committed = <<>>
      BY <2>1 DEF DeliveryInv, CursorInv
    <3> QED BY <3>1
  <2>2. CASE last_completed_volume # None
    <3>1. last_completed_volume = baseline
      BY <2>2 DEF DeliveryInv, AnchorInv
    <3>2. \A i \in DOMAIN Committed : Committed[i].volume <= baseline + 1
      BY <1>0, <1>4, <2>2, <3>1 DEF DeliveryInv, CursorInv
    <3> QED BY <1>0, <1>4, <3>2
  <2> QED BY <2>1, <2>2
<1>6. last_seen_key' <= Len(Dir(last_completed_volume' + 1))
  BY DirType DEF DeliveryInv
<1>7. last_completed_volume' # None
  BY PollerAssumption
<1>8. CursorInv'
  BY <1>1, <1>2, <1>5, <1>6, <1>7 DEF DeliveryInv, CursorInv
<1> QED BY <1>3, <1>8

(* And one that stays with the volume it was working on.                   *)
LEMMA SameVolume ==
    ASSUME DeliveryInv, Polling, bucket' = bucket, Committed' = Committed,
           last_completed_volume' = baseline, last_seen_key' = last_seen_key,
           seen_any_key_in_current_volume => seen_any_key_in_current_volume'
    PROVE  CursorInv' /\ DeliveredOnceInOrder'
<1>1. CASE last_completed_volume # None
  BY <1>1, SamePlace DEF DeliveryInv, AnchorInv
<1>2. CASE last_completed_volume = None
  <2>1. last_seen_key = 0 /\ Committed = <<>>
    BY <1>2 DEF DeliveryInv, CursorInv
  <2>2. baseline \in Nat /\ baseline # None
    BY PollerAssumption DEF DeliveryInv, AnchorInv
  <2>3. (last_seen_key <= Len(Dir(last_completed_volume + 1)))'
    BY <2>1, DirType DEF DeliveryInv, Dir
  <2> QED BY <2>1, <2>2, <2>3 DEF CursorInv, DeliveredOnceInOrder
<1> QED BY <1>1, <1>2

(* A step that ends a poll without a batch, or goes on before one, hands   *)
(* nothing on.                                                             *)
LEMMA NothingHandedOn ==
    ASSUME CoreTypes, pc \notin {"send", "done"}, envelopes' = <<>>,
           bucket' = bucket, sent' = sent, keys' \in Nat, last_seen_key' \in Nat,
           pc' \in {"tick", "cold", "keys", "relist", "send"}
    PROVE  CoreTypes' /\ EnvelopesInv' /\ BatchInv' /\ Committed' = Committed
<1>1. CoreTypes'
  BY DEF CoreTypes
<1>2. sent \in Seq(Envelope) /\ sent \o <<>> = sent
  BY DEF CoreTypes
<1>3. Committed' = Committed
  BY <1>2 DEF Committed
<1> QED BY <1>1, <1>3 DEF EnvelopesInv, BatchInv

(* The listing of new keys opens an empty batch.                           *)
LEMMA ListStep ==
    ASSUME DeliveryInv, ListSomeKeys
    PROVE  CoreTypes' /\ EnvelopesInv' /\ BatchInv' /\ CursorInv' /\ DeliveredOnceInOrder'
<1>1. \A v : Dir(v)' = Dir(v)
  BY DEF ListSomeKeys, Dir
<1>2. Len(Dir(target)) \in Nat
  BY DirType DEF DeliveryInv
<1>3. CoreTypes'
  BY <1>2 DEF ListSomeKeys, DeliveryInv, CoreTypes
<1>4. target' = target
  BY DEF ListSomeKeys, target
<1>5. BatchInv'
  <2>1. \A n \in (last_seen_key' + 1)..keys' : Dir(target)'[n] \in Recognised => n \in ToFetch'
    BY DEF ListSomeKeys, ToFetch
  <2>2. last_seen_key < Len(Dir(target)) /\ last_seen_key \in Nat
    BY DEF ListSomeKeys, DeliveryInv, CoreTypes
  <2> QED BY <1>1, <1>2, <1>4, <2>1, <2>2 DEF ListSomeKeys, BatchInv
<1>6. Committed' = Committed
  BY DEF ListSomeKeys, Committed
<1>7. CursorInv' /\ DeliveredOnceInOrder'
  BY <1>6, SamePlace DEF ListSomeKeys
<1> QED BY <1>3, <1>5, <1>7 DEF EnvelopesInv, ListSomeKeys

(* A fetched key is the least that was missing.                            *)
LEMMA FetchStep ==
    ASSUME DeliveryInv, Fetch
    PROVE  CoreTypes' /\ EnvelopesInv' /\ BatchInv' /\ CursorInv' /\ DeliveredOnceInOrder'
<1>0. /\ pc = "fetch" /\ pc' = pc /\ bucket' = bucket /\ sent' = sent /\ baseline' = baseline
      /\ keys' = keys /\ last_seen_key' = last_seen_key
      /\ seen_any_key_in_current_volume' = seen_any_key_in_current_volume
      /\ last_completed_volume' = last_completed_volume
  BY DEF Fetch, poller
<1>1. CoreTypes /\ BatchInv /\ baseline \in Nat
  BY DEF DeliveryInv, AnchorInv
<1> DEFINE e(n) == [volume |-> target, key |-> n, kind |-> Dir(target)[n]]
<1>2. PICK n0 \in ToFetch :
         (\A m \in ToFetch : n0 <= m) /\ envelopes' = Append(envelopes, e(n0))
  BY DEF Fetch
<1>3. /\ n0 \in (last_seen_key + 1)..keys /\ Dir(target)[n0] \in Recognised
      /\ \A i \in DOMAIN envelopes : envelopes[i].key < n0
  BY DEF ToFetch
<1>4. target \in Nat /\ n0 \in Nat /\ last_seen_key \in Nat /\ keys \in Nat
  BY <1>1, <1>3 DEF CoreTypes, target
<1>5. e(n0) \in Envelope
  BY <1>3, <1>4 DEF Envelope
<1>6. envelopes \in Seq(Envelope) /\ envelopes' \in Seq(Envelope)
  BY <1>1, <1>2, <1>5 DEF CoreTypes
<1>7. CoreTypes'
  BY <1>0, <1>1, <1>6 DEF CoreTypes
<1>8. /\ \A v : Dir(v)' = Dir(v)
      /\ target' = target
      /\ \A f : Genuine(f)' <=> Genuine(f)
  BY <1>0 DEF Dir, target, Genuine
<1>9. Genuine(e(n0))
  <2>1. keys <= Len(Dir(target)) /\ Dir(target) \in Seq(KeyKind)
    BY <1>0, <1>1, DirType DEF BatchInv
  <2>2. n0 \in DOMAIN Dir(target)
    BY <1>3, <1>4, <2>1
  <2> QED BY <1>3, <2>2 DEF Genuine
<1>10. \A i \in DOMAIN envelopes' :
          \/ i \in DOMAIN envelopes /\ envelopes'[i] = envelopes[i]
          \/ i = Len(envelopes) + 1 /\ envelopes'[i] = e(n0)
  <2> HIDE DEF e
  <2> QED BY <1>2, <1>5, <1>6
<1>11. /\ \A i \in DOMAIN envelopes : i \in DOMAIN envelopes' /\ envelopes'[i] = envelopes[i]
       /\ Len(envelopes) + 1 \in DOMAIN envelopes' /\ envelopes'[Len(envelopes) + 1] = e(n0)
  <2> HIDE DEF e
  <2> QED BY <1>2, <1>5, <1>6
<1>12. e(n0).volume = target /\ e(n0).key = n0
  OBVIOUS
<1> HIDE DEF e
<1>13. \A i \in DOMAIN envelopes' :
           /\ envelopes'[i].volume = target /\ Genuine(envelopes'[i])
           /\ last_seen_key < envelopes'[i].key /\ envelopes'[i].key <= keys
  BY <1>0, <1>1, <1>3, <1>4, <1>9, <1>10, <1>12 DEF BatchInv
<1>14. \A i, j \in DOMAIN envelopes' : i < j => envelopes'[i].key < envelopes'[j].key
  <2> SUFFICES ASSUME NEW i \in DOMAIN envelopes', NEW j \in DOMAIN envelopes', i < j
               PROVE  envelopes'[i].key < envelopes'[j].key
    OBVIOUS
  <2>1. i \in DOMAIN envelopes /\ envelopes'[i] = envelopes[i]
    BY <1>6, <1>10
  <2>2. CASE j \in DOMAIN envelopes /\ envelopes'[j] = envelopes[j]
    BY <1>0, <1>1, <2>1, <2>2 DEF BatchInv
  <2>3. CASE envelopes'[j] = e(n0)
    BY <1>3, <1>12, <2>1, <2>3
  <2> QED BY <1>10, <2>2, <2>3
<1>15. ASSUME NEW n \in (last_seen_key + 1)..keys, Dir(target)[n] \in Recognised
       PROVE  n \in ToFetch' \/ \E i \in DOMAIN envelopes' : envelopes'[i].key = n
  <2>1. CASE n = n0
    BY <1>11, <1>12, <2>1
  <2>2. CASE \E i \in DOMAIN envelopes : envelopes[i].key = n
    BY <1>11, <2>2
  <2>3. CASE n \in ToFetch /\ n # n0
    <3>1. n0 < n /\ \A i \in DOMAIN envelopes : envelopes[i].key < n
      BY <1>2, <1>4, <2>3 DEF ToFetch
    <3>2. \A i \in DOMAIN envelopes' : envelopes'[i].key < n
      BY <1>10, <1>12, <3>1
    <3> QED BY <1>0, <1>8, <1>15, <3>2 DEF ToFetch
  <2> QED BY <1>0, <1>1, <1>15, <2>1, <2>2, <2>3 DEF BatchInv
<1>16. BatchInv'
  BY <1>0, <1>1, <1>8, <1>13, <1>14, <1>15 DEF BatchInv
<1>17. Committed' = Committed
  BY <1>0 DEF Committed
<1>18. CursorInv' /\ DeliveredOnceInOrder'
  BY <1>0, <1>17, SamePlace
<1> QED BY <1>0, <1>7, <1>16, <1>18 DEF EnvelopesInv

(* A complete batch closes the gap between the cursor and the end of the   *)
(* listing; the cursor moves there, or to the next volume after an -E.     *)
LEMMA BatchStep ==
    ASSUME DeliveryInv, BatchComplete
    PROVE  CoreTypes' /\ EnvelopesInv' /\ BatchInv' /\ CursorInv' /\ DeliveredOnceInOrder'
<1>0. /\ pc = "fetch" /\ pc' = "send" /\ bucket' = bucket /\ sent' = sent
      /\ envelopes' = envelopes /\ keys' = 0 /\ ToFetch = {}
  BY DEF BatchComplete, PollOk, EndPoll
<1>1. /\ CoreTypes /\ BatchInv /\ CursorInv /\ baseline \in Nat /\ baseline # None
      /\ sent \in Seq(Envelope) /\ envelopes \in Seq(Envelope)
      /\ keys \in Nat /\ last_seen_key \in Nat /\ target \in Nat
  BY PollerAssumption DEF DeliveryInv, AnchorInv, CoreTypes, target
<1>2. last_completed_volume \in {None, baseline}
  BY <1>0 DEF DeliveryInv, AnchorInv, Polling
<1> DEFINE C == sent \o envelopes
<1>3. Committed = sent /\ Committed' = C /\ C \in Seq(Envelope)
  BY <1>0, <1>1 DEF Committed
<1>4. /\ \A i \in DOMAIN C :
            \/ i \in DOMAIN sent /\ C[i] = sent[i]
            \/ i > Len(sent) /\ i - Len(sent) \in DOMAIN envelopes
                 /\ C[i] = envelopes[i - Len(sent)]
      /\ \A i \in DOMAIN sent : i \in DOMAIN C /\ C[i] = sent[i]
      /\ \A i \in DOMAIN envelopes :
            Len(sent) + i \in DOMAIN C /\ C[Len(sent) + i] = envelopes[i]
  <2>1. PICK S : sent \in Seq(S) /\ envelopes \in Seq(S)
    BY <1>1
  <2> QED BY <2>1, ConcatIndex
<1>5. \A i \in DOMAIN C : C[i].volume \in Nat /\ C[i].key \in Nat
  BY <1>3, EnvelopeFields
<1> HIDE DEF C
<1>6. /\ \A v : Dir(v)' = Dir(v)
      /\ \A f : Genuine(f)' <=> Genuine(f)
  BY <1>0 DEF Dir, Genuine
<1>7. \A i \in DOMAIN sent :
         /\ sent[i].volume < target \/ (sent[i].volume = target /\ sent[i].key <= last_seen_key)
         /\ Genuine(sent[i])
  BY <1>1, <1>2, <1>3 DEF CursorInv, target
<1>8. \A i \in DOMAIN envelopes :
         /\ envelopes[i].volume = target /\ Genuine(envelopes[i])
         /\ last_seen_key < envelopes[i].key /\ envelopes[i].key <= keys
  BY <1>0, <1>1 DEF BatchInv
<1>9. ASSUME NEW n \in 1..keys, Dir(target)[n] \in Recognised
      PROVE  \E i \in DOMAIN C : C[i].volume = target /\ C[i].key = n
  <2>1. CASE n <= last_seen_key
    <3>1. last_completed_volume = baseline
      BY <1>1, <1>2, <2>1 DEF CursorInv
    <3>2. \E i \in DOMAIN sent : sent[i].volume = target /\ sent[i].key = n
      BY <1>1, <1>3, <1>9, <2>1, <3>1 DEF CursorInv, target
    <3> QED BY <1>4, <3>2
  <2>2. CASE n > last_seen_key
    <3>1. n \in (last_seen_key + 1)..keys
      BY <1>1, <2>2
    <3>2. \E i \in DOMAIN envelopes : envelopes[i].key = n
      BY <1>0, <1>1, <1>9, <3>1 DEF BatchInv
    <3> QED BY <1>4, <1>8, <3>2
  <2> QED BY <1>1, <2>1, <2>2
<1>10. ASSUME NEW i \in DOMAIN C, NEW j \in DOMAIN C, i < j
       PROVE  Before(C[i], C[j])
  <2>1. CASE j \in DOMAIN sent /\ C[j] = sent[j]
    <3>1. i \in DOMAIN sent /\ C[i] = sent[i]
      BY <1>1, <1>3, <1>4, <1>10, <2>1
    <3> QED BY <1>3, <1>10, <2>1, <3>1 DEF DeliveryInv, DeliveredOnceInOrder
  <2>2. CASE j > Len(sent) /\ j - Len(sent) \in DOMAIN envelopes /\ C[j] = envelopes[j - Len(sent)]
    <3>1. CASE i \in DOMAIN sent /\ C[i] = sent[i]
      <4>1. C[i].volume < target \/ (C[i].volume = target /\ C[i].key <= last_seen_key)
        BY <1>7, <3>1
      <4>2. C[j].volume = target /\ last_seen_key < C[j].key
        BY <1>8, <2>2
      <4>3. C[i].key \in Nat /\ C[j].key \in Nat
        BY <1>5
      <4> QED BY <1>1, <4>1, <4>2, <4>3 DEF Before
    <3>2. CASE i > Len(sent) /\ i - Len(sent) \in DOMAIN envelopes /\ C[i] = envelopes[i - Len(sent)]
      <4>1. i - Len(sent) < j - Len(sent)
        BY <1>1, <1>3, <1>10
      <4>2. envelopes[i - Len(sent)].key < envelopes[j - Len(sent)].key
        BY <1>0, <1>1, <2>2, <3>2, <4>1 DEF BatchInv
      <4> QED BY <1>8, <2>2, <3>2, <4>2 DEF Before
    <3> QED BY <1>4, <3>1, <3>2
  <2> QED BY <1>4, <2>1, <2>2
<1>11. ASSUME NEW i \in DOMAIN C, NEW n \in 1..(C[i].key - 1),
              Dir(C[i].volume)[n] \in Recognised
       PROVE  \E j \in DOMAIN C : C[j].volume = C[i].volume /\ C[j].key = n
  <2>1. CASE i \in DOMAIN sent /\ C[i] = sent[i]
    <3>1. \E j \in DOMAIN sent : sent[j].volume = sent[i].volume /\ sent[j].key = n
      BY <1>3, <1>11, <2>1 DEF DeliveryInv, DeliveredOnceInOrder
    <3> QED BY <1>4, <2>1, <3>1
  <2>2. CASE i - Len(sent) \in DOMAIN envelopes /\ C[i] = envelopes[i - Len(sent)]
    <3>1. C[i].volume = target /\ C[i].key <= keys
      BY <1>8, <2>2
    <3>2. n \in 1..keys
      BY <1>1, <1>5, <3>1
    <3> QED BY <1>9, <1>11, <3>1, <3>2
  <2> QED BY <1>4, <2>1, <2>2
<1>12. DeliveredOnceInOrder'
  BY <1>3, <1>6, <1>10, <1>11 DEF DeliveredOnceInOrder
<1>13. \A i \in DOMAIN C : Genuine(C[i])
  BY <1>4, <1>7, <1>8
<1>14. keys <= Len(Dir(target)) /\ seen_any_key_in_current_volume
  BY <1>0, <1>1 DEF BatchInv
<1>15. \A i \in DOMAIN C : C[i].volume < target \/ (C[i].volume = target /\ C[i].key <= keys)
  <2> SUFFICES ASSUME NEW i \in DOMAIN C
               PROVE  C[i].volume < target \/ (C[i].volume = target /\ C[i].key <= keys)
    OBVIOUS
  <2>1. CASE i \in DOMAIN sent /\ C[i] = sent[i]
    <3>1. last_seen_key <= keys
      BY <1>0, <1>1 DEF BatchInv
    <3> QED BY <1>1, <1>5, <1>7, <2>1, <3>1
  <2>2. CASE i - Len(sent) \in DOMAIN envelopes /\ C[i] = envelopes[i - Len(sent)]
    BY <1>8, <2>2
  <2> QED BY <1>4, <2>1, <2>2
<1>16. CASE SawEnd
  <2>1. last_completed_volume' = target /\ last_seen_key' = 0
    BY <1>16 DEF BatchComplete
  <2>2. target # None /\ Len(Dir(target + 1)) \in Nat
    BY <1>1, DirType, PollerAssumption
  <2>3. \A i \in DOMAIN C : C[i].volume < target + 1
    BY <1>1, <1>5, <1>15
  <2>4. CursorInv'
    BY <1>3, <1>6, <1>13, <2>1, <2>2, <2>3 DEF CursorInv
  <2>5. CoreTypes'
    BY <1>0, <1>1, <2>1 DEF CoreTypes
  <2> QED BY <1>0, <1>12, <2>4, <2>5 DEF EnvelopesInv, BatchInv
<1>17. CASE ~SawEnd
  <2>1. /\ last_completed_volume' = baseline /\ last_seen_key' = keys
        /\ seen_any_key_in_current_volume' = seen_any_key_in_current_volume
    BY <1>17 DEF BatchComplete
  <2>2. baseline + 1 = target
    BY DEF target
  <2>4. CursorInv'
    BY <1>1, <1>3, <1>6, <1>9, <1>13, <1>14, <1>15, <2>1, <2>2 DEF CursorInv
  <2>5. CoreTypes'
    BY <1>0, <1>1, <2>1 DEF CoreTypes
  <2> QED BY <1>0, <1>12, <2>4, <2>5 DEF EnvelopesInv, BatchInv
<1> QED BY <1>16, <1>17

(* Handing an envelope to the channel does not change what run is          *)
(* committed to.                                                           *)
LEMMA SendStep ==
    ASSUME DeliveryInv, Send
    PROVE  CoreTypes' /\ EnvelopesInv' /\ BatchInv' /\ CursorInv' /\ DeliveredOnceInOrder'
<1>0. /\ pc = "send" /\ bucket' = bucket /\ keys' = keys
      /\ UNCHANGED <<last_completed_volume, last_seen_key, seen_any_key_in_current_volume>>
  BY DEF Send, poller
<1>1. CoreTypes /\ sent \in Seq(Envelope) /\ envelopes \in Seq(Envelope)
  BY DEF DeliveryInv, CoreTypes
<1>2. CASE envelopes = <<>>
  <2>1. pc' = "tick" /\ envelopes' = <<>> /\ sent' = sent
    BY <1>2 DEF Send
  <2>2. CoreTypes'
    BY <1>0, <1>1, <2>1 DEF CoreTypes
  <2>3. sent \o <<>> = sent
    BY <1>1
  <2>4. Committed' = Committed
    BY <1>0, <1>2, <2>1, <2>3 DEF Committed
  <2> QED BY <1>0, <2>1, <2>2, <2>4, SamePlace DEF EnvelopesInv, BatchInv
<1>3. CASE envelopes # <<>>
  <2>1. pc' = pc /\ envelopes' = Tail(envelopes) /\ sent' = Append(sent, Head(envelopes))
    BY <1>3 DEF Send
  <2>2. Tail(envelopes) \in Seq(Envelope) /\ Head(envelopes) \in Envelope
    BY <1>1, <1>3
  <2>3. Append(sent, Head(envelopes)) \in Seq(Envelope)
    BY <1>1, <2>2
  <2>4. CoreTypes'
    BY <1>0, <1>1, <2>1, <2>2, <2>3 DEF CoreTypes
  <2>5. Append(sent, Head(envelopes)) \o Tail(envelopes) = sent \o envelopes
    BY <1>1, <1>3, <2>2, <2>3
  <2>6. Committed' = Committed
    BY <1>0, <2>1, <2>5 DEF Committed
  <2> QED BY <1>0, <2>1, <2>4, <2>6, SamePlace DEF EnvelopesInv, BatchInv
<1> QED BY <1>2, <1>3

(* An upload lengthens a directory and changes none of the keys in it.     *)
LEMMA UploadStep ==
    ASSUME DeliveryInv, NEW v \in Volumes, NEW k \in KeyKind, Upload(v, k)
    PROVE  CoreTypes' /\ EnvelopesInv' /\ BatchInv' /\ CursorInv' /\ DeliveredOnceInOrder'
<1>0. /\ bucket' = [bucket EXCEPT ![v] = Append(@, k)]
      /\ UNCHANGED <<last_completed_volume, last_seen_key, seen_any_key_in_current_volume,
                     pc, baseline, keys, envelopes, sent>>
  BY DEF Upload, poller, locals
<1>1. CoreTypes
  BY DEF DeliveryInv
<1>2. CoreTypes'
  BY <1>0, <1>1 DEF CoreTypes
<1>3. /\ Committed' = Committed /\ target' = target
      /\ baseline \in Nat /\ last_seen_key \in Nat /\ keys \in Nat
  BY <1>0, <1>1 DEF Committed, target, CoreTypes, DeliveryInv, AnchorInv
<1>4. ASSUME NEW w
      PROVE  /\ Len(Dir(w)) \in Nat /\ Len(Dir(w))' \in Nat
             /\ Len(Dir(w)) <= Len(Dir(w))'
             /\ DOMAIN Dir(w) = 1..Len(Dir(w)) /\ DOMAIN Dir(w)' = 1..Len(Dir(w))'
             /\ \A n \in 1..Len(Dir(w)) : Dir(w)'[n] = Dir(w)[n]
  <2>1. CASE w = v
    <3>1. bucket[v] \in Seq(KeyKind) /\ Dir(w) = bucket[v] /\ Dir(w)' = Append(bucket[v], k)
      BY <1>0, <1>1, <2>1 DEF CoreTypes, Dir
    <3> HIDE DEF Dir
    <3> QED BY <3>1
  <2>2. CASE w # v
    <3>1. Dir(w)' = Dir(w) /\ Dir(w) \in Seq(KeyKind)
      BY <1>0, <1>1, <2>2, DirType DEF CoreTypes, Dir
    <3> QED BY <3>1
  <2> QED BY <2>1, <2>2
<1>5. ASSUME NEW e, Genuine(e) PROVE Genuine(e)'
  BY <1>4, <1>5 DEF Genuine
<1>6. \A i \in DOMAIN Committed :
         /\ Genuine(Committed[i]) /\ Committed[i].volume \in Nat /\ Committed[i].key \in Nat
  BY <1>1, CommittedType, EnvelopeFields DEF DeliveryInv, CursorInv
<1>7. CursorInv'
  <2>1. CASE last_completed_volume = None
    BY <1>0, <1>3, <1>5, <2>1 DEF CursorInv, DeliveryInv
  <2>2. CASE last_completed_volume # None
    <3> DEFINE w == last_completed_volume + 1
    <3>1. last_seen_key <= Len(Dir(w))
      BY <2>2 DEF CursorInv, DeliveryInv
    <3>2. last_seen_key <= Len(Dir(w))'
      BY <1>0, <1>3, <1>4, <3>1
    <3>3. \A n \in 1..last_seen_key : Dir(w)'[n] = Dir(w)[n]
      BY <1>0, <1>3, <1>4, <3>1
    <3>4. \A n \in 1..last_seen_key : Dir(w)'[n] \in Recognised =>
             \E i \in DOMAIN Committed : Committed[i].volume = w /\ Committed[i].key = n
      BY <2>2, <3>3 DEF CursorInv, DeliveryInv
    <3>5. last_completed_volume' + 1 = w
      BY <1>0
    <3> QED BY <1>0, <1>3, <1>5, <1>6, <2>2, <3>2, <3>4, <3>5 DEF CursorInv, DeliveryInv
  <2> QED BY <2>1, <2>2
<1>8. DeliveredOnceInOrder'
  <2>1. ASSUME NEW i \in DOMAIN Committed, NEW n \in 1..(Committed[i].key - 1)
        PROVE  Dir(Committed[i].volume)'[n] = Dir(Committed[i].volume)[n]
    BY <1>3, <1>4, <1>6 DEF Genuine
  <2> QED BY <1>3, <2>1 DEF DeliveredOnceInOrder, DeliveryInv
<1>9. BatchInv'
  <2> SUFFICES ASSUME pc = "fetch" PROVE BatchInv'
    BY <1>0 DEF BatchInv
  <2>1. keys <= Len(Dir(target))
    BY DEF BatchInv, DeliveryInv
  <2>2. keys <= Len(Dir(target))'
    BY <1>3, <1>4, <2>1
  <2>3. \A n \in (last_seen_key + 1)..keys : Dir(target)'[n] = Dir(target)[n]
    BY <1>3, <1>4, <2>1
  <2>4. ToFetch' = ToFetch
    BY <1>0, <1>3, <2>3 DEF ToFetch
  <2> QED BY <1>0, <1>3, <1>5, <2>2, <2>3, <2>4 DEF BatchInv, DeliveryInv
<1> QED BY <1>0, <1>2, <1>7, <1>8, <1>9 DEF EnvelopesInv, DeliveryInv

(* The steps around the awaits of a poll hand nothing on.                  *)
LEMMA QuietStep ==
    ASSUME DeliveryInv,
           \/ Tick \/ ColdStart \/ EmptyPoll \/ AdvancePastStuckVolume \/ ShouldRelist
           \/ ReAnchor \/ NoGapFound \/ PollFailed
    PROVE  CoreTypes' /\ EnvelopesInv' /\ BatchInv' /\ CursorInv' /\ DeliveredOnceInOrder'
<1>1. /\ CoreTypes /\ EnvelopesInv /\ baseline \in Nat /\ target \in Nat
      /\ keys \in Nat /\ last_seen_key \in Nat
  BY DEF DeliveryInv, CoreTypes, AnchorInv, target
<1>2. /\ pc \notin {"send", "done"} /\ envelopes' = <<>>
      /\ bucket' = bucket /\ sent' = sent /\ keys' \in Nat
      /\ pc' \in {"tick", "cold", "keys", "relist", "send"}
      /\ last_seen_key' \in {0, last_seen_key}
  <2>1. CASE Tick \/ ColdStart
    BY <1>1, <2>1 DEF Tick, ColdStart, poller, EnvelopesInv
  <2>2. CASE EmptyPoll \/ AdvancePastStuckVolume
    BY <1>1, <2>2 DEF EmptyPoll, AdvancePastStuckVolume, NoKeyListed, Anchor, PollOk, EndPoll
  <2>3. CASE ShouldRelist
    BY <1>1, <2>3 DEF ShouldRelist, NoKeyListed, locals, EnvelopesInv
  <2>4. CASE ReAnchor \/ NoGapFound
    BY <1>1, <2>4 DEF ReAnchor, NoGapFound, Anchor, PollOk, EndPoll
  <2>5. CASE PollFailed
    BY <1>1, <2>5 DEF PollFailed, EndPoll
  <2> QED BY <2>1, <2>2, <2>3, <2>4, <2>5
<1>3. CoreTypes' /\ EnvelopesInv' /\ BatchInv' /\ Committed' = Committed
  BY <1>1, <1>2, NothingHandedOn
<1>4. CASE Tick \/ ColdStart \/ NoGapFound \/ PollFailed
  <2>1. UNCHANGED <<last_completed_volume, last_seen_key, seen_any_key_in_current_volume>>
    BY <1>4 DEF Tick, ColdStart, NoGapFound, PollFailed, poller
  <2> QED BY <1>2, <1>3, <2>1, SamePlace
<1>5. CASE EmptyPoll \/ ShouldRelist
  <2>1. /\ Polling /\ last_completed_volume' = baseline /\ last_seen_key' = last_seen_key
        /\ seen_any_key_in_current_volume' = seen_any_key_in_current_volume
    BY <1>5 DEF EmptyPoll, ShouldRelist, NoKeyListed, Polling
  <2> QED BY <1>2, <1>3, <2>1, SameVolume
<1>6. ASSUME NEW v \in Nat, Polling, v > target, Anchor(v)
      PROVE  CursorInv' /\ DeliveredOnceInOrder'
  <2>1. /\ last_seen_key' = 0
        /\ last_completed_volume' \in Nat /\ last_completed_volume' > baseline
    BY <1>1, <1>6 DEF Anchor, target
  <2> QED BY <1>2, <1>3, <1>6, <2>1, NextPlace
<1>7. CASE AdvancePastStuckVolume
  <2>1. Polling /\ Anchor(target + 1) /\ target + 1 \in Nat /\ target + 1 > target
    BY <1>1, <1>7 DEF AdvancePastStuckVolume, NoKeyListed, Polling
  <2> QED BY <1>3, <1>6, <2>1
<1>8. CASE ReAnchor
  <2> DEFINE v == ReanchorCandidate(target, Newest)
  <2>1. Polling /\ Anchor(v) /\ v > target
    BY <1>8 DEF ReAnchor, Polling
  <2>2. v \in Nat
    BY <1>1, NewestType DEF ReanchorCandidate
  <2> HIDE DEF v
  <2> QED BY <1>3, <1>6, <2>1, <2>2
<1> QED BY <1>3, <1>4, <1>5, <1>7, <1>8

(* Each step of the poller, of the bucket and of a failing request keeps   *)
(* the account of what was delivered.                                      *)
LEMMA DeliveryStep ==
    ASSUME DeliveryInv, [Next]_vars
    PROVE  DeliveryInv'
<1>0. AnchorInv'
  BY AnchorStep DEF DeliveryInv
<1> DEFINE Rest == CoreTypes /\ EnvelopesInv /\ BatchInv /\ CursorInv /\ DeliveredOnceInOrder
<1> SUFFICES Rest'
  BY <1>0 DEF DeliveryInv
<1>1. CASE \/ Tick \/ ColdStart \/ EmptyPoll \/ AdvancePastStuckVolume \/ ShouldRelist
           \/ ReAnchor \/ NoGapFound \/ PollFailed
  BY <1>1, QuietStep
<1>2. CASE ListSomeKeys
  BY <1>2, ListStep
<1>3. CASE Fetch
  BY <1>3, FetchStep
<1>4. CASE BatchComplete
  BY <1>4, BatchStep
<1>5. CASE Send
  BY <1>5, SendStep
<1>6. CASE Return
  <2>1. /\ bucket' = bucket /\ sent' = sent /\ envelopes' = envelopes /\ keys' = keys
        /\ UNCHANGED <<last_completed_volume, last_seen_key, seen_any_key_in_current_volume>>
        /\ pc \in {"tick", "send"} /\ pc' = "done"
    BY <1>6 DEF Return, poller, locals
  <2>2. CoreTypes'
    BY <2>1 DEF DeliveryInv, CoreTypes
  <2>3. Committed' = Committed
    <3>1. CASE pc = "send"
      BY <2>1, <3>1 DEF Committed
    <3>2. CASE pc = "tick"
      <4>1. envelopes = <<>> /\ sent \o <<>> = sent
        BY <3>2 DEF DeliveryInv, EnvelopesInv, CoreTypes
      <4> QED BY <2>1, <3>2, <4>1 DEF Committed
    <3> QED BY <2>1, <3>1, <3>2
  <2> QED BY <2>1, <2>2, <2>3, SamePlace DEF EnvelopesInv, BatchInv
<1>7. ASSUME NEW v \in Volumes, NEW k \in UploadedKinds[v], Upload(v, k) PROVE Rest'
  <2>1. k \in KeyKind
    BY PollerAssumption DEF Volumes
  <2> QED BY <1>7, <2>1, UploadStep
<1>8. CASE UNCHANGED vars
  <2>1. UNCHANGED <<bucket, last_completed_volume, last_seen_key, sent, envelopes, pc,
                    seen_any_key_in_current_volume, keys, baseline>>
    BY <1>8 DEF vars, poller, locals
  <2>2. CoreTypes' /\ EnvelopesInv' /\ Committed' = Committed
    BY <2>1 DEF DeliveryInv, CoreTypes, EnvelopesInv, Committed
  <2>3. (\A v : Dir(v)' = Dir(v)) /\ target' = target
    BY <2>1 DEF Dir, target
  <2>4. ToFetch' = ToFetch /\ \A e : Genuine(e)' <=> Genuine(e)
    BY <2>1, <2>3 DEF ToFetch, Genuine
  <2>5. BatchInv'
    BY <2>1, <2>3, <2>4 DEF DeliveryInv, BatchInv
  <2> QED BY <2>1, <2>2, <2>5, SamePlace
<1> HIDE DEF Rest
<1> QED BY <1>1, <1>2, <1>3, <1>4, <1>5, <1>6, <1>7, <1>8 DEF Next, Poll

(* At the start nothing was delivered and there is no cursor.              *)
LEMMA DeliveryInit == Init => DeliveryInv
<1> SUFFICES ASSUME Init PROVE DeliveryInv
  OBVIOUS
<1>1. CoreTypes
  BY DEF Init, CoreTypes
<1>2. Committed = <<>>
  BY DEF Init, Committed
<1> QED BY <1>1, <1>2, AnchorInit DEF Init, DeliveryInv, EnvelopesInv, BatchInv, CursorInv,
          DeliveredOnceInOrder

(* The account holds in every reachable state.                             *)
LEMMA DeliveryInvariant == Spec => []DeliveryInv
<1>1. DeliveryInv /\ UNCHANGED vars => DeliveryInv'
  BY DeliveryStep
<1> QED BY DeliveryInit, DeliveryStep, <1>1, PTL DEF Spec

(* Assembly is handed every chunk at most once, in bucket order and        *)
(* without a hole inside a volume, however often and wherever requests     *)
(* fail (poll_once, run).                                                  *)
THEOREM ChunksAreDeliveredOnceInOrder == Spec => []DeliveredOnceInOrder
<1>1. DeliveryInv => DeliveredOnceInOrder
  BY DEF DeliveryInv
<1> QED BY <1>1, DeliveryInvariant, PTL

(* Between polls last_seen_key and last_completed_volume say exactly what  *)
(* was delivered of the volume being followed (poll_once).                 *)
THEOREM CursorTellsTheTruth == Spec => []CursorIsExact
<1>1. ASSUME DeliveryInv PROVE CursorIsExact
  <2> SUFFICES ASSUME pc = "tick", last_completed_volume # None
               PROVE  CursorIsExact
    BY DEF CursorIsExact
  <2> DEFINE v == last_completed_volume + 1
  <2>1. /\ Committed = sent /\ sent \in Seq(Envelope)
        /\ v \in Nat /\ last_seen_key \in Nat
    BY <1>1 DEF DeliveryInv, CoreTypes, AnchorInv, Committed
  <2>2. \A i \in DOMAIN sent : sent[i].volume \in Nat /\ sent[i].key \in Nat
    BY <2>1, EnvelopeFields
  <2>3. /\ last_seen_key <= Len(Dir(v))
        /\ \A i \in DOMAIN sent :
              /\ sent[i].volume < v \/ (sent[i].volume = v /\ sent[i].key <= last_seen_key)
              /\ Genuine(sent[i])
        /\ \A n \in 1..last_seen_key : Dir(v)[n] \in Recognised =>
              \E i \in DOMAIN sent : sent[i].volume = v /\ sent[i].key = n
        /\ last_seen_key # 0 => seen_any_key_in_current_volume
    BY <1>1, <2>1 DEF DeliveryInv, CursorInv
  <2>4. Dir(v) \in Seq(KeyKind)
    BY <1>1, DirType DEF DeliveryInv
  <2> HIDE DEF v
  <2>5. \A i \in DOMAIN sent : sent[i].volume <= v
    BY <2>1, <2>2, <2>3
  <2>6. ASSUME NEW i \in DOMAIN sent, sent[i].volume = v
        PROVE  /\ sent[i].key \in DOMAIN Dir(v) /\ sent[i].key <= last_seen_key
               /\ Dir(v)[sent[i].key] \in Recognised
    BY <2>1, <2>3, <2>6 DEF Genuine
  <2>7. ASSUME NEW n \in DOMAIN Dir(v), n <= last_seen_key, Dir(v)[n] \in Recognised
        PROVE  \E i \in DOMAIN sent : sent[i].volume = v /\ sent[i].key = n
    <3>1. n \in 1..last_seen_key
      BY <2>1, <2>4, <2>7
    <3> QED BY <2>3, <2>7, <3>1
  <2>8. {sent[i].key : i \in {j \in DOMAIN sent : sent[j].volume = v}} =
          {n \in DOMAIN Dir(v) : n <= last_seen_key /\ Dir(v)[n] \in Recognised}
    BY <2>6, <2>7
  <2> QED BY <2>3, <2>5, <2>8 DEF CursorIsExact, v
<1> QED BY <1>1, DeliveryInvariant, PTL

(* "Never re-anchor backwards": by completion, re-anchoring or giving up a *)
(* stuck volume, the poller goes only forward (poll_once, apply_recovery,  *)
(* next_target).                                                           *)
THEOREM NeverAnchorsBackwards == Spec => TargetNeverRetreats
<1>1. Init => AnchorInv BY AnchorInit
<1>2. AnchorInv /\ [Next]_vars => AnchorInv' BY AnchorStep
<1>3. AnchorInv /\ [Next]_vars =>
        [last_completed_volume # None =>
           /\ last_completed_volume' # None
           /\ last_completed_volume' >= last_completed_volume]_vars
  BY AnchorStep DEF Advances
<1> QED BY <1>1, <1>2, <1>3, PTL DEF Spec, TargetNeverRetreats
=============================================================================
