--------------------------- MODULE HttpClientProofs ---------------------------
(***************************************************************************)
(* A request is repeated only while nothing of an answer to it was read; a *)
(* success returns the content of the request's own answer, whole; and a   *)
(* connection that is kept is clean.  For any limits, any number of        *)
(* requests and any server that frames its answers as ServerAssumption     *)
(* says, however the bytes arrive and whenever it closes.                  *)
(***************************************************************************)
EXTENDS HttpClient, TLAPS, SequenceTheorems

Waiting == pc \in {"connect", "write"}
Reading == pc \in {"head", "body"}

(* RetriedOnlyUnanswered is about the step that writes again, long after   *)
(* the decision to retry.  It needs that nothing was heard on the way to a *)
(* write, and that any_bytes, on which send decides, misses no byte of an  *)
(* answer while one is being read.                                         *)
RetryInv ==
    /\ tries \in Nat
    /\ pc \in {"idle", "connect", "write", "head", "body"}
    /\ Waiting => ~heard
    /\ Reading /\ heard => any_bytes

(* The initial state satisfies the invariant: no request has been made.    *)
LEMMA RetryInit == Init => RetryInv
BY DEF Init, RetryInv, Waiting, Reading

(* send returning, by whatever error, leaves no request that could be      *)
(* written again.                                                          *)
LEMMA FailedKeepsRetryInv ==
    ASSUME RetryInv, NEW error, Failed(error)
    PROVE  RetryInv' /\ tries' = tries
BY DEF Failed, Finish, RetryInv, Waiting, Reading

(* A closed connection is retried only if the caller knows that nothing    *)
(* was heard on it, and the new attempt counts as the second.              *)
LEMMA ClosedEmptyKeepsRetryInv ==
    ASSUME RetryInv, ~heard, NEW attempt, ClosedEmpty(attempt)
    PROVE  RetryInv' /\ (tries' = tries \/ tries' = 1)
BY DEF ClosedEmpty, Retry, Failed, Finish, RetryInv, Waiting, Reading

(* A step of the client other than Write does not reach a second attempt,  *)
(* and every step keeps the invariant.                                     *)
LEMMA RetryStep ==
    ASSUME RetryInv, [Next]_vars
    PROVE  /\ RetryInv'
           /\ (tries = 1 /\ tries' = 2) => ~heard
<1>1. CASE Request
  BY <1>1 DEF Request, RetryInv, Waiting, Reading
<1>2. CASE Send
  <2>1. CASE Connect
    BY <2>1 DEF Connect, RetryInv, Waiting, Reading
  <2>2. CASE ConnectFails
    BY <2>2 DEF ConnectFails, Finish, RetryInv, Waiting, Reading
  <2>3. CASE Write
    <3>1. ~heard BY <2>3 DEF Write, RetryInv, Waiting
    <3>2. RetryInv' BY <2>3, <3>1 DEF Write, RetryInv, Waiting, Reading
    <3> QED BY <3>1, <3>2
  <2>4. CASE WriteFails
    <3>1. ~heard /\ ClosedEmpty(tries + 1) BY <2>4 DEF WriteFails, RetryInv, Waiting
    <3> QED BY <3>1, ClosedEmptyKeepsRetryInv
  <2>5. CASE ReadHead
    <3>1. CASE \E e : Failed(e)
      BY <3>1, FailedKeepsRetryInv
    <3>2. CASE pc' = "body" /\ UNCHANGED <<tries, any_bytes, server>>
      BY <2>5, <3>2 DEF ReadHead, server, RetryInv, Waiting, Reading
    <3> QED BY <2>5, <3>1, <3>2 DEF ReadHead
  <2>6. CASE BodyTooLarge
    BY <2>6, FailedKeepsRetryInv DEF BodyTooLarge
  <2>7. ASSUME NEW body, NEW rest, Complete(body, rest) PROVE RetryInv' /\ tries' = tries
    BY <2>7 DEF Complete, Finish, RetryInv, Waiting, Reading
  <2>8. CASE ReadExactBody
    BY <2>7, <2>8 DEF ReadExactBody
  <2>9. CASE ReadChunk
    <3>1. CASE Failed("Protocol")
      BY <3>1, FailedKeepsRetryInv
    <3>2. CASE \E rest : Complete(out, rest)
      BY <3>2, <2>7
    <3>3. CASE UNCHANGED <<pc, tries, any_bytes, server>>
      BY <3>3 DEF server, RetryInv, Waiting, Reading
    <3> QED BY <2>9, <3>1, <3>2, <3>3 DEF ReadChunk
  <2>10. CASE EndOfStream
    <3>1. CASE any_bytes
      BY <2>10, <3>1, FailedKeepsRetryInv DEF EndOfStream
    <3>2. CASE ~any_bytes
      <4>1. ~heard BY <2>10, <3>2 DEF EndOfStream, Starved, RetryInv, Reading
      <4>2. ClosedEmpty(tries) BY <2>10, <3>2 DEF EndOfStream
      <4> QED BY <4>1, <4>2, ClosedEmptyKeepsRetryInv
    <3> QED BY <3>1, <3>2
  <2>11. CASE TimedOut
    BY <2>11, FailedKeepsRetryInv DEF TimedOut
  <2>12. ASSUME NEW n \in 1..Len(outbox), ReadMore(n) PROVE RetryInv' /\ tries' = tries
    <3>1. Reading /\ pc' = pc /\ any_bytes' /\ tries' = tries
      BY <2>12 DEF ReadMore, Starved, Reading
    <3> QED BY <3>1 DEF RetryInv, Waiting, Reading
  <2> QED BY <1>2, <2>1, <2>2, <2>3, <2>4, <2>5, <2>6, <2>8, <2>9, <2>10, <2>11, <2>12 DEF Send
<1>3. CASE Serve
  <2>1. UNCHANGED <<client, heard>> BY <1>3 DEF Serve, Answer, Close
  <2> QED BY <2>1 DEF client, RetryInv, Waiting, Reading
<1>4. CASE UNCHANGED vars
  BY <1>4 DEF vars, client, server, RetryInv, Waiting, Reading
<1> QED BY <1>1, <1>2, <1>3, <1>4 DEF Next

(* A request goes out a second time only if no byte of an answer to it was *)
(* read (S3Client::send, Connection::round_trip): "this cannot             *)
(* double-deliver" holds for every server and every limit.                 *)
THEOREM NoRetryAfterAnswer == Spec => RetriedOnlyUnanswered
<1>1. Init => RetryInv BY RetryInit
<1>2. RetryInv /\ [Next]_vars => RetryInv' BY RetryStep
<1>3. RetryInv /\ [Next]_vars => [(tries = 1 /\ tries' = 2) => ~heard]_vars
  BY RetryStep
<1> QED BY <1>1, <1>2, <1>3, PTL DEF Spec, RetriedOnlyUnanswered

-----------------------------------------------------------------------------
(* The wire *)

Token ==
    [type : {"head"}, req : Nat]
    \cup [type : {"headend"}, req : Nat, response : Responses]
    \cup [type : {"data", "size", "crlf"}, n : Nat, req : Nat]

(* T is the head and the body of r, token by token.                        *)
Written(T, r) ==
    /\ T \in Seq(Token) /\ Len(T) = r.head_len + Len(r.body)
    /\ Len(r.body) \in Nat /\ r.head_len \in Nat \ {0}
    /\ \A i \in 1..(r.head_len - 1) : T[i].type = "head"
    /\ T[r.head_len].type = "headend" /\ T[r.head_len].response = r
    /\ \A i \in 1..Len(r.body) :
          /\ T[r.head_len + i].type = r.body[i].type
          /\ T[r.head_len + i].n = r.body[i].n
          /\ r.body[i].type \in {"data", "size", "crlf"} /\ r.body[i].n \in Nat

(* Positions of the body after those of the head.                          *)
LEMMA AfterHead ==
    ASSUME NEW h \in Nat \ {0}, NEW m \in Nat, NEW i \in 1..m, NEW j, j = h + i
    PROVE  j \in 1..(h + m) /\ ~(j < h) /\ j # h /\ j - h = i
OBVIOUS

LEMMA LongerRange ==
    ASSUME NEW p \in Nat, NEW q \in Nat, p <= q, NEW i \in 1..p
    PROVE  i \in 1..q
OBVIOUS

(* What the server writes for a request.                                   *)
LEMMA TokensAre ==
    ASSUME NEW n \in Nat, NEW r \in Responses
    PROVE  Written(Tokens(n, r), r)
<1>0. PICK T : T = Tokens(n, r)
  OBVIOUS
<1>1. PICK h \in Nat \ {0} : h = r.head_len
  BY ServerAssumption
<1>2. PICK body \in Seq([type : {"data", "size", "crlf"}, n : Nat]) : body = r.body
  BY ServerAssumption
<1>3. PICK m \in Nat : m = Len(body)
  OBVIOUS
<1>4. \A i \in 1..m : body[i] \in [type : {"data", "size", "crlf"}, n : Nat]
  <2>1. PICK S : S = [type : {"data", "size", "crlf"}, n : Nat]
    OBVIOUS
  <2>2. body \in Seq(S)
    BY <1>2, <2>1
  <2>3. \A i \in 1..m : body[i] \in S
    BY <1>3, <2>2
  <2> QED BY <2>1, <2>3
<1>5. T = [i \in 1..(h + m) |->
             IF i < h THEN [type |-> "head", req |-> n]
             ELSE IF i = h THEN [type |-> "headend", req |-> n, response |-> r]
             ELSE [type |-> body[i - h].type, n |-> body[i - h].n, req |-> n]]
  BY <1>0, <1>1, <1>2, <1>3 DEF Tokens
<1>6. ASSUME NEW i \in 1..(h + m) PROVE T[i] \in Token
  <2>1. CASE i < h
    <3>1. T[i] = [type |-> "head", req |-> n] BY <1>5, <2>1
    <3> QED BY <3>1 DEF Token
  <2>2. CASE i = h
    <3>1. T[i] = [type |-> "headend", req |-> n, response |-> r] BY <1>5, <2>2
    <3> QED BY <3>1 DEF Token
  <2>3. CASE i > h
    <3>1. i - h \in 1..m BY <1>1, <1>3, <2>3
    <3>2. T[i] = [type |-> body[i - h].type, n |-> body[i - h].n, req |-> n]
      BY <1>5, <2>3
    <3>3. body[i - h].type \in {"data", "size", "crlf"} /\ body[i - h].n \in Nat
      BY <1>4, <3>1
    <3> QED BY <3>2, <3>3 DEF Token
  <2> QED BY <2>1, <2>2, <2>3, <1>1
<1>7. T \in Seq(Token) /\ Len(T) = h + m
  <2>1. h + m \in Nat OBVIOUS
  <2>2. T \in [1..(h + m) -> Token] BY <1>5, <1>6
  <2> QED BY <2>1, <2>2
<1>8. \A i \in 1..(h - 1) : T[i].type = "head"
  BY <1>1, <1>3, <1>5
<1>9. T[h].type = "headend" /\ T[h].response = r
  BY <1>1, <1>3, <1>5
<1>10. ASSUME NEW i \in 1..m PROVE T[h + i].type = body[i].type /\ T[h + i].n = body[i].n
  <2>1. PICK j : j = h + i
    OBVIOUS
  <2>2. j \in 1..(h + m) /\ ~(j < h) /\ j # h /\ j - h = i
    BY <2>1, AfterHead
  <2>3. T[j] = [type |-> body[i].type, n |-> body[i].n, req |-> n]
    BY <1>5, <2>2
  <2> QED BY <2>1, <2>3
<1>11. Written(T, r)
  BY <1>1, <1>2, <1>3, <1>4, <1>7, <1>8, <1>9, <1>10 DEF Written
<1> QED BY <1>0, <1>11

(* The read buffer rb and what is on its way ob are what follows the first *)
(* p tokens of T, as far as it was not lost.                               *)
Window(T, p, rb, ob) ==
    /\ p \in Nat /\ p + Len(rb) + Len(ob) <= Len(T)
    /\ \A i \in 1..Len(rb) : rb[i] = T[p + i]
    /\ \A i \in 1..Len(ob) : ob[i] = T[p + Len(rb) + i]

LEMMA SubSeqOf ==
    ASSUME NEW S, NEW s \in Seq(S), NEW m \in Nat \ {0}, NEW n \in 0..Len(s), m <= n + 1
    PROVE  /\ SubSeq(s, m, n) \in Seq(S) /\ Len(SubSeq(s, m, n)) = n - m + 1
           /\ \A i \in 1..(n - m + 1) : SubSeq(s, m, n)[i] = s[m + i - 1]
<1>1. \A i \in m..n : s[i] \in S
  OBVIOUS
<1>2. m \in Int /\ n \in Int
  OBVIOUS
<1>3. /\ SubSeq(s, m, n) \in Seq(S)
      /\ Len(SubSeq(s, m, n)) = IF m <= n THEN n - m + 1 ELSE 0
      /\ \A i \in 1..n - m + 1 : SubSeq(s, m, n)[i] = s[m + i - 1]
  BY <1>1, <1>2, SubSeqProperties
<1> QED BY <1>3

(* read_more moves tokens from the network into the buffer.                *)
LEMMA WindowRead ==
    ASSUME NEW T \in Seq(Token), NEW p, NEW rb \in Seq(Token), NEW ob \in Seq(Token),
           Window(T, p, rb, ob), NEW n \in 1..Len(ob)
    PROVE  /\ rb \o SubSeq(ob, 1, n) \in Seq(Token) /\ SubSeq(ob, n + 1, Len(ob)) \in Seq(Token)
           /\ Window(T, p, rb \o SubSeq(ob, 1, n), SubSeq(ob, n + 1, Len(ob)))
<1>1. Len(rb) \in Nat /\ Len(ob) \in Nat /\ Len(T) \in Nat /\ p \in Nat
  BY DEF Window
<1>2. PICK a : a = SubSeq(ob, 1, n)
  OBVIOUS
<1>3. PICK z : z = SubSeq(ob, n + 1, Len(ob))
  OBVIOUS
<1>4. a \in Seq(Token) /\ Len(a) = n /\ \A i \in 1..n : a[i] = ob[i]
  BY <1>1, <1>2, SubSeqOf
<1>5. /\ z \in Seq(Token) /\ Len(z) = Len(ob) - n
      /\ \A i \in 1..(Len(ob) - n) : z[i] = ob[n + i]
  <2>1. n + 1 \in Nat \ {0} /\ Len(ob) \in 0..Len(ob) /\ n + 1 <= Len(ob) + 1
    BY <1>1
  <2>2. /\ z \in Seq(Token) /\ Len(z) = Len(ob) - (n + 1) + 1
        /\ \A i \in 1..(Len(ob) - (n + 1) + 1) : z[i] = ob[(n + 1) + i - 1]
    BY <1>3, <2>1, SubSeqOf
  <2>3. Len(ob) - (n + 1) + 1 = Len(ob) - n /\ \A i \in 1..(Len(ob) - n) : (n + 1) + i - 1 = n + i
    BY <1>1
  <2> QED BY <2>2, <2>3
<1>6. PICK c : c = rb \o a
  OBVIOUS
<1>7. /\ c \in Seq(Token) /\ Len(c) = Len(rb) + n
      /\ \A i \in 1..(Len(rb) + n) : c[i] = IF i <= Len(rb) THEN rb[i] ELSE a[i - Len(rb)]
  <2>1. /\ rb \o a \in Seq(Token) /\ Len(rb \o a) = Len(rb) + Len(a)
        /\ \A i \in 1..Len(rb) + Len(a) :
              (rb \o a)[i] = IF i <= Len(rb) THEN rb[i] ELSE a[i - Len(rb)]
    <3> HIDE DEF Token
    <3> QED BY <1>4, ConcatProperties
  <2>2. /\ c \in Seq(Token) /\ Len(c) = Len(rb) + Len(a)
        /\ \A i \in 1..Len(rb) + Len(a) :
              c[i] = IF i <= Len(rb) THEN rb[i] ELSE a[i - Len(rb)]
    BY <1>6, <2>1
  <2>3. Len(a) = n
    BY <1>4
  <2> QED BY <2>2, <2>3
<1>8. ASSUME NEW i \in 1..Len(c) PROVE c[i] = T[p + i]
  <2>1. CASE i <= Len(rb)
    <3>1. i \in 1..Len(rb) /\ c[i] = rb[i]
      BY <1>1, <1>7, <2>1
    <3> QED BY <3>1 DEF Window
  <2>2. CASE i > Len(rb)
    <3>1. PICK j \in 1..n : j = i - Len(rb)
      <4>1. i - Len(rb) \in 1..n
        BY <1>1, <1>7, <2>2
      <4> QED BY <4>1
    <3>2. c[i] = a[j]
      BY <1>1, <1>7, <2>2, <3>1
    <3>3. a[j] = ob[j] /\ j \in 1..Len(ob)
      BY <1>1, <1>4, <3>1
    <3>4. ob[j] = T[p + Len(rb) + j]
      BY <3>3 DEF Window
    <3>5. p + Len(rb) + j = p + i
      BY <1>1, <3>1
    <3> QED BY <3>2, <3>3, <3>4, <3>5
  <2> QED BY <1>1, <1>7, <2>1, <2>2
<1>9. ASSUME NEW i \in 1..Len(z) PROVE z[i] = T[p + Len(c) + i]
  <2>1. z[i] = ob[n + i] /\ n + i \in 1..Len(ob)
    BY <1>1, <1>5
  <2>2. ob[n + i] = T[p + Len(rb) + (n + i)]
    BY <2>1 DEF Window
  <2>3. p + Len(rb) + (n + i) = p + Len(c) + i
    BY <1>1, <1>7, <1>5
  <2> QED BY <2>1, <2>2, <2>3
<1>10. p + Len(c) + Len(z) <= Len(T)
  BY <1>1, <1>5, <1>7 DEF Window
<1> QED BY <1>1, <1>2, <1>3, <1>5, <1>6, <1>7, <1>8, <1>9, <1>10 DEF Window

(* advance and split_to take tokens from the front of the buffer.          *)
LEMMA WindowTake ==
    ASSUME NEW T \in Seq(Token), NEW p, NEW rb \in Seq(Token), NEW ob \in Seq(Token),
           Window(T, p, rb, ob), NEW m \in 0..Len(rb)
    PROVE  /\ SubSeq(rb, m + 1, Len(rb)) \in Seq(Token)
           /\ Len(SubSeq(rb, m + 1, Len(rb))) = Len(rb) - m
           /\ Window(T, p + m, SubSeq(rb, m + 1, Len(rb)), ob)
<1>1. Len(rb) \in Nat /\ Len(ob) \in Nat /\ Len(T) \in Nat /\ p \in Nat
  BY DEF Window
<1>2. PICK z : z = SubSeq(rb, m + 1, Len(rb))
  OBVIOUS
<1>3. /\ z \in Seq(Token) /\ Len(z) = Len(rb) - m
      /\ \A i \in 1..(Len(rb) - m) : z[i] = rb[m + i]
  <2>1. m + 1 \in Nat \ {0} /\ Len(rb) \in 0..Len(rb) /\ m + 1 <= Len(rb) + 1
    BY <1>1
  <2>2. /\ z \in Seq(Token) /\ Len(z) = Len(rb) - (m + 1) + 1
        /\ \A i \in 1..(Len(rb) - (m + 1) + 1) : z[i] = rb[(m + 1) + i - 1]
    <3>1. PICK a \in Nat \ {0}, l \in 0..Len(rb) : a = m + 1 /\ l = Len(rb) /\ a <= l + 1
      BY <2>1
    <3>2. /\ SubSeq(rb, a, l) \in Seq(Token) /\ Len(SubSeq(rb, a, l)) = l - a + 1
          /\ \A i \in 1..(l - a + 1) : SubSeq(rb, a, l)[i] = rb[a + i - 1]
      BY <3>1, SubSeqOf
    <3> QED BY <1>2, <3>1, <3>2
  <2>3. Len(rb) - (m + 1) + 1 = Len(rb) - m /\ \A i \in 1..(Len(rb) - m) : (m + 1) + i - 1 = m + i
    BY <1>1
  <2> QED BY <2>2, <2>3
<1>4. ASSUME NEW i \in 1..Len(z) PROVE z[i] = T[(p + m) + i]
  <2>0. i \in 1..(Len(rb) - m)
    BY <1>3
  <2>1. z[i] = rb[m + i] /\ m + i \in 1..Len(rb)
    <3>1. z[i] = rb[m + i] BY <1>3, <2>0
    <3>2. m + i \in 1..Len(rb) BY <1>1, <2>0
    <3> QED BY <3>1, <3>2
  <2>2. p + (m + i) = (p + m) + i
    BY <1>1
  <2>3. rb[m + i] = T[p + (m + i)]
    BY <2>1 DEF Window
  <2> QED BY <2>1, <2>2, <2>3
<1>5. ASSUME NEW i \in 1..Len(ob) PROVE ob[i] = T[(p + m) + Len(z) + i]
  <2>1. ob[i] = T[p + Len(rb) + i] /\ p + Len(rb) + i = (p + m) + Len(z) + i
    BY <1>1, <1>3 DEF Window
  <2> QED BY <2>1
<1>6. p + m \in Nat /\ (p + m) + Len(z) + Len(ob) <= Len(T)
  BY <1>1, <1>3 DEF Window
<1> QED BY <1>2, <1>3, <1>4, <1>5, <1>6 DEF Window

(* A connection that breaks loses the end of what was under way.           *)
LEMMA WindowCut ==
    ASSUME NEW T \in Seq(Token), NEW p, NEW rb \in Seq(Token), NEW ob \in Seq(Token),
           Window(T, p, rb, ob), NEW n \in 0..Len(ob)
    PROVE  SubSeq(ob, 1, n) \in Seq(Token) /\ Window(T, p, rb, SubSeq(ob, 1, n))
<1>1. Len(rb) \in Nat /\ Len(ob) \in Nat /\ Len(T) \in Nat /\ p \in Nat
  BY DEF Window
<1>2. PICK a : a = SubSeq(ob, 1, n)
  OBVIOUS
<1>3. a \in Seq(Token) /\ Len(a) = n /\ \A i \in 1..n : a[i] = ob[i]
  BY <1>1, <1>2, SubSeqOf
<1>4. n <= Len(ob) /\ n \in Nat
  BY <1>1
<1>5. \A i \in 1..n : i \in 1..Len(ob)
  BY <1>1
<1> QED BY <1>1, <1>2, <1>3, <1>4, <1>5 DEF Window

(* Tokens that are no content add nothing.                                 *)
LEMMA DataSkip ==
    ASSUME NEW T, NEW data, NEW p \in Nat, NEW q \in Nat, p <= q, IsDataOf(data, T, p),
           \A i \in (p + 1)..q : T[i].type # "data"
    PROVE  IsDataOf(data, T, q)
<1>1. PICK f \in [DOMAIN data -> 1..p] :
          /\ \A i, j \in DOMAIN data : i < j => f[i] < f[j]
          /\ {f[i] : i \in DOMAIN data} = {i \in 1..p : T[i].type = "data"}
          /\ \A i \in DOMAIN data : data[i] = T[f[i]]
  BY DEF IsDataOf
<1>2. 1..p \subseteq 1..q
  OBVIOUS
<1>3. f \in [DOMAIN data -> 1..q]
  BY <1>2
<1>4. {i \in 1..p : T[i].type = "data"} = {i \in 1..q : T[i].type = "data"}
  <2>1. \A i \in 1..q : i \in 1..p \/ i \in (p + 1)..q
    OBVIOUS
  <2> QED BY <1>2, <2>1
<1>5. {f[i] : i \in DOMAIN data} = {i \in 1..q : T[i].type = "data"}
  BY <1>1, <1>4
<1> QED BY <1>1, <1>3, <1>5 DEF IsDataOf

(* Content is added at the end.                                            *)
LEMMA DataAppend ==
    ASSUME NEW T, NEW data \in Seq(Token), NEW p \in Nat, NEW q \in Nat, p <= q,
           IsDataOf(data, T, p), NEW chunk \in Seq(Token), Len(chunk) = q - p,
           \A i \in 1..Len(chunk) : chunk[i] = T[p + i],
           \A i \in (p + 1)..q : T[i].type = "data"
    PROVE  data \o chunk \in Seq(Token) /\ IsDataOf(data \o chunk, T, q)
<1>1. PICK f \in [DOMAIN data -> 1..p] :
          /\ \A i, j \in DOMAIN data : i < j => f[i] < f[j]
          /\ {f[i] : i \in DOMAIN data} = {i \in 1..p : T[i].type = "data"}
          /\ \A i \in DOMAIN data : data[i] = T[f[i]]
  BY Zenon DEF IsDataOf
<1>2. PICK m \in Nat : m = Len(data) /\ DOMAIN data = 1..m
  <2>1. Len(data) \in Nat /\ DOMAIN data = 1..Len(data)
    BY LenProperties
  <2> QED BY <2>1, Zenon
<1>3. PICK k \in Nat : k = Len(chunk) /\ k = q - p
  <2>1. Len(chunk) \in Nat
    BY LenProperties
  <2> QED BY <2>1
<1>4. PICK c : c = data \o chunk
  OBVIOUS
<1>5. /\ c \in Seq(Token) /\ Len(c) = m + k
      /\ \A i \in 1..(m + k) : c[i] = IF i <= m THEN data[i] ELSE chunk[i - m]
  <2>1. /\ data \o chunk \in Seq(Token) /\ Len(data \o chunk) = Len(data) + Len(chunk)
        /\ \A i \in 1..Len(data) + Len(chunk) :
              (data \o chunk)[i] = IF i <= Len(data) THEN data[i] ELSE chunk[i - Len(data)]
    <3> HIDE DEF Token
    <3> QED BY ConcatProperties
  <2>2. Len(data) = m /\ Len(chunk) = k
    BY <1>2, <1>3
  <2> QED BY <1>4, <2>1, <2>2
<1>6. DOMAIN c = 1..(m + k)
  BY <1>5, LenProperties
<1>7. PICK g : g = [i \in 1..(m + k) |-> IF i <= m THEN f[i] ELSE p + (i - m)]
  OBVIOUS
<1>8. \A i \in 1..m : g[i] = f[i] /\ f[i] \in 1..p /\ c[i] = data[i]
  <2> SUFFICES ASSUME NEW i \in 1..m PROVE g[i] = f[i] /\ f[i] \in 1..p /\ c[i] = data[i]
    OBVIOUS
  <2>1. i \in 1..(m + k) /\ i <= m
    OBVIOUS
  <2>2. g[i] = f[i]
    BY <1>7, <2>1
  <2>3. f[i] \in 1..p
    BY <1>1, <1>2
  <2>4. c[i] = data[i]
    BY <1>5, <2>1
  <2> QED BY <2>2, <2>3, <2>4
<1>9. \A i \in 1..k : g[m + i] = p + i /\ p + i \in (p + 1)..q /\ c[m + i] = chunk[i]
  <2> SUFFICES ASSUME NEW i \in 1..k
               PROVE  g[m + i] = p + i /\ p + i \in (p + 1)..q /\ c[m + i] = chunk[i]
    OBVIOUS
  <2>1. m + i \in 1..(m + k) /\ ~(m + i <= m) /\ (m + i) - m = i
    OBVIOUS
  <2>2. p + i \in (p + 1)..q
    BY <1>3
  <2> QED BY <1>5, <1>7, <2>1, <2>2
<1>10. \A i \in 1..(m + k) : i \in 1..m \/ \E j \in 1..k : i = m + j
  <2> SUFFICES ASSUME NEW i \in 1..(m + k), ~(i \in 1..m) PROVE \E j \in 1..k : i = m + j
    OBVIOUS
  <2>1. i - m \in 1..k /\ i = m + (i - m)
    OBVIOUS
  <2> QED BY <2>1
<1>11. g \in [DOMAIN c -> 1..q]
  <2>1. ASSUME NEW i \in 1..(m + k) PROVE g[i] \in 1..q
    <3>1. CASE i \in 1..m
      <4>1. PICK x \in 1..p : x = g[i] BY <1>8, <3>1
      <4>2. x \in 1..q BY LongerRange
      <4> QED BY <4>1, <4>2
    <3>2. CASE \E j \in 1..k : i = m + j
      <4>1. PICK j \in 1..k : i = m + j BY <3>2
      <4>2. g[i] = p + j /\ p + j \in (p + 1)..q BY <1>9, <4>1
      <4> QED BY <4>2
    <3> QED BY <1>10, <3>1, <3>2
  <2> QED BY <1>6, <1>7, <2>1
<1>12. \A i, j \in DOMAIN c : i < j => g[i] < g[j]
  <2> SUFFICES ASSUME NEW i \in 1..(m + k), NEW j \in 1..(m + k), i < j PROVE g[i] < g[j]
    BY <1>6
  <2>1. CASE i \in 1..m /\ j \in 1..m
    <3>1. f[i] < f[j] BY <1>1, <1>2, <2>1
    <3> QED BY <1>8, <2>1, <3>1
  <2>2. CASE i \in 1..m /\ j \notin 1..m
    <3>1. PICK b \in 1..k : j = m + b BY <1>10, <2>2
    <3>2. g[j] = p + b BY <1>9, <3>1
    <3>3. g[i] \in 1..p BY <1>8, <2>2
    <3> QED BY <3>2, <3>3
  <2>3. CASE i \notin 1..m
    <3>1. PICK a \in 1..k : i = m + a BY <1>10, <2>3
    <3>2. j \notin 1..m BY <2>3
    <3>3. PICK b \in 1..k : j = m + b BY <1>10, <3>2
    <3>4. g[i] = p + a /\ g[j] = p + b BY <1>9, <3>1, <3>3
    <3> QED BY <3>1, <3>3, <3>4
  <2> QED BY <2>1, <2>2, <2>3
<1>13. {g[i] : i \in DOMAIN c} = {i \in 1..q : T[i].type = "data"}
  <2>1. ASSUME NEW i \in 1..(m + k) PROVE g[i] \in 1..q /\ T[g[i]].type = "data"
    <3>1. CASE i \in 1..m
      <4>1. f[i] \in {a \in 1..p : T[a].type = "data"} BY <1>1, <1>2, <3>1
      <4> QED BY <1>8, <3>1, <4>1
    <3>2. CASE i \notin 1..m
      <4>1. PICK j \in 1..k : i = m + j BY <1>10, <3>2
      <4>2. g[i] = p + j /\ p + j \in (p + 1)..q BY <1>9, <4>1
      <4> QED BY <4>2
    <3> QED BY <3>1, <3>2
  <2>2. ASSUME NEW a \in 1..q, T[a].type = "data" PROVE \E i \in 1..(m + k) : g[i] = a
    <3>1. CASE a <= p
      <4>0. a \in 1..p BY <2>2, <3>1
      <4>1. a \in {f[i] : i \in DOMAIN data} BY <1>1, <2>2, <4>0
      <4>2. PICK i \in 1..m : f[i] = a BY <1>2, <4>1
      <4>3. i \in 1..(m + k) /\ g[i] = a BY <1>8, <4>2
      <4> QED BY <4>3
    <3>2. CASE a > p
      <4>1. PICK j \in 1..k : a = p + j
        <5>1. a - p \in 1..k /\ a = p + (a - p) BY <1>3, <3>2
        <5> QED BY <5>1
      <4>2. m + j \in 1..(m + k) OBVIOUS
      <4>3. g[m + j] = p + j BY <1>9
      <4> QED BY <4>1, <4>2, <4>3
    <3> QED BY <3>1, <3>2
  <2>3. \A x : x \in {g[i] : i \in DOMAIN c} <=> \E i \in 1..(m + k) : g[i] = x
    BY <1>6
  <2>4. \A x : (\E i \in 1..(m + k) : g[i] = x) <=> x \in {i \in 1..q : T[i].type = "data"}
    BY <2>1, <2>2
  <2> QED BY <2>3, <2>4
<1>14. ASSUME NEW i \in DOMAIN c PROVE c[i] = T[g[i]]
  <2>1. CASE i \in 1..m
    BY <1>1, <1>2, <1>8, <2>1
  <2>2. CASE i \notin 1..m
    <3>1. PICK j \in 1..k : i = m + j BY <1>6, <1>10, <2>2
    <3>2. c[i] = chunk[j] /\ g[i] = p + j BY <1>9, <3>1
    <3> QED BY <1>3, <3>1, <3>2
  <2> QED BY <2>1, <2>2
<1>15. IsDataOf(c, T, q)
  BY <1>11, <1>12, <1>13, <1>14 DEF IsDataOf
<1> QED BY <1>4, <1>5, <1>15

(* Before the body there is no content.                                    *)
LEMMA NoDataInHead ==
    ASSUME NEW r \in Responses, NEW T, Written(T, r)
    PROVE  IsDataOf(<<>>, T, r.head_len)
<1>1. PICK h \in Nat \ {0} : h = r.head_len
  BY ServerAssumption
<1>2. \A i \in 1..h : T[i].type # "data"
  <2>1. (\A i \in 1..(h - 1) : T[i].type = "head") /\ T[h].type = "headend"
    BY <1>1 DEF Written
  <2>2. \A i \in 1..h : i \in 1..(h - 1) \/ i = h
    OBVIOUS
  <2> QED BY <2>1, <2>2
<1>3. DOMAIN <<>> = {}
  OBVIOUS
<1>4. PICK f : f = [i \in {} |-> 1]
  OBVIOUS
<1>5. f \in [{} -> 1..h]
  BY <1>4
<1>6. {i \in 1..h : T[i].type = "data"} = {}
  BY <1>2
<1> QED BY <1>1, <1>3, <1>5, <1>6 DEF IsDataOf

(* A head that is accepted tells how long the body is, and the body is no  *)
(* longer.                                                                 *)
LEMMA FramingOf ==
    ASSUME NEW r \in Responses, ~Rejected(r), framing(r).kind # "Missing"
    PROVE  /\ framing(r).kind \in {"None", "ContentLength", "Chunked"}
           /\ framing(r).kind = "None" => Len(r.body) = 0
           /\ framing(r).kind = "ContentLength" =>
                 /\ framing(r).len \in Nat /\ Len(r.body) <= framing(r).len
                 /\ \A j \in 1..Len(r.body) : r.body[j].type = "data"
           /\ framing(r).kind = "Chunked" =>
                 \E B \in SUBSET (0..Len(r.body)) : ChunkFramed(r.body, B)
<1>1. PICK lengths : lengths = Values(r.headers, "content-length")
  OBVIOUS
<1>2. PICK codings : codings = Values(r.headers, "transfer-encoding")
  OBVIOUS
<1>3. lengths = {} \/ codings = {}
  BY <1>1, <1>2 DEF Rejected
<1>4. /\ r.status \in {"204", "304"} => r.body = <<>>
      /\ (r.status \notin {"204", "304"} /\ codings = {}) =>
            \A i \in lengths : (lengths = {i} /\ r.headers[i].value \in Nat) =>
                /\ Len(r.body) <= r.headers[i].value
                /\ \A j \in DOMAIN r.body : r.body[j].type = "data"
      /\ (r.status \notin {"204", "304"} /\ codings # {} /\ lengths = {}) =>
            \E B \in SUBSET (0..Len(r.body)) : ChunkFramed(r.body, B)
  BY <1>1, <1>2, ServerAssumption DEF WellFramed
<1>5. CASE r.status \in {"204", "304"}
  <2>1. framing(r) = [kind |-> "None"]
    BY <1>5 DEF framing
  <2> QED BY <1>4, <1>5, <2>1
<1>6. CASE r.status \notin {"204", "304"} /\ codings # {}
  <2>1. framing(r) = [kind |-> "Chunked"]
    BY <1>2, <1>6 DEF framing
  <2> QED BY <1>3, <1>4, <1>6, <2>1
<1>7. CASE r.status \notin {"204", "304"} /\ codings = {} /\ lengths # {}
  <2>1. framing(r) = [kind |-> "ContentLength", len |-> Value(r.headers, "content-length")]
    BY <1>1, <1>2, <1>7 DEF framing
  <2>2. PICK i \in lengths : TRUE
    BY <1>7
  <2>3. lengths = {i}
    <3>1. \A j, k \in lengths : j = k
      BY <1>1 DEF Rejected, Duplicate
    <3> QED BY <2>2, <3>1
  <2>4. i \in DOMAIN r.headers /\ r.headers[i].name = "content-length"
    BY <1>1, <2>2 DEF Values
  <2>5. i \in Nat
    BY <2>4, ServerAssumption
  <2>6. r.headers[i].value \in Nat
    BY <2>4 DEF Rejected, Unsupported, parse_content_length
  <2>7. Value(r.headers, "content-length") = r.headers[i].value
    <3>1. (CHOOSE a \in lengths : \A b \in lengths : a <= b) = i
      BY <2>3, <2>5
    <3> QED BY <1>1, <3>1 DEF Value
  <2>8. DOMAIN r.body = 1..Len(r.body)
    BY ServerAssumption
  <2> QED BY <1>4, <1>7, <2>1, <2>2, <2>3, <2>6, <2>7, <2>8
<1>8. CASE r.status \notin {"204", "304"} /\ codings = {} /\ lengths = {}
  BY <1>1, <1>2, <1>8 DEF framing
<1> QED BY <1>5, <1>6, <1>7, <1>8

(* parse_head finds the head of the response that is in the buffer.        *)
LEMMA HeadParsed ==
    ASSUME NEW r \in Responses, NEW T, Written(T, r),
           NEW rb \in Seq(Token), NEW ob \in Seq(Token), Window(T, 0, rb, ob),
           NEW h, h = parse_head(rb), h.type = "head"
    PROVE  /\ h.head_len = r.head_len /\ r.head_len <= Len(rb)
           /\ h.status = r.status /\ h.framing = framing(r)
           /\ ~Rejected(r) /\ framing(r).kind # "Missing"
<1>1. Len(rb) \in Nat /\ MaxHead \in Nat
  BY HttpAssumption
<1>0. /\ Len(T) = r.head_len + Len(r.body) /\ Len(r.body) \in Nat
      /\ T[r.head_len].response = r
      /\ \A i \in 1..Len(r.body) :
            /\ T[r.head_len + i].type = r.body[i].type
            /\ r.body[i].type \in {"data", "size", "crlf"}
  BY DEF Written
<1>2. PICK ends : ends = HeadEnd(rb)
  OBVIOUS
<1>3. ASSUME NEW i \in ends PROVE i = r.head_len /\ i \in 1..Len(rb) /\ rb[i].response = r
  <2>1. i \in 1..Len(rb) /\ rb[i].type = "headend"
    BY <1>1, <1>2 DEF HeadEnd, Min2
  <2>2. rb[i] = T[i] /\ i <= Len(T)
    <3>1. rb[i] = T[0 + i] /\ 0 + Len(rb) + Len(ob) <= Len(T)
      BY <2>1 DEF Window
    <3>2. Len(ob) \in Nat /\ Len(T) \in Nat
      BY LenProperties DEF Written
    <3>3. 0 + i = i BY <2>1
    <3> QED BY <1>1, <2>1, <3>1, <3>2, <3>3
  <2>3. PICK k \in Nat \ {0} : k = r.head_len
    BY ServerAssumption
  <2>4. ~(i < k)
    <3>1. ASSUME i < k PROVE FALSE
      <4>1. i \in 1..(k - 1) BY <2>1, <3>1
      <4>2. T[i].type = "head" BY <2>3, <4>1 DEF Written
      <4> QED BY <2>1, <2>2, <4>2
    <3> QED BY <3>1
  <2>5. ~(i > k)
    <3>1. ASSUME i > k PROVE FALSE
      <4>1. PICK m \in Nat : m = Len(r.body) /\ Len(T) = k + m
        BY <1>0, <2>3
      <4>2. PICK j \in 1..m : i = k + j
        <5>1. i - k \in 1..m /\ i = k + (i - k) BY <2>1, <2>2, <3>1, <4>1
        <5> QED BY <5>1
      <4>3. T[k + j].type \in {"data", "size", "crlf"}
        BY <1>0, <2>3, <4>1
      <4> QED BY <2>1, <2>2, <4>2, <4>3
    <3> QED BY <3>1
  <2>6. i = k
    BY <2>1, <2>4, <2>5
  <2> QED BY <1>0, <2>1, <2>2, <2>3, <2>6
<1>4. ends # {}
  BY <1>2 DEF parse_head
<1>5. ends = {r.head_len}
  BY <1>3, <1>4
<1>6. PICK end : end = CHOOSE i \in ends : \A j \in ends : i <= j
  OBVIOUS
<1>7. end = r.head_len /\ rb[end].response = r /\ end \in 1..Len(rb)
  <2>1. r.head_len <= r.head_len
    BY ServerAssumption
  <2>2. end \in ends
    BY <1>5, <1>6, <2>1
  <2> QED BY <1>3, <2>2
<1>8. PICK f : f = framing(r)
  OBVIOUS
<1>9. /\ ~(Rejected(r) \/ f.kind = "Missing")
      /\ h = [type |-> "head", status |-> r.status, framing |-> f,
              connection_close |-> connection_close(r), head_len |-> end]
  BY <1>2, <1>4, <1>6, <1>7, <1>8 DEF parse_head
<1> QED BY <1>1, <1>7, <1>8, <1>9

-----------------------------------------------------------------------------
(* The inductive invariant *)

(* Nothing of an answer has been written.                                  *)
Silent == rbuf = <<>> /\ outbox = <<>> /\ inbox \in {<<>>, <<req>>}

(* The answer to the request is on the wire, and p tokens of it are read.  *)
Answered(p) ==
    answer \in Responses /\ inbox = <<>> /\ Window(Tokens(req, answer), p, rbuf, outbox)

(* The head is read and says how the body is framed.                       *)
HeadRead ==
    /\ answer \in Responses /\ ~Rejected(answer) /\ framing(answer).kind # "Missing"
    /\ head.status = answer.status /\ head.framing = framing(answer)

(* Of a chunked body whole chunks are read, and out is their content.      *)
ChunksRead ==
    \E B \in SUBSET (0..Len(answer.body)) :
        /\ ChunkFramed(answer.body, B)
        /\ \E b \in B : /\ Answered(answer.head_len + b)
                        /\ IsDataOf(out, Tokens(req, answer), answer.head_len + b)

(* A connection has nothing on it that a later request could take for its  *)
(* answer.  That needs: while a request is under way, the buffer and the   *)
(* network hold what is left of its own answer, from a place that the      *)
(* framing knows.                                                          *)
WireInv ==
    /\ req \in Nat /\ pc \in {"idle", "connect", "write", "head", "body"}
    /\ rbuf \in Seq(Token) /\ outbox \in Seq(Token) /\ out \in Seq(Token)
    /\ pc \in {"idle", "connect", "write"} => rbuf = <<>> /\ outbox = <<>> /\ inbox = <<>>
    /\ pc # "body" => out = <<>>
    /\ pc # "idle" => outcome.type = "none"
    /\ pc = "head" => Silent \/ Answered(0)
    /\ pc = "body" =>
          /\ HeadRead
          /\ IF head.framing.kind = "Chunked" THEN ChunksRead ELSE Answered(answer.head_len)
    /\ OwnAnswer

LEMMA EmptyWire == <<>> \in Seq(Token)
  BY EmptySeq

LEMMA WireInit == Init => WireInv
  BY EmptyWire DEF Init, WireInv, OwnAnswer

(* A request that has ended without an answer leaves an empty wire.        *)
LEMMA FailedKeepsWire ==
    ASSUME WireInv, NEW error, Failed(error)
    PROVE  WireInv'
<1>1. /\ pc' = "idle" /\ rbuf' = <<>> /\ outbox' = <<>> /\ inbox' = <<>> /\ out' = <<>>
      /\ req' = req /\ outcome' = [type |-> "error", error |-> error]
  BY DEF Failed, Finish
<1> QED BY <1>1, EmptyWire DEF WireInv, OwnAnswer

LEMMA ClosedEmptyKeepsWire ==
    ASSUME WireInv, pc # "idle", NEW attempt, ClosedEmpty(attempt)
    PROVE  WireInv'
<1>1. CASE Retry(1)
  <2>1. /\ pc' = "connect" /\ rbuf' = <<>> /\ outbox' = <<>> /\ inbox' = <<>> /\ out' = <<>>
        /\ req' = req /\ outcome' = outcome
    BY <1>1 DEF Retry
  <2> QED BY <2>1, EmptyWire DEF WireInv, OwnAnswer
<1>2. CASE Failed("Closed")
  BY <1>2, FailedKeepsWire
<1> QED BY <1>1, <1>2 DEF ClosedEmpty

(* The body is whole: send returns it and the wire is empty.               *)
LEMMA CompleteKeepsWire ==
    ASSUME WireInv, pc = "body", NEW body, NEW rest, Complete(body, rest),
           rest = <<>>, outbox = <<>>,
           IsDataOf(body, Tokens(req, answer), Len(Tokens(req, answer)))
    PROVE  WireInv'
<1>1. /\ pc' = "idle" /\ rbuf' = <<>> /\ out' = <<>> /\ req' = req /\ answer' = answer
  BY DEF Complete, Finish
<1>2. inbox = <<>> /\ answer \in Responses /\ head.status = answer.status
  BY DEF WireInv, HeadRead, ChunksRead, Answered
<1>3. outbox' = <<>> /\ inbox' = <<>>
  BY <1>2 DEF Complete, Finish
<1>4. OwnAnswer'
  <2>1. CASE is_2xx
    <3>1. outcome' = [type |-> "success", body |-> body]
      BY <2>1 DEF Complete, Finish
    <3>2. answer' # None /\ answer'.status \in {"2xx", "204"}
      BY <1>1, <1>2, <2>1, ServerAssumption DEF is_2xx
    <3>3. IsDataOf(outcome'.body, Tokens(req', answer'), Len(Tokens(req', answer')))
      BY <1>1, <3>1
    <3> QED BY <3>2, <3>3 DEF OwnAnswer
  <2>2. CASE ~is_2xx
    <3>1. outcome' = [type |-> "error", error |-> "Http"]
      BY <2>2 DEF Complete, Finish
    <3> QED BY <3>1 DEF OwnAnswer
  <2> QED BY <2>1, <2>2
<1> QED BY <1>1, <1>3, <1>4, EmptyWire DEF WireInv

(* read_more, wherever the reader is.                                      *)
LEMMA ReadMoreKeepsWire ==
    ASSUME WireInv, NEW n \in 1..Len(outbox), ReadMore(n)
    PROVE  WireInv'
<1>1. /\ UNCHANGED <<req, pc, head, out, outcome, inbox, answer>>
      /\ rbuf' = rbuf \o SubSeq(outbox, 1, n) /\ outbox' = SubSeq(outbox, n + 1, Len(outbox))
      /\ pc \in {"head", "body"}
  BY DEF ReadMore, Starved
<1>2. outbox # <<>>
  BY EmptySeq
<1>3. ASSUME NEW p, Answered(p)
      PROVE  Answered(p)' /\ rbuf' \in Seq(Token) /\ outbox' \in Seq(Token)
  <2>1. PICK T : T = Tokens(req, answer)
    OBVIOUS
  <2>2. T \in Seq(Token)
    BY <1>3, <2>1, TokensAre DEF Answered, WireInv, Written
  <2>3. PICK rb \in Seq(Token) : rb = rbuf
    BY DEF WireInv
  <2>4. PICK ob \in Seq(Token) : ob = outbox
    BY DEF WireInv
  <2>5. Window(T, p, rb, ob) /\ n \in 1..Len(ob)
    BY <1>3, <2>1, <2>3, <2>4 DEF Answered
  <2>6. /\ rb \o SubSeq(ob, 1, n) \in Seq(Token) /\ SubSeq(ob, n + 1, Len(ob)) \in Seq(Token)
        /\ Window(T, p, rb \o SubSeq(ob, 1, n), SubSeq(ob, n + 1, Len(ob)))
    BY <2>2, <2>5, WindowRead
  <2>7. /\ rbuf' \in Seq(Token) /\ outbox' \in Seq(Token) /\ Window(T, p, rbuf', outbox')
    BY <1>1, <2>3, <2>4, <2>6
  <2> QED BY <1>1, <1>3, <2>1, <2>7 DEF Answered
<1>4. CASE pc = "head"
  <2>1. Answered(0)
    BY <1>2, <1>4 DEF WireInv, Silent
  <2>2. Answered(0)' /\ rbuf' \in Seq(Token) /\ outbox' \in Seq(Token)
    BY <1>3, <2>1
  <2> QED BY <1>1, <1>4, <2>2 DEF WireInv, OwnAnswer
<1>5. CASE pc = "body"
  <2>1. HeadRead'
    BY <1>1, <1>5 DEF WireInv, HeadRead
  <2>2. CASE head.framing.kind = "Chunked"
    <3>1. PICK B \in SUBSET (0..Len(answer.body)) :
              /\ ChunkFramed(answer.body, B)
              /\ \E b \in B : /\ Answered(answer.head_len + b)
                              /\ IsDataOf(out, Tokens(req, answer), answer.head_len + b)
      BY <1>5, <2>2 DEF WireInv, ChunksRead
    <3>2. PICK b \in B : /\ Answered(answer.head_len + b)
                         /\ IsDataOf(out, Tokens(req, answer), answer.head_len + b)
      BY <3>1
    <3>3. PICK p : p = answer.head_len + b
      OBVIOUS
    <3>4. Answered(p)' /\ rbuf' \in Seq(Token) /\ outbox' \in Seq(Token)
      BY <1>3, <3>2, <3>3
    <3>5. Answered(answer.head_len + b)'
      BY <1>1, <3>3, <3>4 DEF Answered
    <3>6. ChunksRead'
      BY <1>1, <3>1, <3>2, <3>5 DEF ChunksRead
    <3> QED BY <1>1, <1>5, <2>1, <2>2, <3>4, <3>6 DEF WireInv, OwnAnswer
  <2>3. CASE head.framing.kind # "Chunked"
    <3>1. PICK p : p = answer.head_len
      OBVIOUS
    <3>2. Answered(p)' /\ rbuf' \in Seq(Token) /\ outbox' \in Seq(Token)
      BY <1>3, <1>5, <2>3, <3>1 DEF WireInv
    <3>3. Answered(answer.head_len)'
      BY <1>1, <3>1, <3>2 DEF Answered
    <3> QED BY <1>1, <1>5, <2>1, <2>3, <3>2, <3>3 DEF WireInv, OwnAnswer
  <2> QED BY <2>2, <2>3
<1> QED BY <1>1, <1>4, <1>5

(* The head is taken from the buffer; the body follows it.                 *)
LEMMA ReadHeadKeepsWire ==
    ASSUME WireInv, ReadHead
    PROVE  WireInv'
<1>1. PICK h : h = parse_head(rbuf)
  OBVIOUS
<1>2. CASE h.type = "error" /\ Failed(h.error)
  BY <1>2, FailedKeepsWire
<1>3. CASE /\ h.type = "head" /\ head' = h /\ rbuf' = SubSeq(rbuf, h.head_len + 1, Len(rbuf))
           /\ pc' = "body" /\ UNCHANGED <<req, out, outcome, server>>
  <2>1. pc = "head" /\ out = <<>> /\ outcome.type = "none"
    BY DEF ReadHead, WireInv
  <2>2. UNCHANGED <<req, out, outcome, inbox, outbox, answer>>
    BY <1>3 DEF server
  <2>3. Answered(0)
    <3>1. ASSUME Silent PROVE FALSE
      <4>1. rbuf = <<>> /\ Len(rbuf) = 0
        BY <3>1 DEF Silent
      <4>2. \A i \in 1..Min2(Len(rbuf), MaxHead) : FALSE
        BY <4>1, HttpAssumption DEF Min2
      <4>3. HeadEnd(rbuf) = {}
        BY <4>2 DEF HeadEnd
      <4>4. h.type # "head"
        BY <1>1, <4>3 DEF parse_head
      <4> QED BY <1>3, <4>4
    <3> QED BY <2>1, <3>1 DEF WireInv
  <2>4. PICK r \in Responses : r = answer
    BY <2>3 DEF Answered
  <2>5. PICK T : T = Tokens(req, answer)
    OBVIOUS
  <2>6. Written(T, r) /\ T \in Seq(Token)
    <3>1. req \in Nat
      BY DEF WireInv
    <3>2. Written(T, r)
      BY <2>4, <2>5, <3>1, TokensAre
    <3> QED BY <3>2 DEF Written
  <2>7. PICK rb \in Seq(Token) : rb = rbuf
    BY DEF WireInv
  <2>8. PICK ob \in Seq(Token) : ob = outbox
    BY DEF WireInv
  <2>9. Window(T, 0, rb, ob)
    BY <2>3, <2>5, <2>7, <2>8 DEF Answered
  <2>10. /\ h.head_len = r.head_len /\ r.head_len <= Len(rb)
         /\ h.status = r.status /\ h.framing = framing(r)
         /\ ~Rejected(r) /\ framing(r).kind # "Missing"
    BY <1>1, <1>3, <2>6, <2>7, <2>9, HeadParsed
  <2>11. PICK m \in 0..Len(rb) : m = r.head_len
    BY <2>6, <2>10 DEF Written
  <2>12. /\ SubSeq(rb, m + 1, Len(rb)) \in Seq(Token)
         /\ Window(T, 0 + m, SubSeq(rb, m + 1, Len(rb)), ob)
    BY <2>6, <2>9, WindowTake
  <2>13. 0 + m = m
    OBVIOUS
  <2>14. rbuf' \in Seq(Token) /\ Window(T, m, rbuf', ob)
    BY <1>3, <2>7, <2>10, <2>11, <2>12, <2>13
  <2>15. HeadRead'
    BY <1>3, <2>2, <2>4, <2>10 DEF HeadRead
  <2>16. Answered(r.head_len)'
    BY <2>2, <2>3, <2>5, <2>8, <2>11, <2>14 DEF Answered
  <2>17. head'.framing.kind = "Chunked" => ChunksRead'
    <3> SUFFICES ASSUME head'.framing.kind = "Chunked" PROVE ChunksRead'
      OBVIOUS
    <3>1. framing(r).kind = "Chunked"
      BY <1>3, <2>10
    <3>2. PICK B \in SUBSET (0..Len(r.body)) : ChunkFramed(r.body, B)
      BY <2>10, <3>1, FramingOf
    <3>3. 0 \in B /\ r.head_len + 0 = r.head_len
      BY <2>6, <3>2 DEF ChunkFramed, Written
    <3>4. IsDataOf(<<>>, T, r.head_len)
      BY <2>6, NoDataInHead
    <3>5. IsDataOf(out', Tokens(req', answer'), r.head_len + 0)
      BY <2>1, <2>2, <2>5, <3>3, <3>4
    <3>6. Answered(r.head_len + 0)'
      BY <2>16, <3>3
    <3> QED BY <2>2, <2>4, <3>2, <3>3, <3>5, <3>6 DEF ChunksRead
  <2>18. Answered(answer.head_len)'
    BY <2>2, <2>4, <2>16 DEF Answered
  <2> QED BY <1>3, <2>1, <2>2, <2>14, <2>15, <2>17, <2>18 DEF WireInv, OwnAnswer
<1> QED BY <1>1, <1>2, <1>3 DEF ReadHead

(* A buffer of which everything was taken is empty.                        *)
LEMMA NothingLeft ==
    ASSUME NEW rb \in Seq(Token), NEW ob \in Seq(Token), NEW m \in 0..Len(rb),
           Len(rb) + Len(ob) <= m
    PROVE  SubSeq(rb, m + 1, Len(rb)) = <<>> /\ ob = <<>> /\ Len(rb) = m
<1>1. Len(rb) \in Nat /\ Len(ob) \in Nat
  OBVIOUS
<1>2. Len(ob) = 0 /\ Len(rb) = m
  BY <1>1
<1>3. ob = <<>>
  BY <1>2, EmptySeq
<1>4. m + 1 \in Int /\ Len(rb) \in Int /\ Len(rb) < m + 1
  BY <1>1, <1>2
<1> QED BY <1>2, <1>3, <1>4, SubSeqEmpty

(* A body of known length: exactly it is taken, and it was the last.       *)
LEMMA ReadExactBodyKeepsWire ==
    ASSUME WireInv, ReadExactBody
    PROVE  WireInv'
<1>1. PICK need : need = Needed
  OBVIOUS
<1>2. /\ pc = "body" /\ head.framing.kind \in {"None", "ContentLength"} /\ Len(rbuf) >= need
      /\ Complete(SubSeq(rbuf, 1, need), SubSeq(rbuf, need + 1, Len(rbuf)))
  BY <1>1 DEF ReadExactBody
<1>3. HeadRead /\ Answered(answer.head_len) /\ req \in Nat
  BY <1>2 DEF WireInv
<1>4. PICK r \in Responses : r = answer
  BY <1>3 DEF HeadRead
<1>5. PICK T : T = Tokens(req, answer)
  OBVIOUS
<1>6. Written(T, r)
  BY <1>3, <1>4, <1>5, TokensAre
<1>7. PICK rb \in Seq(Token) : rb = rbuf
  BY DEF WireInv
<1>8. PICK ob \in Seq(Token) : ob = outbox
  BY DEF WireInv
<1>9. PICK h \in Nat \ {0} : h = r.head_len
  BY <1>6 DEF Written
<1>10. PICK m \in Nat : m = Len(r.body)
  BY <1>6 DEF Written
<1>11. Window(T, h, rb, ob)
  BY <1>3, <1>4, <1>5, <1>7, <1>8, <1>9 DEF Answered
<1>12. Len(T) = h + m /\ Len(rb) \in Nat /\ Len(ob) \in Nat /\ T \in Seq(Token)
  BY <1>6, <1>9, <1>10 DEF Written
<1>13. Len(rb) + Len(ob) <= m
  <2>1. h + Len(rb) + Len(ob) <= h + m
    BY <1>11, <1>12 DEF Window
  <2> QED BY <1>12, <2>1
<1>14. /\ head.framing = framing(r) /\ ~Rejected(r) /\ framing(r).kind # "Missing"
  BY <1>3, <1>4 DEF HeadRead
<1>15. need \in Nat /\ m <= need /\ \A j \in 1..m : r.body[j].type = "data"
  <2>1. CASE head.framing.kind = "None"
    <3>1. need = 0
      BY <1>1, <2>1 DEF Needed
    <3>2. m = 0
      BY <1>10, <1>14, <2>1, FramingOf
    <3> QED BY <3>1, <3>2
  <2>2. CASE head.framing.kind = "ContentLength"
    <3>1. need = framing(r).len
      BY <1>1, <1>14, <2>2 DEF Needed
    <3>2. framing(r).len \in Nat /\ m <= framing(r).len /\ \A j \in 1..m : r.body[j].type = "data"
      BY <1>10, <1>14, <2>2, FramingOf
    <3> QED BY <3>1, <3>2
  <2> QED BY <1>2, <2>1, <2>2
<1>16. need \in 0..Len(rb) /\ Len(rb) + Len(ob) <= need
  BY <1>2, <1>7, <1>12, <1>13, <1>15
<1>17. SubSeq(rb, need + 1, Len(rb)) = <<>> /\ ob = <<>> /\ Len(rb) = need
  BY <1>16, NothingLeft
<1>18. m = need
  BY <1>12, <1>13, <1>15, <1>17
<1>19. PICK body : body = SubSeq(rb, 1, need)
  OBVIOUS
<1>20. body \in Seq(Token) /\ Len(body) = need /\ \A i \in 1..need : body[i] = rb[i]
  BY <1>12, <1>15, <1>16, <1>19, SubSeqOf
<1>21. IsDataOf(body, T, h + m)
  <2>1. IsDataOf(<<>>, T, h)
    BY <1>6, <1>9, NoDataInHead
  <2>2. \A i \in 1..Len(body) : body[i] = T[h + i]
    BY <1>11, <1>17, <1>20 DEF Window
  <2>3. \A i \in (h + 1)..(h + m) : T[i].type = "data"
    <3> SUFFICES ASSUME NEW i \in (h + 1)..(h + m) PROVE T[i].type = "data"
      OBVIOUS
    <3>1. PICK j \in 1..m : i = h + j
      <4>1. i - h \in 1..m /\ i = h + (i - h) OBVIOUS
      <4> QED BY <4>1
    <3>2. T[h + j].type = r.body[j].type
      BY <1>6, <1>9, <1>10 DEF Written
    <3> QED BY <1>15, <3>1, <3>2
  <2>4. Len(body) = (h + m) - h /\ h <= h + m /\ h + m \in Nat
    BY <1>18, <1>20
  <2>5. IsDataOf(<<>> \o body, T, h + m)
    BY <1>20, <2>1, <2>2, <2>3, <2>4, EmptyWire, DataAppend
  <2>6. <<>> \o body = body
    BY <1>20, ConcatEmptySeq
  <2> QED BY <2>5, <2>6
<1>22. IsDataOf(body, Tokens(req, answer), Len(Tokens(req, answer)))
  BY <1>5, <1>12, <1>21
<1>23. PICK rest : rest = SubSeq(rb, need + 1, Len(rb))
  OBVIOUS
<1>24. Complete(body, rest) /\ rest = <<>> /\ outbox = <<>>
  BY <1>2, <1>7, <1>8, <1>17, <1>19, <1>23
<1> QED BY <1>2, <1>22, <1>24, CompleteKeepsWire

(* After p tokens a whole chunk of n bytes of content follows.             *)
WholeChunk(T, p, n) ==
    /\ n \in Nat /\ p \in Nat /\ p + n + 2 <= Len(T)
    /\ T[p + 1].type = "size" /\ T[p + n + 2].type = "crlf"
    /\ \A i \in (p + 2)..(p + n + 1) : T[i].type = "data"
    /\ n = 0 => Len(T) <= p + 2

(* What the buffer holds where a chunk starts.                             *)
LEMMA ChunkAt ==
    ASSUME NEW r \in Responses, NEW T, Written(T, r),
           NEW B \in SUBSET (0..Len(r.body)), ChunkFramed(r.body, B), NEW b \in B,
           NEW rb \in Seq(Token), NEW ob \in Seq(Token),
           Window(T, r.head_len + b, rb, ob), rb # <<>>
    PROVE  rb[1].type = "size" =>
           /\ rb[1].n \in Nat
           /\ (rb[1].n + 2 <= Len(rb) /\ rb[rb[1].n + 2].type = "crlf") =>
                 /\ WholeChunk(T, r.head_len + b, rb[1].n)
                 /\ rb[1].n # 0 => b + rb[1].n + 2 \in B
<1>1. PICK h \in Nat \ {0} : h = r.head_len
  BY DEF Written
<1>2. PICK m \in Nat : m = Len(r.body)
  BY DEF Written
<1>3. PICK k \in Nat : k = Len(rb)
  OBVIOUS
<1>4. b \in Nat /\ Len(ob) \in Nat /\ k # 0
  BY <1>2, <1>3, EmptySeq
<1>5. /\ Len(T) = h + m /\ h + b + k <= h + m
  <2>1. Len(T) = h + m
    BY <1>1, <1>2 DEF Written
  <2>2. h + b + k + Len(ob) <= Len(T)
    BY <1>1, <1>3 DEF Window
  <2> QED BY <1>4, <2>1, <2>2
<1>6. b + k <= m /\ b < m /\ b + 1 \in 1..m
  BY <1>4, <1>5
<1>7. \A i \in 1..m : /\ T[h + i].type = r.body[i].type /\ T[h + i].n = r.body[i].n
                      /\ r.body[i].n \in Nat
  BY <1>1, <1>2 DEF Written
<1>8. rb[1] = T[h + b + 1] /\ h + b + 1 = h + (b + 1)
  <2>1. 1 \in 1..Len(rb)
    BY <1>3, <1>4
  <2>2. rb[1] = T[h + b + 1]
    BY <1>1, <2>1 DEF Window
  <2> QED BY <1>4, <2>2
<1>9. PICK n \in Nat : n = r.body[b + 1].n
  BY <1>6, <1>7
<1>10. /\ rb[1].type = r.body[b + 1].type /\ rb[1].n = n
  BY <1>6, <1>7, <1>8, <1>9
<1>11. ASSUME rb[1].type = "size"
       PROVE  /\ \A i \in 1..n : b + 1 + i <= m => r.body[b + 1 + i].type = "data"
              /\ (b + n + 2 <= m /\ r.body[b + n + 2].type = "crlf") =>
                    (n = 0 => m <= b + 2) /\ (n # 0 => b + n + 2 \in B)
  BY <1>2, <1>6, <1>9, <1>10, <1>11 DEF ChunkFramed
<1>12. ASSUME rb[1].type = "size", n + 2 <= k, rb[n + 2].type = "crlf" PROVE WholeChunk(T, h + b, n) /\ (n # 0 => b + n + 2 \in B)
  <2>1. b + n + 2 <= m /\ b + n + 2 \in 1..m
    BY <1>4, <1>6, <1>12
  <2>2. T[h + b + 1].type = "size"
    BY <1>8, <1>12
  <2>3. T[h + b + n + 2].type = "crlf" /\ r.body[b + n + 2].type = "crlf"
    <3>1. n + 2 \in 1..Len(rb) /\ (h + b) + (n + 2) = h + b + n + 2
          /\ h + b + n + 2 = h + (b + n + 2)
      BY <1>3, <1>4, <1>12
    <3>2. rb[n + 2] = T[(h + b) + (n + 2)]
      BY <1>1, <3>1 DEF Window
    <3>3. T[h + b + n + 2].type = "crlf"
      BY <1>12, <3>1, <3>2
    <3> QED BY <1>7, <2>1, <3>1, <3>3
  <2>4. ASSUME NEW i \in (h + b + 2)..(h + b + n + 1) PROVE T[i].type = "data"
    <3>1. PICK j \in 1..n : i = h + b + 1 + j
      <4>1. i - (h + b + 1) \in 1..n /\ i = h + b + 1 + (i - (h + b + 1))
        BY <1>4
      <4> QED BY <4>1
    <3>2. b + 1 + j \in 1..m /\ b + 1 + j <= m /\ i = h + (b + 1 + j)
      BY <1>4, <2>1, <3>1
    <3> QED BY <1>7, <1>11, <1>12, <3>2
  <2>5. h + b \in Nat /\ h + b + n + 2 <= Len(T) /\ (n = 0 => Len(T) <= h + b + 2)
    BY <1>4, <1>5, <1>11, <1>12, <2>1, <2>3
  <2>6. WholeChunk(T, h + b, n)
    BY <2>2, <2>3, <2>4, <2>5 DEF WholeChunk
  <2> QED BY <1>11, <1>12, <2>1, <2>3, <2>6
<1> QED BY <1>1, <1>3, <1>10, <1>12

(* Taking a whole chunk adds its content to what was read.                 *)
LEMMA ChunkTaken ==
    ASSUME NEW T \in Seq(Token), NEW p, NEW n, WholeChunk(T, p, n),
           NEW rb \in Seq(Token), NEW ob \in Seq(Token), Window(T, p, rb, ob),
           n + 2 <= Len(rb), NEW data \in Seq(Token), IsDataOf(data, T, p)
    PROVE  /\ data \o SubSeq(rb, 2, n + 1) \in Seq(Token)
           /\ IsDataOf(data \o SubSeq(rb, 2, n + 1), T, p + n + 2)
<1>1. n \in Nat /\ p \in Nat /\ Len(rb) \in Nat
  BY DEF WholeChunk
<1>2. PICK chunk : chunk = SubSeq(rb, 2, n + 1)
  OBVIOUS
<1>3. chunk \in Seq(Token) /\ Len(chunk) = n /\ \A i \in 1..n : chunk[i] = rb[i + 1]
  <2>1. 2 \in Nat \ {0} /\ n + 1 \in 0..Len(rb) /\ 2 <= (n + 1) + 1
    BY <1>1
  <2>2. /\ chunk \in Seq(Token) /\ Len(chunk) = (n + 1) - 2 + 1
        /\ \A i \in 1..((n + 1) - 2 + 1) : chunk[i] = rb[2 + i - 1]
    BY <1>2, <2>1, SubSeqOf
  <2>3. (n + 1) - 2 + 1 = n /\ \A i \in 1..n : 2 + i - 1 = i + 1
    BY <1>1
  <2> QED BY <2>2, <2>3
<1>4. IsDataOf(data, T, p + 1)
  <2>1. \A i \in (p + 1)..(p + 1) : T[i].type # "data"
    <3>1. \A i \in (p + 1)..(p + 1) : i = p + 1
      BY <1>1
    <3> QED BY <3>1 DEF WholeChunk
  <2>2. p + 1 \in Nat /\ p <= p + 1
    BY <1>1
  <2> QED BY <1>1, <2>1, <2>2, DataSkip
<1>5. PICK q \in Nat : q = p + n + 1
  BY <1>1
<1>6. data \o chunk \in Seq(Token) /\ IsDataOf(data \o chunk, T, q)
  <2>1. PICK a \in Nat : a = p + 1
    BY <1>1
  <2>2. a <= q /\ Len(chunk) = q - a
    BY <1>1, <1>3, <1>5, <2>1
  <2>3. ASSUME NEW i \in 1..Len(chunk) PROVE chunk[i] = T[a + i]
    <3>1. i \in 1..n /\ i + 1 \in 1..Len(rb) /\ p + (i + 1) = a + i
      BY <1>1, <1>3, <2>1
    <3>2. rb[i + 1] = T[p + (i + 1)]
      BY <3>1 DEF Window
    <3> QED BY <1>3, <3>1, <3>2
  <2>4. \A i \in (a + 1)..q : T[i].type = "data"
    <3>1. a + 1 = p + 2
      BY <1>1, <2>1
    <3> QED BY <1>5, <3>1 DEF WholeChunk
  <2> QED BY <1>3, <1>4, <2>1, <2>2, <2>3, <2>4, DataAppend
<1>7. IsDataOf(data \o chunk, T, p + n + 2)
  <2>1. q + 1 = p + n + 2 /\ q <= p + n + 2 /\ p + n + 2 \in Nat
    BY <1>1, <1>5
  <2>2. \A i \in (q + 1)..(p + n + 2) : T[i].type # "data"
    <3>1. \A i \in (q + 1)..(p + n + 2) : i = p + n + 2
      BY <1>1, <2>1
    <3> QED BY <3>1 DEF WholeChunk
  <2> QED BY <1>6, <2>1, <2>2, DataSkip
<1> QED BY <1>2, <1>6, <1>7

(* The reader is where a chunk of the request's own answer starts.         *)
LEMMA ReadChunkKeepsWire ==
    ASSUME WireInv, ReadChunk
    PROVE  WireInv'
<1>1. /\ pc = "body" /\ head.framing.kind = "Chunked" /\ rbuf # <<>> /\ Len(rbuf) >= Needed
  BY DEF ReadChunk
<1>2. HeadRead /\ ChunksRead /\ req \in Nat /\ out \in Seq(Token) /\ outcome.type = "none"
  BY <1>1 DEF WireInv
<1>3. PICK r \in Responses : r = answer
  BY <1>2 DEF HeadRead
<1>4. PICK T : T = Tokens(req, answer)
  OBVIOUS
<1>5. Written(T, r) /\ T \in Seq(Token)
  <2>1. Written(T, r)
    BY <1>2, <1>3, <1>4, TokensAre
  <2> QED BY <2>1 DEF Written
<1>6. PICK B \in SUBSET (0..Len(r.body)) :
          /\ ChunkFramed(r.body, B)
          /\ \E b \in B : Answered(r.head_len + b) /\ IsDataOf(out, T, r.head_len + b)
  BY <1>2, <1>3, <1>4 DEF ChunksRead
<1>7. PICK b \in B : Answered(r.head_len + b) /\ IsDataOf(out, T, r.head_len + b)
  BY <1>6
<1>8. PICK rb \in Seq(Token) : rb = rbuf
  BY DEF WireInv
<1>9. PICK ob \in Seq(Token) : ob = outbox
  BY DEF WireInv
<1>10. PICK data \in Seq(Token) : data = out
  BY <1>2
<1>11. PICK p : p = r.head_len + b
  OBVIOUS
<1>12. Window(T, p, rb, ob) /\ IsDataOf(data, T, p)
  BY <1>4, <1>3, <1>7, <1>8, <1>9, <1>10, <1>11 DEF Answered
<1>13. PICK n : n = rb[1].n
  OBVIOUS
<1> SUFFICES ASSUME ~Failed("Protocol") PROVE WireInv'
  BY FailedKeepsWire
<1>14. rb[1].type = "size" /\ rb[Needed].type = "crlf"
  BY <1>8 DEF ReadChunk
<1>15. n \in Nat
  BY <1>1, <1>14, <1>5, <1>6, <1>8, <1>11, <1>12, <1>13, ChunkAt
<1>16. Needed = n + 2 /\ ChunkSize = n
  BY <1>1, <1>8, <1>13, <1>14 DEF Needed, ChunkSize
<1>17. n + 2 <= Len(rb)
  <2>1. Len(rb) \in Nat
    OBVIOUS
  <2> QED BY <1>1, <1>8, <1>16, <1>15, <2>1
<1>18. WholeChunk(T, p, n) /\ (n # 0 => b + n + 2 \in B)
  BY <1>1, <1>14, <1>16, <1>5, <1>6, <1>8, <1>11, <1>12, <1>13, <1>17, ChunkAt
<1>19. PICK more : more = data \o SubSeq(rb, 2, n + 1)
  OBVIOUS
<1>20. more \in Seq(Token) /\ IsDataOf(more, T, p + n + 2)
  BY <1>5, <1>12, <1>17, <1>18, <1>19, ChunkTaken
<1>21. PICK m \in 0..Len(rb) : m = n + 2
  <2>1. n + 2 \in 0..Len(rb)
    BY <1>17, <1>15
  <2> QED BY <2>1
<1>22. PICK rest : rest = SubSeq(rb, m + 1, Len(rb))
  OBVIOUS
<1>23. rest \in Seq(Token) /\ Window(T, p + m, rest, ob)
  BY <1>5, <1>12, <1>22, WindowTake
<1>24. p \in Nat /\ p + m = p + n + 2 /\ Len(rb) \in Nat /\ Len(ob) \in Nat /\ Len(T) \in Nat
  <2>1. p \in Nat
    BY <1>12 DEF Window
  <2> QED BY <1>5, <1>21, <1>15, <2>1
<1>25. CASE n = 0 /\ Complete(out, rest)
  <2>1. Len(T) <= p + 2 /\ p + Len(rb) + Len(ob) <= Len(T)
    BY <1>12, <1>18, <1>25 DEF WholeChunk, Window
  <2>2. Len(rb) + Len(ob) <= m
    BY <1>21, <1>24, <1>25, <2>1
  <2>3. rest = <<>> /\ ob = <<>> /\ Len(rb) = m
    BY <1>22, <2>2, NothingLeft
  <2>4. Len(T) = p + n + 2
    BY <1>21, <1>24, <1>15, <1>25, <2>1, <2>3
  <2>5. SubSeq(rb, 2, n + 1) = <<>>
    <3>1. 2 \in Int /\ n + 1 \in Int /\ n + 1 < 2
      BY <1>25
    <3> QED BY <3>1, SubSeqEmpty
  <2>6. more = data
    BY <1>19, <2>5, ConcatEmptySeq
  <2>7. IsDataOf(out, Tokens(req, answer), Len(Tokens(req, answer)))
    BY <1>4, <1>10, <1>20, <2>4, <2>6
  <2>8. outbox = <<>>
    BY <1>9, <2>3
  <2>9. PICK body : body = out
    OBVIOUS
  <2>10. Complete(body, rest) /\ IsDataOf(body, Tokens(req, answer), Len(Tokens(req, answer)))
    BY <1>25, <2>7, <2>9
  <2> QED BY <1>1, <2>3, <2>8, <2>10, CompleteKeepsWire
<1>26. CASE /\ n # 0 /\ out' = more /\ rbuf' = rest
            /\ UNCHANGED <<req, pc, head, outcome, server>>
  <2>1. UNCHANGED <<req, pc, head, outcome, inbox, outbox, answer>>
    BY <1>26 DEF server
  <2>2. PICK c \in B : c = b + n + 2
    BY <1>18, <1>26
  <2>3. r.head_len + c = p + n + 2
    <3>1. r.head_len \in Nat /\ b \in Nat
      <4>1. r.head_len \in Nat /\ Len(r.body) \in Nat
        BY <1>5 DEF Written
      <4> QED BY <4>1
    <3> QED BY <1>11, <1>15, <2>2, <3>1
  <2>4. Window(T, r.head_len + c, rest, ob) /\ IsDataOf(more, T, r.head_len + c)
    BY <1>20, <1>23, <1>24, <2>3
  <2>5. inbox = <<>> /\ answer \in Responses
    BY <1>7 DEF Answered
  <2>6. Answered(r.head_len + c)'
    BY <1>4, <1>9, <1>26, <2>1, <2>4, <2>5 DEF Answered
  <2>7. ChunksRead'
    <3>1. answer' = r /\ IsDataOf(out', Tokens(req', answer'), answer'.head_len + c)
      BY <1>3, <1>4, <1>26, <2>1, <2>4
    <3>2. Answered(answer.head_len + c)'
      BY <1>3, <2>1, <2>6 DEF Answered
    <3> QED BY <1>6, <3>1, <3>2 DEF ChunksRead
  <2>8. HeadRead'
    BY <1>2, <2>1 DEF HeadRead
  <2>9. rbuf' \in Seq(Token) /\ outbox' \in Seq(Token) /\ out' \in Seq(Token)
    BY <1>9, <1>20, <1>23, <1>26, <2>1
  <2> QED BY <1>1, <1>2, <2>1, <2>7, <2>8, <2>9 DEF WireInv, OwnAnswer
<1>27. \/ n = 0 /\ Complete(out, rest)
       \/ /\ n # 0 /\ out' = more /\ rbuf' = rest
          /\ UNCHANGED <<req, pc, head, outcome, server>>
  <2>1. SubSeq(rbuf, Needed + 1, Len(rbuf)) = rest
    BY <1>8, <1>16, <1>21, <1>22
  <2>2. out \o SubSeq(rbuf, 2, ChunkSize + 1) = more
    BY <1>8, <1>10, <1>16, <1>19
  <2> QED BY <1>16, <2>1, <2>2 DEF ReadChunk
<1> QED BY <1>25, <1>26, <1>27

-----------------------------------------------------------------------------
(* The server's steps *)

(* The answer to the request under way is put on an empty wire.            *)
LEMMA AnswerKeepsWire ==
    ASSUME WireInv, NEW r \in Responses, Answer(r)
    PROVE  WireInv'
<1>1. /\ inbox # <<>> /\ outbox' = outbox \o Tokens(Head(inbox), r) /\ inbox' = Tail(inbox)
      /\ answer' = IF Head(inbox) = req THEN r ELSE answer
      /\ UNCHANGED <<req, pc, head, out, outcome, rbuf>>
  BY DEF Answer, client
<1>2. pc = "head" /\ rbuf = <<>> /\ outbox = <<>> /\ inbox = <<req>> /\ outcome.type = "none"
  BY <1>1 DEF WireInv, Silent, Answered, ChunksRead
<1>3. Head(inbox) = req /\ Tail(inbox) = <<>>
  BY <1>2
<1>4. PICK T : T = Tokens(req, r)
  OBVIOUS
<1>5. T \in Seq(Token)
  <2>1. req \in Nat
    BY DEF WireInv
  <2>2. Written(T, r)
    BY <1>4, <2>1, TokensAre
  <2> QED BY <2>2 DEF Written
<1>6. <<>> \o T = T
  BY <1>5, ConcatEmptySeq
<1>7. outbox' = T /\ inbox' = <<>> /\ answer' = r
  BY <1>1, <1>2, <1>3, <1>4, <1>6
<1>8. Window(T, 0, <<>>, T)
  <2>1. PICK e : e = <<>>
    OBVIOUS
  <2>2. Len(e) = 0 /\ Len(T) \in Nat
    BY <1>5, <2>1
  <2>3. 0 + Len(e) + Len(T) <= Len(T) /\ \A i \in 1..Len(T) : 0 + Len(e) + i = i
    BY <2>2
  <2>4. \A i \in 1..Len(e) : FALSE
    BY <2>2
  <2>5. \A i \in 1..Len(T) : T[i] = T[0 + Len(e) + i]
    BY <2>3
  <2>6. Window(T, 0, e, T)
    BY <2>3, <2>4, <2>5 DEF Window
  <2> QED BY <2>1, <2>6
<1>9. Answered(0)'
  BY <1>1, <1>2, <1>4, <1>7, <1>8 DEF Answered
<1> QED BY <1>1, <1>2, <1>5, <1>7, <1>9 DEF WireInv, OwnAnswer

(* A connection that closes: what had not arrived may be lost.             *)
LEMMA CloseKeepsWire ==
    ASSUME WireInv, NEW n \in 0..Len(outbox), Close(n)
    PROVE  WireInv'
<1>1. /\ outbox' = SubSeq(outbox, 1, n)
      /\ UNCHANGED <<req, pc, head, out, outcome, rbuf, inbox, answer>>
  BY DEF Close, client
<1>2. PICK rb \in Seq(Token) : rb = rbuf
  BY DEF WireInv
<1>3. PICK ob \in Seq(Token) : ob = outbox
  BY DEF WireInv
<1>4. n \in 0..Len(ob) /\ outbox' = SubSeq(ob, 1, n) /\ Len(ob) \in Nat
  BY <1>1, <1>3
<1>5. outbox' \in Seq(Token)
  <2>1. 1 \in Nat \ {0} /\ 1 <= n + 1
    BY <1>4
  <2>2. SubSeq(ob, 1, n) \in Seq(Token)
    BY <1>4, <2>1, SubSeqOf
  <2> QED BY <1>4, <2>2
<1>6. ASSUME outbox = <<>> PROVE outbox' = <<>>
  <2>1. ob = <<>> /\ Len(ob) = 0
    BY <1>3, <1>6
  <2>2. n = 0 /\ 1 \in Int /\ n \in Int /\ n < 1
    BY <1>4, <2>1
  <2>3. SubSeq(ob, 1, n) = <<>>
    BY <2>2, SubSeqEmpty
  <2> QED BY <1>4, <2>3
<1>7. ASSUME NEW p, Answered(p) PROVE Answered(p)'
  <2>1. PICK T : T = Tokens(req, answer)
    OBVIOUS
  <2>2. T \in Seq(Token)
    BY <1>7, <2>1, TokensAre DEF Answered, WireInv, Written
  <2>3. Window(T, p, rb, ob)
    BY <1>2, <1>3, <1>7, <2>1 DEF Answered
  <2>4. Window(T, p, rb, SubSeq(ob, 1, n))
    BY <1>4, <2>2, <2>3, WindowCut
  <2> QED BY <1>1, <1>2, <1>4, <1>7, <2>1, <2>4 DEF Answered
<1>8. CASE pc \in {"idle", "connect", "write"}
  BY <1>1, <1>5, <1>6, <1>8 DEF WireInv, OwnAnswer
<1>9. CASE pc = "head"
  <2>1. (Silent \/ Answered(0))'
    <3>1. CASE Silent
      BY <1>1, <1>6, <3>1 DEF Silent
    <3>2. CASE Answered(0)
      <4>1. PICK p : p = 0
        OBVIOUS
      <4>2. Answered(p)'
        BY <1>7, <3>2, <4>1
      <4> QED BY <4>1, <4>2
    <3> QED BY <1>9, <3>1, <3>2 DEF WireInv
  <2> QED BY <1>1, <1>5, <1>9, <2>1 DEF WireInv, OwnAnswer
<1>10. CASE pc = "body"
  <2>1. HeadRead'
    BY <1>1, <1>10 DEF WireInv, HeadRead
  <2>2. CASE head.framing.kind = "Chunked"
    <3>1. PICK B \in SUBSET (0..Len(answer.body)) :
              /\ ChunkFramed(answer.body, B)
              /\ \E b \in B : /\ Answered(answer.head_len + b)
                              /\ IsDataOf(out, Tokens(req, answer), answer.head_len + b)
      BY <1>10, <2>2 DEF WireInv, ChunksRead
    <3>2. PICK b \in B : /\ Answered(answer.head_len + b)
                         /\ IsDataOf(out, Tokens(req, answer), answer.head_len + b)
      BY <3>1
    <3>3. PICK p : p = answer.head_len + b
      OBVIOUS
    <3>4. Answered(p)'
      BY <1>7, <3>2, <3>3
    <3>5. Answered(answer.head_len + b)'
      BY <1>1, <3>3, <3>4 DEF Answered
    <3>6. ChunksRead'
      BY <1>1, <3>1, <3>2, <3>5 DEF ChunksRead
    <3> QED BY <1>1, <1>5, <1>10, <2>1, <2>2, <3>6 DEF WireInv, OwnAnswer
  <2>3. CASE head.framing.kind # "Chunked"
    <3>1. PICK p : p = answer.head_len
      OBVIOUS
    <3>2. Answered(p)'
      BY <1>7, <1>10, <2>3, <3>1 DEF WireInv
    <3>3. Answered(answer.head_len)'
      BY <1>1, <3>1, <3>2 DEF Answered
    <3> QED BY <1>1, <1>5, <1>10, <2>1, <2>3, <3>3 DEF WireInv, OwnAnswer
  <2> QED BY <2>2, <2>3
<1> QED BY <1>8, <1>9, <1>10 DEF WireInv

-----------------------------------------------------------------------------

(* Every step keeps the wire in order.                                     *)
LEMMA WireStep ==
    ASSUME WireInv, [Next]_vars
    PROVE  WireInv'
<1>1. CASE Request
  <2>1. /\ pc = "idle" /\ req' = req + 1 /\ pc' \in {"write", "connect"}
        /\ outcome' = [type |-> "none"] /\ UNCHANGED <<rbuf, out, inbox, outbox>>
    BY <1>1 DEF Request
  <2> QED BY <2>1 DEF WireInv, OwnAnswer
<1>2. CASE Send
  <2>1. CASE Connect
    <3>1. /\ pc = "connect" /\ pc' = "write" /\ rbuf' = <<>> /\ inbox' = <<>> /\ outbox' = <<>>
          /\ UNCHANGED <<req, out, outcome>>
      BY <2>1 DEF Connect
    <3> QED BY <3>1, EmptyWire DEF WireInv, OwnAnswer
  <2>2. CASE ConnectFails
    <3>1. Failed("Connect")
      BY <2>2 DEF ConnectFails, Failed
    <3> QED BY <3>1, FailedKeepsWire
  <2>3. CASE Write
    <3>1. /\ pc = "write" /\ pc' = "head" /\ UNCHANGED <<req, rbuf, out, outcome, outbox>>
          /\ inbox' \in {inbox, Append(inbox, req)}
      BY <2>3 DEF Write
    <3>2. rbuf = <<>> /\ outbox = <<>> /\ inbox = <<>> /\ out = <<>> /\ outcome.type = "none"
      BY <3>1 DEF WireInv
    <3>3. Append(<<>>, req) = <<req>>
      OBVIOUS
    <3>4. Silent'
      BY <3>1, <3>2, <3>3 DEF Silent
    <3> QED BY <3>1, <3>2, <3>4 DEF WireInv, OwnAnswer
  <2>4. CASE WriteFails
    BY <2>4, ClosedEmptyKeepsWire DEF WriteFails
  <2>5. CASE ReadHead
    BY <2>5, ReadHeadKeepsWire
  <2>6. CASE BodyTooLarge
    BY <2>6, FailedKeepsWire DEF BodyTooLarge
  <2>7. CASE ReadExactBody
    BY <2>7, ReadExactBodyKeepsWire
  <2>8. CASE ReadChunk
    BY <2>8, ReadChunkKeepsWire
  <2>9. CASE EndOfStream
    <3>1. pc # "idle"
      BY <2>9 DEF EndOfStream, Starved
    <3>2. Failed("Closed") \/ ClosedEmpty(tries)
      BY <2>9 DEF EndOfStream
    <3> QED BY <3>1, <3>2, FailedKeepsWire, ClosedEmptyKeepsWire
  <2>10. CASE TimedOut
    BY <2>10, FailedKeepsWire DEF TimedOut
  <2>11. CASE \E n \in 1..Len(outbox) : ReadMore(n)
    BY <2>11, ReadMoreKeepsWire
  <2> QED BY <1>2, <2>1, <2>2, <2>3, <2>4, <2>5, <2>6, <2>7, <2>8, <2>9, <2>10, <2>11 DEF Send
<1>3. CASE Serve
  BY <1>3, AnswerKeepsWire, CloseKeepsWire DEF Serve
<1>4. CASE UNCHANGED vars
  <2>1. UNCHANGED <<req, pc, head, out, outcome, rbuf, inbox, outbox, answer>>
    BY <1>4 DEF vars, client, server
  <2>2. UNCHANGED <<Silent, Answered(0), Answered(answer.head_len), HeadRead, ChunksRead, OwnAnswer>>
    BY <2>1 DEF Silent, Answered, HeadRead, ChunksRead, OwnAnswer
  <2> QED BY <2>1, <2>2 DEF WireInv
<1> QED BY <1>1, <1>2, <1>3, <1>4 DEF Next

(* Between requests a connection that is kept has no unread byte and no    *)
(* answer to come (Connection::round_trip, S3Client::send), for every      *)
(* server that frames its bodies as its headers say, every limit and any   *)
(* number of requests.                                                     *)
THEOREM KeptConnectionsAreClean == Spec => []ReusedConnectionIsClean
<1>1. Init => WireInv BY WireInit
<1>2. WireInv /\ [Next]_vars => WireInv' BY WireStep
<1>3. WireInv => ReusedConnectionIsClean BY DEF WireInv, ReusedConnectionIsClean
<1> QED BY <1>1, <1>2, <1>3, PTL DEF Spec

(* A request that succeeds returns exactly the content the server sent for *)
(* it (read_body), never a late or a partial answer, however the bytes     *)
(* arrive, for every such server.                                          *)
THEOREM AnswersAreTheRequests == Spec => []OwnAnswer
<1>1. Init => WireInv BY WireInit
<1>2. WireInv /\ [Next]_vars => WireInv' BY WireStep
<1>3. WireInv => OwnAnswer BY DEF WireInv
<1> QED BY <1>1, <1>2, <1>3, PTL DEF Spec
=============================================================================
