------------------------------ MODULE HttpClient ------------------------------
(***************************************************************************)
(* The HTTP client of the poller: S3Client::send over one keep-alive       *)
(* Connection, against a server (external) that answers in order, slowly,  *)
(* in pieces, or not at all, and may close at any moment.                  *)
(*                                                                         *)
(* Bytes are tokens.  A response is the tokens of its head, the last of    *)
(* which completes it, and of its body: "data" for a byte of content, and  *)
(* for a chunked body a "size" line before and a "crlf" after the data of  *)
(* each chunk.  A token carries the number of the request it answers.      *)
(* A header is a name and a value; "malformed" stands for any line that    *)
(* parse_header_line rejects.                                              *)
(*                                                                         *)
(*   idle      no request                                                  *)
(*   connect   Connection::connect                                         *)
(*   write     write_all and flush                                         *)
(*   head      read_head                                                   *)
(*   body      read_body                                                   *)
(***************************************************************************)
EXTENDS Naturals, Sequences

CONSTANTS
    None,
    Responses,       \* what the server may answer
    MaxHead,         \* max_head_bytes, in tokens
    MaxHeaderCount,  \* max_header_count
    MaxBody,         \* max_body_bytes
    DiscardCap,      \* DISCARD_CAP
    MaxRequests      \* bound: requests in one behaviour

ASSUME HttpAssumption ==
    /\ MaxHead \in Nat \ {0} /\ MaxHeaderCount \in Nat
    /\ MaxBody \in Nat /\ DiscardCap \in Nat /\ MaxRequests \in Nat

VARIABLES
    req,        \* number of the current or last request
    pc,
    conn,       \* S3Client.conn: TRUE when there is a connection
    reused,     \* send's local of that name
    tries,      \* attempts of the current request
    any_bytes,  \* round_trip's local of that name
    rbuf,       \* Wire.rbuf
    head,       \* the parsed head, None outside read_body
    out,        \* body data taken so far
    outcome,    \* what send returned for the last request
    inbox,      \* server: requests of this connection it has not answered
    outbox,     \* network: tokens on their way to the client
    open,       \* server: it has not closed this connection
    answer,     \* history: the server's response to the current request
    heard       \* history: something of it was read

client == <<req, pc, conn, reused, tries, any_bytes, rbuf, head, out, outcome>>
server == <<inbox, outbox, open, answer, heard>>
vars == <<client, server>>

-----------------------------------------------------------------------------
(* response.rs *)

Min2(a, b) == IF a < b THEN a ELSE b

Values(headers, name) == {i \in DOMAIN headers : headers[i].name = name}

Value(headers, name) ==
    headers[CHOOSE i \in Values(headers, name) : \A j \in Values(headers, name) : i <= j].value

parse_content_length(value) == value \in Nat

Duplicate_FirstWins(headers) == FALSE

(* Why a complete head is refused, in the parser's own terms.              *)
Duplicate(headers) ==
    \E name \in {"content-length", "transfer-encoding"} :
        \E i, j \in Values(headers, name) : i # j

Unsupported(headers) ==
    \E i \in DOMAIN headers :
        \/ headers[i].name = "malformed"
        \/ headers[i].name = "content-length" /\ ~parse_content_length(headers[i].value)
        \/ headers[i].name = "transfer-encoding" /\ headers[i].value # "chunked"
        \/ headers[i].name = "content-encoding" /\ headers[i].value # "identity"

Rejected(r) ==
    \/ Len(r.headers) > MaxHeaderCount
    \/ Duplicate(r.headers) \/ Unsupported(r.headers)
    \/ Values(r.headers, "content-length") # {} /\ Values(r.headers, "transfer-encoding") # {}
    \/ r.status \in {"1xx", "malformed"}

(* BodyFraming of a head that is not refused for its headers.              *)
framing(r) ==
    IF r.status \in {"204", "304"} THEN [kind |-> "None"]
    ELSE IF Values(r.headers, "transfer-encoding") # {} THEN [kind |-> "Chunked"]
    ELSE IF Values(r.headers, "content-length") # {}
    THEN [kind |-> "ContentLength", len |-> Value(r.headers, "content-length")]
    ELSE [kind |-> "Missing"]

connection_close(r) ==
    \E i \in Values(r.headers, "connection") : r.headers[i].value = "close"

HeadEnd(buf) == {i \in 1..Min2(Len(buf), MaxHead) : buf[i].type = "headend"}

(* parse_head over the read buffer: incomplete, an error, or a Head.       *)
parse_head(buf) ==
    IF \E i \in 1..Min2(Len(buf), MaxHead) : buf[i].type \notin {"head", "headend"}
           /\ \A j \in HeadEnd(buf) : i < j
    THEN [type |-> "error", error |-> "Protocol"]
    ELSE IF HeadEnd(buf) = {}
    THEN IF Len(buf) >= MaxHead
         THEN [type |-> "error", error |-> "Protocol"] ELSE [type |-> "incomplete"]
    ELSE LET end == CHOOSE i \in HeadEnd(buf) : \A j \in HeadEnd(buf) : i <= j
             r   == buf[end].response
             f   == framing(r)
         IN  IF Rejected(r) \/ f.kind = "Missing"
             THEN [type |-> "error", error |-> "Protocol"]
             ELSE IF f.kind = "ContentLength" /\ f.len > MaxBody
             THEN [type |-> "error", error |-> "BodyTooLarge"]
             ELSE [type |-> "head", status |-> r.status, framing |-> f,
                   connection_close |-> connection_close(r), head_len |-> end]

-----------------------------------------------------------------------------
(* The server and the network (external) *)

(* The body of a chunked response: B is where its chunks start.  The last  *)
(* chunk, of size 0, ends it; a server that stalls may have sent less, and *)
(* one that errs no size line or no CRLF where it should be.               *)
ChunkFramed(body, B) ==
    /\ 0 \in B
    /\ \A b \in B : (b < Len(body) /\ body[b + 1].type = "size") =>
          LET n == body[b + 1].n
          IN  /\ \A i \in 1..n : b + 1 + i <= Len(body) => body[b + 1 + i].type = "data"
              /\ (b + n + 2 <= Len(body) /\ body[b + n + 2].type = "crlf") =>
                    IF n = 0 THEN Len(body) <= b + 2 ELSE b + n + 2 \in B

(* What HTTP/1.1 asks of a server: where the headers say unambiguously how *)
(* long the body is, it sends no more than that.                           *)
WellFramed(r) ==
    LET lengths == Values(r.headers, "content-length")
        codings == Values(r.headers, "transfer-encoding")
    IN  /\ r.status \in {"204", "304"} => r.body = <<>>
        /\ (r.status \notin {"204", "304"} /\ codings = {}) =>
              \A i \in lengths : (lengths = {i} /\ r.headers[i].value \in Nat) =>
                  /\ Len(r.body) <= r.headers[i].value
                  /\ \A j \in DOMAIN r.body : r.body[j].type = "data"
        /\ (r.status \notin {"204", "304"} /\ codings # {} /\ lengths = {}) =>
              \E B \in SUBSET (0..Len(r.body)) : ChunkFramed(r.body, B)

ASSUME ServerAssumption ==
    /\ None \notin Responses
    /\ \A r \in Responses :
          /\ r.head_len \in Nat \ {0}
          /\ Len(r.headers) \in Nat /\ DOMAIN r.headers = 1..Len(r.headers)
          /\ r.body \in Seq([type : {"data", "size", "crlf"}, n : Nat])
          /\ WellFramed(r)

(* What it writes on the wire for request n.                               *)
Tokens(n, r) ==
    [i \in 1..(r.head_len + Len(r.body)) |->
        IF i < r.head_len THEN [type |-> "head", req |-> n]
        ELSE IF i = r.head_len THEN [type |-> "headend", req |-> n, response |-> r]
        ELSE [type |-> r.body[i - r.head_len].type, n |-> r.body[i - r.head_len].n, req |-> n]]

Answer(r) ==
    /\ inbox # <<>> /\ open
    /\ outbox' = outbox \o Tokens(Head(inbox), r)
    /\ inbox' = Tail(inbox)
    /\ open' = ~connection_close(r)
    /\ answer' = IF Head(inbox) = req THEN r ELSE answer
    /\ UNCHANGED <<heard, client>>

(* It closes, an idle connection or one it is answering on; what was not   *)
(* delivered by then may be lost.                                          *)
Close(delivered) ==
    /\ conn /\ open
    /\ open' = FALSE
    /\ outbox' = SubSeq(outbox, 1, delivered)
    /\ UNCHANGED <<inbox, answer, heard, client>>

-----------------------------------------------------------------------------
(* lib.rs: S3Client::send *)

Init ==
    /\ req = 0 /\ pc = "idle" /\ conn = FALSE /\ reused = FALSE /\ tries = 0
    /\ any_bytes = FALSE /\ rbuf = <<>> /\ head = None /\ out = <<>>
    /\ outcome = [type |-> "none"]
    /\ inbox = <<>> /\ outbox = <<>> /\ open = FALSE
    /\ answer = None /\ heard = FALSE

(* send up to its first attempt.                                           *)
Request ==
    /\ pc = "idle" /\ req < MaxRequests
    /\ req' = req + 1
    /\ reused' = conn
    /\ tries' = 0
    /\ pc' = IF conn THEN "write" ELSE "connect"
    /\ outcome' = [type |-> "none"]
    /\ answer' = None /\ heard' = FALSE
    /\ UNCHANGED <<conn, any_bytes, rbuf, head, out, inbox, outbox, open>>

Connect ==
    /\ pc = "connect"
    /\ conn' = TRUE /\ rbuf' = <<>>
    /\ inbox' = <<>> /\ outbox' = <<>> /\ open' = TRUE
    /\ pc' = "write"
    /\ UNCHANGED <<req, reused, tries, any_bytes, head, out, outcome, answer, heard>>

(* send returns.  Without a connection nothing of its wire is left.        *)
Finish(result, keep) ==
    /\ pc' = "idle"
    /\ outcome' = result
    /\ conn' = keep
    /\ head' = None /\ out' = <<>>
    /\ any_bytes' = FALSE
    /\ IF keep THEN UNCHANGED <<inbox, outbox, open>>
               ELSE inbox' = <<>> /\ outbox' = <<>> /\ open' = FALSE

(* TCP or TLS fails or times out.                                          *)
ConnectFails ==
    /\ pc = "connect"
    /\ Finish([type |-> "error", error |-> "Connect"], FALSE)
    /\ rbuf' = <<>>
    /\ UNCHANGED <<req, reused, tries, answer, heard>>

Failed_KeepsConnection(error) ==
    /\ Finish([type |-> "error", error |-> error], error \in {"Timeout", "Http"})
    /\ UNCHANGED <<req, reused, tries, rbuf, answer, heard>>

(* An Attempt::Failed that leaves the connection unusable.                 *)
Failed(error) ==
    /\ Finish([type |-> "error", error |-> error], FALSE)
    /\ rbuf' = <<>>
    /\ UNCHANGED <<req, reused, tries, answer, heard>>

(* A fresh connection for another attempt.                                 *)
Retry(attempt) ==
    /\ pc' = "connect" /\ conn' = FALSE /\ tries' = attempt
    /\ inbox' = <<>> /\ outbox' = <<>> /\ open' = FALSE /\ rbuf' = <<>>
    /\ head' = None /\ out' = <<>> /\ any_bytes' = FALSE
    /\ UNCHANGED <<req, reused, outcome, answer, heard>>

(* Attempt::ClosedEmpty of the given attempt: one more on a fresh          *)
(* connection, if this one was reused and it was the first attempt.        *)
ClosedEmpty(attempt) == IF reused /\ attempt = 1 THEN Retry(1) ELSE Failed("Closed")

-----------------------------------------------------------------------------
(* connection.rs: round_trip *)

(* The request is written; a server that has closed never sees it.         *)
Write ==
    /\ pc = "write"
    /\ pc' = "head"
    /\ tries' = tries + 1
    /\ any_bytes' = FALSE
    /\ inbox' = IF open THEN Append(inbox, req) ELSE inbox
    /\ UNCHANGED <<req, conn, reused, rbuf, head, out, outcome, outbox, open, answer, heard>>

(* write_all or flush is an error: the attempt counts, nothing was read.   *)
WriteFails == pc = "write" /\ ~open /\ ClosedEmpty(tries + 1)

(* 200..299; "2xx" is any of these but 204, which has no body.             *)
is_2xx == head.status \in {"2xx", "204"}

cap == IF is_2xx THEN MaxBody ELSE Min2(DiscardCap, MaxBody)

(* The next chunk of a chunked body that starts at the front of rbuf.      *)
ChunkSize == rbuf[1].n

TooLarge ==
    \/ head.framing.kind = "ContentLength" /\ head.framing.len > cap
    \/ /\ head.framing.kind = "Chunked" /\ rbuf # <<>> /\ rbuf[1].type = "size"
       /\ ChunkSize > 0 /\ Len(out) + ChunkSize > cap

(* Tokens rbuf must hold for the next step of read_body.                   *)
Needed ==
    CASE head.framing.kind = "None" -> 0
      [] head.framing.kind = "ContentLength" -> head.framing.len
      [] head.framing.kind = "Chunked" ->
            IF rbuf # <<>> /\ rbuf[1].type = "size" THEN ChunkSize + 2 ELSE 1

(* read_more has to be called.                                             *)
Starved ==
    \/ pc = "head" /\ parse_head(rbuf).type = "incomplete"
    \/ pc = "body" /\ ~TooLarge /\ Len(rbuf) < Needed

ReadMore(n) ==
    /\ Starved /\ n \in 1..Len(outbox)
    /\ rbuf' = rbuf \o SubSeq(outbox, 1, n)
    /\ outbox' = SubSeq(outbox, n + 1, Len(outbox))
    /\ any_bytes' = TRUE
    /\ heard' = (heard \/ \E i \in 1..n : outbox[i].req = req)
    /\ UNCHANGED <<req, pc, conn, reused, tries, head, out, outcome, inbox, open, answer>>

EndOfStream_AlwaysEmpty ==
    /\ Starved /\ outbox = <<>> /\ ~open
    /\ ClosedEmpty(tries)

(* read_more is Ok(0) or an error: Internal::Io.                           *)
EndOfStream ==
    /\ Starved /\ outbox = <<>> /\ ~open
    /\ IF any_bytes THEN Failed("Closed") ELSE ClosedEmpty(tries)

TimedOut_HeadOnly ==
    /\ pc = "head" /\ Starved
    /\ Failed("Timeout")

(* Nothing came within response_headers or body; it may be on its way.     *)
TimedOut ==
    /\ Starved
    /\ Failed("Timeout")

ReadHead ==
    /\ pc = "head"
    /\ LET h == parse_head(rbuf)
       IN  \/ /\ h.type = "error"
              /\ Failed(h.error)
           \/ /\ h.type = "head"
              /\ head' = h
              /\ rbuf' = SubSeq(rbuf, h.head_len + 1, Len(rbuf))
              /\ pc' = "body"
              /\ UNCHANGED <<req, conn, reused, tries, any_bytes, out, outcome, server>>

(* A body above the cap.  Of an error response the status is what counts.  *)
BodyTooLarge ==
    /\ pc = "body" /\ TooLarge
    /\ Failed(IF is_2xx THEN "BodyTooLarge" ELSE "Http")

(* The body is complete: body is its data, rest what follows it.           *)
Complete(body, rest) ==
    /\ rbuf' = rest
    /\ Finish(IF is_2xx THEN [type |-> "success", body |-> body]
              ELSE [type |-> "error", error |-> "Http"],
              ~head.connection_close)
    /\ UNCHANGED <<req, reused, tries, answer, heard>>

ReadExactBody ==
    /\ pc = "body" /\ ~TooLarge /\ head.framing.kind \in {"None", "ContentLength"}
    /\ Len(rbuf) >= Needed
    /\ Complete(SubSeq(rbuf, 1, Needed), SubSeq(rbuf, Needed + 1, Len(rbuf)))

ReadChunk ==
    /\ pc = "body" /\ ~TooLarge /\ head.framing.kind = "Chunked"
    /\ rbuf # <<>> /\ Len(rbuf) >= Needed
    /\ IF rbuf[1].type # "size" \/ rbuf[Needed].type # "crlf"
       THEN Failed("Protocol")
       ELSE LET rest == SubSeq(rbuf, Needed + 1, Len(rbuf))
            IN  IF ChunkSize = 0
                THEN Complete(out, rest)
                ELSE /\ out' = out \o SubSeq(rbuf, 2, ChunkSize + 1)
                     /\ rbuf' = rest
                     /\ UNCHANGED <<req, pc, conn, reused, tries, any_bytes, head, outcome, server>>

Send == \/ Connect \/ ConnectFails \/ Write \/ WriteFails \/ ReadHead \/ BodyTooLarge
        \/ ReadExactBody \/ ReadChunk \/ EndOfStream \/ TimedOut
        \/ \E n \in 1..Len(outbox) : ReadMore(n)

Serve == (\E r \in Responses : Answer(r)) \/ \E n \in 0..Len(outbox) : Close(n)

Next == Request \/ Send \/ Serve

Spec == Init /\ [][Next]_vars

(* The task is polled and its timers fire.  Nothing is asked of the server. *)
FairSpec == Spec /\ WF_vars(Send)

-----------------------------------------------------------------------------
(* Properties *)

(* data is the first n tokens of s without those that are not content: f   *)
(* tells where each of its tokens was.                                     *)
IsDataOf(data, s, n) ==
    \E f \in [DOMAIN data -> 1..n] :
        /\ \A i, j \in DOMAIN data : i < j => f[i] < f[j]
        /\ {f[i] : i \in DOMAIN data} = {i \in 1..n : s[i].type = "data"}
        /\ \A i \in DOMAIN data : data[i] = s[f[i]]

(* Every variable keeps the shape its Rust declaration gives it; no body   *)
(* is taken beyond the limit in force.                                     *)
TypeOK ==
    /\ req \in 0..MaxRequests /\ tries \in 0..2
    /\ pc \in {"idle", "connect", "write", "head", "body"}
    /\ conn \in BOOLEAN /\ reused \in BOOLEAN /\ any_bytes \in BOOLEAN /\ open \in BOOLEAN
    /\ outcome.type \in {"none", "error", "success"}
    /\ Len(out) <= MaxBody
    /\ inbox \in Seq(1..MaxRequests)

(* A request is answered with its own answer, complete: after a success    *)
(* the body is exactly the content the server sent for this request, never *)
(* a late answer to an earlier one and never part of one.  A 204 is a      *)
(* success without content; an answer of another class is none.            *)
OwnAnswer ==
    outcome.type = "success" =>
        /\ answer # None
        /\ answer.status \in {"2xx", "204"}
        /\ IsDataOf(outcome.body, Tokens(req, answer), Len(Tokens(req, answer)))

(* Between requests a connection that will be used again is clean: no      *)
(* unread byte and no answer still to come, whatever status, framing or    *)
(* size the last response had.                                             *)
ReusedConnectionIsClean ==
    (pc = "idle" /\ conn) => rbuf = <<>> /\ outbox = <<>> /\ inbox = <<>>

(* "This cannot double-deliver": a request goes out a second time only if  *)
(* no byte of an answer to it was read.                                    *)
RetriedOnlyUnanswered == [][ (tries = 1 /\ tries' = 2) => ~heard ]_vars

(* Every request ends, with a server that stays silent, stops in the       *)
(* middle of a body, or keeps closing.                                     *)
RequestEnds == pc # "idle" ~> pc = "idle"
=============================================================================
