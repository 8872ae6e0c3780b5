---------------------------- MODULE MCHttpClient ----------------------------
EXTENDS HttpClient

Header(name, value) == [name |-> name, value |-> value]
Length(n) == Header("content-length", n)
Chunked == Header("transfer-encoding", "chunked")
ConnectionClose == Header("connection", "close")

DataTokens(n) == [i \in 1..n |-> [type |-> "data", n |-> 0]]
ChunkTokens(n) == <<[type |-> "size", n |-> n]>> \o DataTokens(n) \o <<[type |-> "crlf", n |-> 0]>>

Response(status, head_len, headers, body) ==
    [status |-> status, head_len |-> head_len, headers |-> headers, body |-> body]

(* With MaxBody = 2, MaxHead = 2 and DiscardCap = 1.                       *)
MCResponses == {
    Response("2xx", 2, <<Length(1)>>, DataTokens(1)),
    Response("2xx", 1, <<Length(2), ConnectionClose>>, DataTokens(2)),
    Response("2xx", 1, <<Chunked>>, ChunkTokens(1) \o ChunkTokens(1) \o ChunkTokens(0)),
    Response("2xx", 1, <<Chunked>>, ChunkTokens(2) \o ChunkTokens(1) \o ChunkTokens(0)),
    Response("2xx", 1, <<Chunked>>, ChunkTokens(1) \o DataTokens(1)),          \* no size line
    Response("2xx", 1, <<Chunked>>, <<[type |-> "size", n |-> 1]>> \o DataTokens(2)),  \* no CRLF
    Response("2xx", 1, <<Length(3)>>, DataTokens(3)),
    Response("2xx", 1, <<Length(1), Chunked>>, ChunkTokens(1) \o ChunkTokens(0)),
    Response("2xx", 1, <<Length(1), Length(2)>>, DataTokens(2)),
    Response("2xx", 1, <<>>, DataTokens(1)),
    Response("2xx", 3, <<Length(0)>>, <<>>),
    Response("2xx", 1, <<Length(2)>>, DataTokens(1)),          \* stalls within the body
    Response("2xx", 1, <<Length(None)>>, DataTokens(1)),
    Response("2xx", 1, <<Header("malformed", None), Length(0)>>, <<>>),
    Response("2xx", 1, <<Header("content-encoding", "gzip"), Length(1)>>, DataTokens(1)),
    Response("1xx", 1, <<Length(0)>>, <<>>),
    Response("204", 1, <<>>, <<>>),
    Response("204", 2, <<Length(1), ConnectionClose>>, <<>>),
    Response("304", 1, <<Length(1)>>, <<>>),
    Response("5xx", 1, <<Length(1)>>, DataTokens(1)),
    Response("5xx", 1, <<Length(2)>>, DataTokens(2)),
    Response("5xx", 1, <<Chunked>>, ChunkTokens(2) \o ChunkTokens(0))}
=============================================================================
