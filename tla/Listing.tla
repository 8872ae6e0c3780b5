-------------------------------- MODULE Listing --------------------------------
(***************************************************************************)
(* A paged listing of the bucket, which grows meanwhile: list_all_keys_    *)
(* after and list_volume_folders of s3_poll.rs over the query encoding of  *)
(* http-ingest and the XML reader.                                         *)
(*                                                                         *)
(* Text is a sequence of characters, of which an order key, a volume       *)
(* number or a name counts as one.  The bucket holds keys, in the order of *)
(* their numbers, and folders, in the order of FolderText.                 *)
(***************************************************************************)
EXTENDS Integers, Sequences, FiniteSets, SequencesExt, FiniteSetsExt

CONSTANTS
    None,
    PageSize,    \* keys on a page of the server
    Entries      \* bound: the entries that may ever exist are 1..Entries

VARIABLES
    bucket,      \* the entries that exist
    list,        \* the call in progress, or None
    returned     \* the last call and its result, or None

vars == <<bucket, list, returned>>

PREFIX == <<"KDOX", "/">>

Mark(n) == <<"k1", "k2", "k3", "k4", "k5", "k6">>[n]

(* Keys as the bucket has them, one with a character that XML escapes.     *)
KeyText(n) == PREFIX \o (IF n = 2 THEN <<Mark(n), "&">> ELSE <<Mark(n)>>)

(* Folders in lexical order, 10 before 8, and one that is not a volume.    *)
FolderText(n) == PREFIX \o <<<<"10", "11", "8", "9", "latest", "trash">>[n], "/">>

(* str::parse::<u64> of these names.                                       *)
Number == [name \in {"10", "11", "8", "9"} |->
             CASE name = "10" -> 10 [] name = "11" -> 11 [] name = "8" -> 8 [] name = "9" -> 9]

TextOf(op, n) == IF op = "keys" THEN KeyText(n) ELSE FolderText(n)

-----------------------------------------------------------------------------
(* http-ingest: encode.rs and request.rs *)

Reserved == {"/", "+", "=", "&"}

percent_encode_Plus(text) ==
    IF \E i \in DOMAIN text : text[i] \in {"CR", "LF"} THEN None
    ELSE FlattenSeq([i \in DOMAIN text |-> IF text[i] \in Reserved \ {"+"} THEN <<"%", text[i]>>
                                           ELSE <<text[i]>>])

(* Everything outside the unreserved set is escaped, and a line break      *)
(* refused.                                                                *)
percent_encode(text) ==
    IF \E i \in DOMAIN text : text[i] \in {"CR", "LF"} THEN None
    ELSE FlattenSeq([i \in DOMAIN text |-> IF text[i] \in Reserved THEN <<"%", text[i]>>
                                           ELSE <<text[i]>>])

(* list_query: the parameters; one that is left out is None.               *)
list_query(prefix, start_after, token, delimiter) ==
    LET param(text) == IF text = None THEN None ELSE percent_encode(text)
    IN  [prefix |-> percent_encode(prefix), start_after |-> param(start_after),
         token |-> param(token), delimiter |-> param(delimiter)]

-----------------------------------------------------------------------------
(* The server.  It decodes, reads a bare + as a space, continues after the *)
(* token it gave, and otherwise after start-after.                         *)
Decoded(text) ==
    LET kept == SelectSeq([i \in DOMAIN text |-> i], LAMBDA i : text[i] # "%")
    IN  [i \in DOMAIN kept |->
           IF text[kept[i]] = "+" /\ (kept[i] = 1 \/ text[kept[i] - 1] # "%") THEN " " ELSE text[kept[i]]]

Token(n) == <<Mark(n), "+", "=">>

Element(name, text) ==
    <<[event |-> "start", name |-> name]>>
    \o [i \in DOMAIN text |-> IF text[i] = "&" THEN [event |-> "ref", entity |-> "amp"]
                              ELSE [event |-> "text", text |-> <<text[i]>>]]
    \o <<[event |-> "end", name |-> name]>>

Nested(name, inner) ==
    <<[event |-> "start", name |-> name]>> \o inner \o <<[event |-> "end", name |-> name]>>

(* The answer to a query as XML, None if the token is not one of its own.  *)
Page(op, query) ==
    LET own   == {n \in 1..Entries : Decoded(query.token) = Token(n)}
        after == IF query.token # None THEN (IF own = {} THEN None ELSE CHOOSE n \in own : TRUE)
                 ELSE IF query.start_after # None
                 THEN CHOOSE n \in 1..Entries : Decoded(query.start_after) = TextOf(op, n)
                 ELSE 0
        rest  == {n \in bucket : n > after}
        shown == {n \in rest : Cardinality({m \in rest : m < n}) < PageSize}
        more  == shown # rest
        item(n) == IF op = "keys"
                   THEN Nested("Contents", Element("Key", TextOf(op, n)) \o Element("Size", <<Mark(n)>>))
                   ELSE Nested("CommonPrefixes", Element("Prefix", TextOf(op, n)))
    IN  IF after = None THEN None
        ELSE Nested("ListBucketResult",
               Element("Prefix", PREFIX) \o Element("IsTruncated", <<IF more THEN "true" ELSE "false">>)
               \o (IF more THEN Element("NextContinuationToken", Token(Max(shown))) ELSE <<>>)
               \o FlattenSeq([i \in 1..Cardinality(shown) |->
                                item(CHOOSE n \in shown : Cardinality({m \in shown : m < n}) = i - 1)]))

-----------------------------------------------------------------------------
(* s3_poll.rs: the XML reader *)

resolve_general_ref(entity) == IF entity = "amp" THEN "&" ELSE None

(* Which of the tags that matter a start tag opens.                        *)
ListTag(name, in_common_prefixes) ==
    CASE name \in {"Key", "IsTruncated", "NextContinuationToken"} -> name
      [] name = "Prefix" /\ in_common_prefixes                    -> "CommonPrefix"
      [] OTHER                                                    -> "Other"

EndTag_KeepsTag(s, name) ==
    CASE s.tag = "Key"                   -> [s EXCEPT !.keys = Append(@, s.text), !.text = <<>>]
      [] s.tag = "CommonPrefix"          -> [s EXCEPT !.prefixes = Append(@, s.text), !.text = <<>>]
      [] s.tag = "IsTruncated"           -> [s EXCEPT !.truncated = (s.text = <<"true">>)]
      [] s.tag = "NextContinuationToken" -> [s EXCEPT !.token = s.text, !.text = <<>>]
      [] OTHER                           -> s

EndTag(s, name) ==
    LET in_cp == s.in_cp /\ name # "CommonPrefixes"
        t     == [s EXCEPT !.tag = "Other", !.in_cp = in_cp]
    IN  CASE s.tag = "Key"                   -> [t EXCEPT !.keys = Append(@, s.text), !.text = <<>>]
          [] s.tag = "CommonPrefix"          -> [t EXCEPT !.prefixes = Append(@, s.text), !.text = <<>>]
          [] s.tag = "IsTruncated"           -> [t EXCEPT !.truncated = (s.text = <<"true">>)]
          [] s.tag = "NextContinuationToken" -> [t EXCEPT !.token = s.text, !.text = <<>>]
          [] OTHER                           -> t

parse_list_xml(body) ==
    FoldLeft(LAMBDA s, e :
        CASE e.event = "start" -> [s EXCEPT !.text = <<>>, !.tag = ListTag(e.name, s.in_cp),
                                            !.in_cp = @ \/ e.name = "CommonPrefixes"]
          [] e.event = "text" /\ s.tag # "Other" -> [s EXCEPT !.text = @ \o e.text]
          [] e.event = "ref" /\ s.tag # "Other"  -> [s EXCEPT !.text = Append(@, resolve_general_ref(e.entity))]
          [] e.event = "end"   -> EndTag(s, e.name)
          [] OTHER             -> s,
        [tag |-> "Other", in_cp |-> FALSE, text |-> <<>>, keys |-> <<>>, prefixes |-> <<>>,
         truncated |-> FALSE, token |-> None],
        body)

(* The volume number of a common prefix, None for any other entry.         *)
parse_volume_folder(common_prefix) ==
    IF /\ Len(common_prefix) = 4 /\ SubSeq(common_prefix, 1, 2) = PREFIX /\ common_prefix[4] = "/"
       /\ common_prefix[3] \in DOMAIN Number
    THEN Number[common_prefix[3]] ELSE None

-----------------------------------------------------------------------------
Init == bucket = {} /\ list = None /\ returned = None

(* list_all_keys_after(start_after) or list_volume_folders is called.      *)
Call ==
    /\ list = None /\ returned = None
    /\ \E op \in {"keys", "folders"}, after \in {0, 1, Entries} :
         /\ op = "folders" => after = 0
         /\ after # 0 => after \in bucket
         /\ list' = [op |-> op, after |-> after, token |-> None, first_page |-> TRUE,
                     found |-> <<>>, began |-> bucket, skipped |-> 0]
    /\ UNCHANGED <<bucket, returned>>

(* One page: asked for, read and added; the last one returns.              *)
FetchPage ==
    /\ list # None
    /\ LET query   == list_query(PREFIX, IF list.first_page /\ list.after # 0
                                         THEN KeyText(list.after) ELSE None,
                                 list.token, IF list.op = "folders" THEN <<"/">> ELSE None)
           body    == Page(list.op, query)
           page    == parse_list_xml(body)
           volumes == [i \in DOMAIN page.prefixes |-> parse_volume_folder(page.prefixes[i])]
           found   == IF list.op = "keys" THEN page.keys
                      ELSE SelectSeq(volumes, LAMBDA v : v # None)
           next    == [list EXCEPT !.found = @ \o found, !.token = page.token, !.first_page = FALSE,
                                   !.skipped = @ + Len(page.prefixes) - Len(found)]
       IN  IF body = None
           THEN list' = None /\ returned' = [call |-> list, ok |-> FALSE, refused |-> TRUE]
           ELSE IF page.truncated THEN list' = next /\ UNCHANGED returned
           ELSE list' = None /\ returned' = [call |-> next, ok |-> TRUE, refused |-> FALSE]
    /\ UNCHANGED bucket

(* The request fails: the pages read so far are dropped with it.           *)
PageFails ==
    /\ list # None
    /\ list' = None /\ returned' = [call |-> list, ok |-> FALSE, refused |-> FALSE]
    /\ UNCHANGED bucket

(* Someone uploads, in whatever order.                                     *)
Upload ==
    /\ returned = None
    /\ \E n \in (1..Entries) \ bucket : bucket' = bucket \cup {n}
    /\ UNCHANGED <<list, returned>>

Next == Call \/ FetchPage \/ PageFails \/ Upload

Spec == Init /\ [][Next]_vars

-----------------------------------------------------------------------------
Listed(op, n) == IF op = "keys" THEN KeyText(n) ELSE parse_volume_folder(FolderText(n))

(* A listing over several pages of a bucket that is written meanwhile      *)
(* (list_all_keys_after, list_volume_folders) returns, once each and in    *)
(* order, everything past start_after that was there when it began and     *)
(* nothing that is not there now.  The token survives the XML and the      *)
(* query, so that the server takes it back, and entries that are no volume *)
(* are reported, never returned.                                           *)
ListingIsComplete ==
    /\ returned # None => ~returned.refused
    /\ returned # None /\ returned.ok =>
      LET call == returned.call
          past(set) == {n \in set : n > call.after /\ Listed(call.op, n) # None}
          listed    == {n \in past(bucket) : \E i \in DOMAIN call.found : call.found[i] = Listed(call.op, n)}
      IN  /\ past(call.began) \subseteq listed
          /\ Len(call.found) = Cardinality(listed)
          /\ \A m, n \in listed : m < n =>
               \E i, j \in DOMAIN call.found : i < j /\ call.found[i] = Listed(call.op, m)
                                                     /\ call.found[j] = Listed(call.op, n)
          /\ call.op = "folders" => call.skipped \in
               Cardinality({n \in call.began : Listed(call.op, n) = None})
                 ..Cardinality({n \in bucket : Listed(call.op, n) = None})
=============================================================================
