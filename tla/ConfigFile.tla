------------------------------ MODULE ConfigFile ------------------------------
(***************************************************************************)
(* The shared configuration file: config/parse.rs, config/mod.rs and       *)
(* config/save.rs as operators on the file's lines.                        *)
(*                                                                         *)
(* A line is a comment (or blank), a text without '=', or a pair.  The     *)
(* text of a value is the number it stands for: the number itself for a    *)
(* dimension or an interval, a position in the list of products, a site,     *)
(* 0 and 1 for false and true; a text its key's parser refuses is a number *)
(* that the key does not accept.                                           *)
(***************************************************************************)
EXTENDS Integers, Sequences, FiniteSets, SequencesExt

CONSTANTS
    None,
    MalformedKeys,  \* left sides of '=' that are not dotted words
    Sites,          \* the ids in SITES
    DisplayProducts \* positions in DisplayProduct::ALL

SITE_KEY == "site"
POLL_INTERVAL_KEY == "ingest.poll_interval_seconds"

(* The keys an instance writes, in the order run_render looks at them.     *)
ViewOrder == <<"window.width", "window.height", "view.product", "view.highways",
               "view.reference">>
ViewKeys == ToSet(ViewOrder)

POLL_INTERVAL_MIN == 2
POLL_INTERVAL_MAX == 60
DEFAULT_POLL_INTERVAL == 5

Comment == [kind |-> "comment", key |-> None, value |-> 0]
Text == [kind |-> "text", key |-> None, value |-> 0]
Pair(key, value) == [kind |-> "pair", key |-> key, value |-> value]

-----------------------------------------------------------------------------
(* config/parse.rs *)

is_valid_key(key) == key \notin MalformedKeys

line_key(line) ==
    IF line.kind = "pair" /\ is_valid_key(line.key) THEN line.key ELSE None

(* The lines that define a key.                                            *)
LinesOf(text, key) == {i \in DOMAIN text : line_key(text[i]) = key}

(* The last definition of a key is the one that counts.                    *)
parse(text) ==
    LET keys == {line_key(text[i]) : i \in DOMAIN text} \ {None}
    IN  [pairs   |-> [k \in keys |-> text[Max(LinesOf(text, k))].value],
         skipped |-> {i \in DOMAIN text : text[i].kind # "comment" /\ line_key(text[i]) = None}]

-----------------------------------------------------------------------------
(* config/mod.rs *)

WINDOW_WIDTH_RANGE == 640..7680
WINDOW_HEIGHT_RANGE == 480..4320

default == [k \in ViewKeys \cup {SITE_KEY, POLL_INTERVAL_KEY} |->
                IF k = POLL_INTERVAL_KEY THEN DEFAULT_POLL_INTERVAL ELSE None]

parse_dimension(value, range) == IF value \in range THEN value ELSE None

parse_bool(value) == IF value \in {0, 1} THEN value ELSE None

clamp(secs) == Max({POLL_INTERVAL_MIN, Min({POLL_INTERVAL_MAX, secs})})

(* What a key's value sets its field to.                                   *)
apply_key(key, value) ==
    CASE key = SITE_KEY          -> IF value \in Sites THEN value ELSE None
      [] key = POLL_INTERVAL_KEY -> IF value \in Nat THEN clamp(value) ELSE DEFAULT_POLL_INTERVAL
      [] key = "window.width"    -> parse_dimension(value, WINDOW_WIDTH_RANGE)
      [] key = "window.height"   -> parse_dimension(value, WINDOW_HEIGHT_RANGE)
      [] key = "view.product"    -> IF value \in DisplayProducts THEN value ELSE None
      [] OTHER                   -> parse_bool(value)

(* The event an unusable value is reported with.                           *)
ApplyEvents(key, value) ==
    CASE key = POLL_INTERVAL_KEY /\ value \in Nat ->
            IF clamp(value) # value THEN {<<"ConfigPollIntervalClamped", value>>} ELSE {}
      [] key = SITE_KEY /\ value \notin Sites -> {<<"ConfigUnknownSite", value>>}
      [] OTHER -> IF key = POLL_INTERVAL_KEY \/ apply_key(key, value) = None
                  THEN {<<"ConfigValueInvalid", key>>} ELSE {}

(* A file is its text, or why there is none to read.                       *)
Absent == [state |-> "absent", text |-> <<>>]
Present(text) == [state |-> "present", text |-> text]
Unreadable(text) == [state |-> "unreadable", text |-> text]

load(file) ==
    LET parsed == parse(file.text)
        known  == DOMAIN parsed.pairs \cap DOMAIN default
    IN  IF file.state # "present"
        THEN [config |-> default,
              events |-> IF file.state = "absent" THEN {} ELSE {<<"ConfigUnreadable", 0>>}]
        ELSE [config |-> [k \in DOMAIN default |->
                             IF k \in known THEN apply_key(k, parsed.pairs[k]) ELSE default[k]],
              events |-> {<<"ConfigLineUnparseable", i>> : i \in parsed.skipped} \cup
                         UNION {ApplyEvents(k, parsed.pairs[k]) : k \in known}]

-----------------------------------------------------------------------------
(* config/save.rs *)

(* The first line of a changed key is rewritten.                           *)
rewritten(text, changes) ==
    [i \in DOMAIN text |->
        LET k == line_key(text[i])
        IN  IF k \in DOMAIN changes /\ i = Min(LinesOf(text, k)) THEN Pair(k, changes[k])
            ELSE text[i]]

(* A changed key without a line is appended.                               *)
push_new(lines, text, changes, k) ==
    IF k \in DOMAIN changes /\ LinesOf(text, k) = {} THEN Append(lines, Pair(k, changes[k]))
    ELSE lines

save(text, changes) ==
    LET pushed[n \in 0..Len(ViewOrder)] ==
            IF n = 0 THEN rewritten(text, changes)
            ELSE push_new(pushed[n - 1], text, changes, ViewOrder[n])
    IN  pushed[Len(ViewOrder)]
=============================================================================
