-------------------------------- MODULE Palette --------------------------------
(***************************************************************************)
(* compute/palette.rs: colour tables.  A line is [directive, nums]: the    *)
(* first word without its colon and the numbers that follow in tenths, or  *)
(* None where one of them does not parse; of a Step only the first counts. *)
(* The units' text is left out.                                            *)
(***************************************************************************)
EXTENDS Integers, Sequences, FiniteSets, SequencesExt

CONSTANT None

Blank == [directive |-> "blank", nums |-> <<>>]

Opaque == 255

(* clamp_u8: rounded, then cut to a byte.                                  *)
clamp_u8(v) ==
    LET r == (2 * v + 10) \div 20 IN IF v <= 0 THEN 0 ELSE IF r > 255 THEN 255 ELSE r

(* color_from and apply_fixed_color: three numbers are an opaque colour.   *)
color_from(nums) ==
    [i \in 1..4 |-> IF i <= Len(nums) THEN clamp_u8(nums[i]) ELSE Opaque]

Empty == [step |-> None, entries |-> <<>>, range_folded |-> <<160, 160, 160, 255>>,
          no_data |-> <<0, 0, 0, 0>>, rejected |-> <<>>]

has_entries(palette) == palette.entries # <<>>

Width(directive) == IF directive \in {"Color4", "SolidColor4"} THEN 4 ELSE 3

(* A threshold and one colour, or two unless the directive is solid.       *)
apply_color(palette, line) ==
    LET width == Width(line.directive)
        nums  == line.nums
        from  == color_from(SubSeq(nums, 2, 1 + width))
        to    == IF Len(nums) = 1 + width THEN None
                 ELSE color_from(SubSeq(nums, 2 + width, 1 + 2 * width))
    IN  [palette EXCEPT !.entries = Append(@, [threshold |-> nums[1], from |-> from, to |-> to])]

WellFormed(line) ==
    \/ line.directive \in {"Product", "Units"}
    \/ /\ line.directive # "unknown" /\ line.nums # None
       /\ CASE line.directive = "Step"         -> line.nums # <<>>
            [] line.directive \in {"RF", "ND"} -> Len(line.nums) \in {3, 4}
            [] OTHER -> Len(line.nums) \in {1 + Width(line.directive)}
                          \cup (IF line.directive \in {"Color", "Color4"}
                                THEN {1 + 2 * Width(line.directive)} ELSE {})

(* apply_directive of the line at position n; a line that is not well      *)
(* formed is reported and changes nothing.                                 *)
apply_directive(palette, line, n) ==
    IF ~WellFormed(line) THEN [palette EXCEPT !.rejected = Append(@, n)]
    ELSE CASE line.directive \in {"Product", "Units"}  -> palette
           [] line.directive = "Step"                  -> [palette EXCEPT !.step = line.nums[1]]
           [] line.directive = "RF" -> [palette EXCEPT !.range_folded = color_from(line.nums)]
           [] line.directive = "ND" -> [palette EXCEPT !.no_data = color_from(line.nums)]
           [] OTHER                 -> apply_color(palette, line)

(* sort_by is stable: equal thresholds keep the order of their lines.      *)
Ascending(entries) ==
    LET before(i, j) == \/ entries[i].threshold < entries[j].threshold
                        \/ entries[i].threshold = entries[j].threshold /\ i < j
    IN  [n \in DOMAIN entries |->
            entries[CHOOSE i \in DOMAIN entries :
                       Cardinality({j \in DOMAIN entries : before(j, i)}) = n - 1]]

parse_Unsorted(lines) ==
    FoldLeft(LAMBDA p, n : IF lines[n] = Blank THEN p ELSE apply_directive(p, lines[n], n),
             Empty, [n \in DOMAIN lines |-> n])

parse(lines) ==
    LET palette == FoldLeft(LAMBDA p, n : IF lines[n] = Blank THEN p ELSE apply_directive(p, lines[n], n),
                            Empty, [n \in DOMAIN lines |-> n])
    IN  [palette EXCEPT !.entries = Ascending(@)]

(* From a to b at num/den of the way.                                      *)
lerp_color(a, b, num, den) ==
    [i \in 1..4 |-> (2 * (a[i] * den + (b[i] - a[i]) * num) + den) \div (2 * den)]

sample_Strictly(palette, v, scale) ==
    LET reached == SelectSeq(palette.entries, LAMBDA e : e.threshold * scale < v)
    IN  IF reached = <<>> THEN palette.no_data ELSE reached[Len(reached)].from

(* The colour of the value v/scale, in tenths: that of the last threshold  *)
(* it reaches, ramped towards the next where the entry is a gradient.      *)
sample(palette, v, scale) ==
    LET entries == palette.entries
        idx     == Len(SelectSeq(entries, LAMBDA e : e.threshold * scale <= v))
        entry   == entries[idx]
        span    == entries[idx + 1].threshold - entry.threshold
    IN  CASE idx = 0                                     -> palette.no_data
          [] idx > 0 /\ (entry.to = None \/ idx = Len(entries)) -> entry.from
          [] OTHER -> lerp_color(entry.from, entry.to, v - entry.threshold * scale, span * scale)

(* compile_lut of the raw values asked for.                                *)
compile_lut(palette, scale, offset, raws) ==
    [raw \in raws |-> CASE raw = 0 -> palette.no_data
                        [] raw = 1 -> palette.range_folded
                        [] OTHER   -> sample(palette, 10 * (raw - offset), scale)]

(* load_all for one product.  The user's file is [kind, lines], its kind   *)
(* absent, unreadable or present.                                          *)
load_all(bundled, user) ==
    IF user.kind = "present" /\ has_entries(parse(user.lines)) THEN parse(user.lines) ELSE parse(bundled)
=============================================================================
