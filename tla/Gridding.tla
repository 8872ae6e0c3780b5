------------------------------- MODULE Gridding -------------------------------
(***************************************************************************)
(* compute/grid.rs: one moment of a closed sweep scattered into a dense    *)
(* polar grid.                                                             *)
(*                                                                         *)
(* A radial is its spacing code, its azimuth in units of which Circle make *)
(* a turn, and its moment of the product at hand, or None.  Quantities     *)
(* that the code holds as floats are integers or quotients of integers     *)
(* here, so that every floor and every rounding is exact.                  *)
(***************************************************************************)
EXTENDS Integers, Sequences, FiniteSets, SequencesExt, FiniteSetsExt

CONSTANTS
    None,
    Circle,     \* 360 degrees
    SuperRes,   \* 720 azimuths
    Standard,   \* 360 azimuths
    InferAt     \* 540 radials

(* f32::round of a/b, b > 0: half away from zero.                          *)
Round(a, b) == IF a >= 0 THEN (2 * a + b) \div (2 * b) ELSE -((b - 2 * a) \div (2 * b))

Clamp(v, low, high) == IF v < low THEN low ELSE IF v > high THEN high ELSE v

(* modal_azimuth_count: the commonest code decides, and among codes tied   *)
(* for it the iteration order of a HashMap, so there is a set of outcomes. *)
modal_azimuth_count(sweep) ==
    LET count(code) == Cardinality({i \in DOMAIN sweep : sweep[i].code = code})
        codes       == {sweep[i].code : i \in DOMAIN sweep}
        inferred    == IF Len(sweep) >= InferAt THEN SuperRes ELSE Standard
        chosen(code) == CASE code = 1 -> [azimuths |-> SuperRes, inferred |-> FALSE]
                          [] code = 2 -> [azimuths |-> Standard, inferred |-> FALSE]
                          [] OTHER    -> [azimuths |-> inferred, inferred |-> TRUE]
    IN  {chosen(code) : code \in {c \in codes : \A d \in codes : count(d) <= count(c)}}

azimuth_slot_Rounded(azimuth, azimuth_count) == Round(azimuth * azimuth_count, Circle) % azimuth_count

(* The slot whose sector holds the azimuth; rem_euclid brings 360 and      *)
(* angles below 0 round.                                                   *)
azimuth_slot(azimuth, azimuth_count) == ((azimuth * azimuth_count) \div Circle) % azimuth_count

Geometry(moment) ==
    [gate_count |-> Len(moment.gates), first_gate |-> moment.first_gate,
     gate_width |-> moment.gate_width, word_size |-> moment.word_size]

Carrying(sweep) == {i \in DOMAIN sweep : sweep[i].moment # None}

(* source_geometry: the moment of the first radial that has it.            *)
source_geometry(sweep) ==
    IF Carrying(sweep) = {} THEN None ELSE sweep[Min(Carrying(sweep))].moment

(* 253 levels over -8..8 dB: 253/16 per dB, and -8 dB is cell 2.           *)
ZDR_DISPLAY_MIN_DB == -8
ZDR_DISPLAY_MAX_DB == 8
ZDR_DISPLAY_SPAN == ZDR_DISPLAY_MAX_DB - ZDR_DISPLAY_MIN_DB

(* quantise_zdr of the physical value num/den.                             *)
quantise_zdr(num, den) ==
    Clamp(2 + Round((num - ZDR_DISPLAY_MIN_DB * den) * 253, ZDR_DISPLAY_SPAN * den), 2, 255)

(* A 16-bit moment is requantised with the scale of the first radial;      *)
(* 0 and 1 keep their meaning.                                             *)
Cell(raw, geometry) ==
    IF geometry.word_size = 16 /\ raw >= 2
    THEN quantise_zdr(raw - geometry.offset, geometry.scale) ELSE raw

(* One turn of the loop over the radials.                                  *)
Scatter(grid, radial, geometry) ==
    IF radial.moment = None THEN grid
    ELSE IF Geometry(radial.moment) # Geometry(geometry) THEN [grid EXCEPT !.skipped = @ + 1]
    ELSE LET slot == azimuth_slot(radial.azimuth, grid.azimuth_count)
         IN  [grid EXCEPT !.cells[slot] = [g \in DOMAIN @ |-> Cell(radial.moment.gates[g + 1], geometry)],
                          !.duplicates = @ + (IF slot \in grid.filled THEN 1 ELSE 0),
                          !.filled = @ \cup {slot}]

EmptyGrid(azimuth_count, gate_count) ==
    [azimuth_count |-> azimuth_count,
     cells |-> [slot \in 0..(azimuth_count - 1) |-> [g \in 0..(gate_count - 1) |-> 0]],
     filled |-> {}, skipped |-> 0, duplicates |-> 0]

(* grid_sweep, with the azimuth count that modal_azimuth_count chose; None *)
(* where no radial carries the moment or its geometry is degenerate.       *)
grid_sweep(sweep, azimuth_count) ==
    LET geometry == source_geometry(sweep)
        after[n \in 0..Len(sweep)] ==
            IF n = 0 THEN EmptyGrid(azimuth_count, Len(geometry.gates))
            ELSE Scatter(after[n - 1], sweep[n], geometry)
    IN  IF geometry = None \/ geometry.gate_width = 0 \/ geometry.gates = <<>> THEN None
        ELSE after[Len(sweep)]

(* SweepGrid::physical, in halves of the unit of a moment whose scale      *)
(* divides 2.                                                              *)
physical(grid, azimuth, gate) ==
    LET raw == grid.cells[azimuth][gate]
    IN  IF raw < 2 THEN None ELSE ((raw - grid.offset) * 2) \div grid.scale
=============================================================================
