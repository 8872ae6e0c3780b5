---------------------------- MODULE DerivedProducts ----------------------------
(***************************************************************************)
(* compute/derived.rs: echo tops and VIL from the reflectivity grids of a  *)
(* closed volume, in the order in which their sweeps closed.               *)
(*                                                                         *)
(* Elevations are thousandths of a degree, lengths metres, reflectivities  *)
(* half dBZ and liquid water thousandths of kg/m2.  The beam geometry and  *)
(* the Z-M relation are real functions; they are constants of the module.  *)
(***************************************************************************)
EXTENDS Gridding

CONSTANTS
    SlantRange(_, _),     \* slant_range_and_height(ground, elevation)
    BeamHeight(_, _),
    LayerWater(_, _, _)   \* vil_layer_contribution of two reflectivities and a depth

ECHO_TOP_THRESHOLD == 2 * 18
VIL_HAIL_CAP == 2 * 56
ECHO_TOP_MAX_KFT == 70
VIL_MAX == 80000

Bucket(grid) == Round(grid.elevation, 10)

distinct_tilts_ascending_OldestWins(ref_grids) ==
    LET buckets == {Bucket(ref_grids[i]) : i \in DOMAIN ref_grids}
        of(b)   == ref_grids[Min({i \in DOMAIN ref_grids : Bucket(ref_grids[i]) = b})]
    IN  [n \in 1..Cardinality(buckets) |->
            of(CHOOSE b \in buckets : Cardinality({c \in buckets : c < b}) = n - 1)]

(* One grid per angle, rounded to 0.01 degree, ascending; the newest wins. *)
distinct_tilts_ascending(ref_grids) ==
    LET buckets == {Bucket(ref_grids[i]) : i \in DOMAIN ref_grids}
        of(b)   == ref_grids[Max({i \in DOMAIN ref_grids : Bucket(ref_grids[i]) = b})]
    IN  [n \in 1..Cardinality(buckets) |->
            of(CHOOSE b \in buckets : Cardinality({c \in buckets : c < b}) = n - 1)]

(* The centre of slot a, at (2a + 1)/2 slots, in the slots of the tilt.    *)
reindex_azimuth(a, from_count, to_count) ==
    IF from_count = to_count THEN a
    ELSE (((2 * a + 1) * to_count) \div (2 * from_count)) % to_count

(* The gate of the tilt at a slant range, None beyond its coverage.        *)
gate_index(slant, tilt) ==
    IF \/ tilt.gate_width = 0 \/ slant < tilt.first_gate
       \/ slant - tilt.first_gate >= tilt.gate_count * tilt.gate_width
    THEN None
    ELSE (slant - tilt.first_gate) \div tilt.gate_width

(* What the tilt measured in the column of an output cell.                 *)
Measured(tilt, out, a, g) ==
    LET gate == gate_index(SlantRange(out.first_gate + g * out.gate_width, tilt.elevation), tilt)
    IN  IF gate = None THEN None
        ELSE physical(tilt, reindex_azimuth(a, out.azimuth_count, tilt.azimuth_count), gate)

HeightIn(tilt, out, g) == BeamHeight(out.first_gate + g * out.gate_width, tilt.elevation)

(* quantise: num/den of the range 0..max onto the cells 2..255.            *)
quantise(num, max) == Clamp(2 + Round(Clamp(num, 0, max) * 253, max), 2, 255)

(* 0.3048 m per foot: 70 kft are 21336 m.                                  *)
KftCell(height) == quantise(height, (ECHO_TOP_MAX_KFT * 3048) \div 10)

Azimuths(out) == 0..(out.azimuth_count - 1)
Gates(out) == 0..(out.gate_count - 1)

(* From the highest tilt down, the first that reaches the threshold.       *)
echo_tops(tilts, out) ==
    LET column(a, g) ==
          LET echoes == {i \in DOMAIN tilts : /\ Measured(tilts[i], out, a, g) # None
                                              /\ Measured(tilts[i], out, a, g) >= ECHO_TOP_THRESHOLD}
          IN  IF echoes = {} THEN 0 ELSE KftCell(HeightIn(tilts[Max(echoes)], out, g))
    IN  [a \in Azimuths(out) |-> [g \in Gates(out) |-> column(a, g)]]

(* The sum over adjacent tilts with data; a single one is no integral.     *)
vil(tilts, out) ==
    LET column(a, g) ==
          LET points == SelectSeq(tilts, LAMBDA t : Measured(t, out, a, g) # None)
              dbz(i) == Clamp(Measured(points[i], out, a, g), -1000, VIL_HAIL_CAP)
              layer(i) == LayerWater(dbz(i), dbz(i + 1),
                                     HeightIn(points[i + 1], out, g) - HeightIn(points[i], out, g))
          IN  IF Len(points) < 2 THEN 0
              ELSE quantise(FoldLeft(+, 0, [i \in 1..(Len(points) - 1) |-> layer(i)]), VIL_MAX)
    IN  [a \in Azimuths(out) |-> [g \in Gates(out) |-> column(a, g)]]

(* Both on the geometry of the lowest tilt, or nothing without a tilt.     *)
compute_derived(ref_grids) ==
    LET tilts == distinct_tilts_ascending(ref_grids)
    IN  IF tilts = <<>> THEN None
        ELSE [echo_tops |-> echo_tops(tilts, tilts[1]), vil |-> vil(tilts, tilts[1])]
=============================================================================
