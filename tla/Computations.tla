----------------------------- MODULE Computations -----------------------------
(***************************************************************************)
(* The parts of the system that compute a result from their inputs and     *)
(* keep no state of their own, each tried on every input of a set and      *)
(* compared with an independent statement of what the result must be: the  *)
(* choice of the GPU, decoding, gridding, the derived products, palettes   *)
(* and the map.  Beside them, the two small machines that nothing else     *)
(* drives: the restart policy and the paged listing.  A behaviour is about *)
(* one of them.                                                            *)
(***************************************************************************)
EXTENDS RestartPolicy, Sequences, FiniteSets, Integers

CONSTANTS
    GpuInputs,       \* [adapters, connectors, over]
    ChunkInputs,     \* [chunk, kind]
    SweepInputs,     \* sequences of radials
    TiltInputs,      \* sequences of reflectivity grids
    PaletteInputs,   \* [bundled, user, scale, offset]
    MapInputs,       \* [bundle, sites, view, cursor, zoom, avail, show_highways]
    MaxDecompressed, Circle, SuperRes, Standard, InferAt,
    SlantRange(_, _), BeamHeight(_, _), LayerWater(_, _, _), AzEq(_),
    PageSize, Entries

VARIABLES
    case,            \* the computation tried, its input and its result, or None
    bucket, list, returned

benchVars == <<policyVars, case, bucket, list, returned>>

Gpu == INSTANCE GpuSelection
Chunk == INSTANCE ChunkDecoder
Grid == INSTANCE DerivedProducts
Colours == INSTANCE Palette
Map == INSTANCE MapLayer
Paging == INSTANCE Listing

(* A moment's gates are counts, 0 and 1 with a meaning of their own, and   *)
(* any other stands for (count - offset) / scale.                          *)
IsMoment(m) ==
    /\ m.gates \in Seq(Nat) /\ m.word_size \in {8, 16}
    /\ m.scale \in Nat \ {0} /\ m.offset \in Int

IsSweep(x) ==
    /\ x \in Seq({x[i] : i \in DOMAIN x})
    /\ \A i \in DOMAIN x : x[i].azimuth \in Int /\ (x[i].moment # None => IsMoment(x[i].moment))

(* The adapters of a machine are numbered, and a turn has azimuths.        *)
ASSUME BenchAssumption ==
    /\ \A x \in GpuInputs : DOMAIN x.adapters \subseteq Nat
    /\ \A x \in SweepInputs : IsSweep(x)
    /\ Circle \in Nat \ {0} /\ SuperRes \in Nat \ {0} /\ Standard \in Nat \ {0}

Tried(fn) == case # None /\ case.fn = fn

-----------------------------------------------------------------------------
BenchInit == PolicyInit /\ Paging!Init /\ case = None

Idle == case = None /\ restarts = 0 /\ bucket = {} /\ list = None /\ returned = None

Try(fn, input, result) ==
    /\ case' = [fn |-> fn, input |-> input, result |-> result]
    /\ UNCHANGED <<policyVars, bucket, list, returned>>

ChooseGpu == Idle /\ \E x \in GpuInputs : Try("gpu", x, Gpu!new(x.adapters, x.connectors, x.over))

Decode == Idle /\ \E x \in ChunkInputs : Try("chunk", x, Chunk!decode_chunk(x.chunk, x.kind))

(* Which of two tied spacing codes wins is the HashMap's choice.           *)
GridSweep ==
    Idle /\ \E x \in SweepInputs : \E modal \in Grid!modal_azimuth_count(x) :
        Try("grid", x, Grid!grid_sweep(x, modal.azimuths))

Derive == Idle /\ \E x \in TiltInputs : Try("derived", x, Grid!compute_derived(x))

Colour ==
    Idle /\ \E x \in PaletteInputs :
        Try("palette", x, LET p == Colours!load_all(x.bundled, x.user)
                          IN  [palette |-> p, lut |-> Colours!compile_lut(p, x.scale, x.offset, 0..255)])

DrawMap ==
    Idle /\ \E x \in MapInputs :
        Try("map", x, LET b == Map!parse(x.bundle)
                          p == Map!project(b)
                          o == Map!new(p, x.sites)
                          v == Map!zoom_about(Map!pan_by_pixels(x.view, x.cursor[2], x.cursor[1]),
                                              x.cursor[1], x.cursor[2], x.zoom[1], x.zoom[2])
                      IN  IF b = None THEN None
                          ELSE [projected |-> p, drawn |-> Map!draw(o, x.show_highways), view |-> v,
                                names |-> Map!select(o.label_candidates, v, x.avail)])

(* The machines.                                                           *)
Restart == case = None /\ bucket = {} /\ list = None /\ returned = None /\ PolicyNext /\ UNCHANGED <<case, bucket, list, returned>>

Page == case = None /\ restarts = 0 /\ Paging!Next /\ UNCHANGED <<policyVars, case>>

BenchNext ==
    ChooseGpu \/ Decode \/ GridSweep \/ Derive \/ Colour \/ DrawMap \/ Restart \/ Page

BenchSpec == BenchInit /\ [][BenchNext]_benchVars

-----------------------------------------------------------------------------
(* The window is drawn with an adapter that came all the way up, and never *)
(* with another than the one RADAR_GPU asks for.  Left to itself, Gpu::new *)
(* takes a GPU that drives a connected display whenever one comes up, a    *)
(* software rasteriser only where no hardware presents, and gives up only  *)
(* where no candidate comes up.                                            *)
GpuChoiceIsSound ==
    Tried("gpu") =>
      LET x        == case.input
          chosen   == case.result.adapter
          a        == x.adapters[chosen]
          up       == {i \in DOMAIN x.adapters : Gpu!bring_up(x.adapters[i])}
          hardware == {i \in DOMAIN x.adapters : x.adapters[i].device_type # "cpu"}
          drives(i) == \E c \in x.connectors : /\ c.connected /\ c.device # None
                                               /\ c.device.pci = x.adapters[i].pci
                                               /\ c.device.pci # 0
          software == \A i \in hardware : ~x.adapters[i].presents
      IN  /\ chosen # None => chosen \in up
          /\ chosen # None /\ x.over # None => Gpu!matches(x.over, a)
          /\ chosen = None /\ x.over # None => \A i \in up : ~Gpu!matches(x.over, x.adapters[i])
          /\ x.over = None /\ (\E i \in up \cap hardware : drives(i)) =>
               chosen \in hardware /\ drives(chosen) /\ case.result.reason = "MatchedDisplay"
          /\ x.over = None /\ chosen # None /\ a.device_type = "cpu" => software
          /\ x.over = None /\ chosen = None => up \cap hardware = {} /\ (software => up = {})

(* A chunk is decoded to the radials that were written to it, in order and *)
(* each with every block that is whole, or to an error.  Where it is cut   *)
(* short it may only lose radials at the end; where it is complete and     *)
(* within MAX_DECOMPRESSED_CHUNK_BYTES it loses none.  No block reaches    *)
(* past its message, the framing is never lost, and a chunk is not read as *)
(* another kind than its bytes show, whatever its key says.                *)
ChunkIsDecodedWhole ==
    Tried("chunk") /\ case.input.kind # "Start" =>
      LET c       == case.input.chunk
          radials == SelectSeq(c.records, LAMBDA r : r.msg_type = 31 /\ r.size_hw # 0)
          length(r) == 12 + 2 * r.size_hw - 28
          whole(r, b, p) == /\ b.id \in Chunk!MomentBlocks /\ b.word_size \in {8, 16}
                            /\ p + 28 + b.gate_count * (b.word_size \div 8) <= length(r)
          readable(r) == 44 + 4 * (r.body.num_data_blks - 3) <= length(r)
          written(r)  == {r.body.blocks[p] : p \in {q \in DOMAIN r.body.blocks :
                            /\ \E i \in 1..(r.body.num_data_blks - 3) : r.body.ptrs[i] = q
                            /\ whole(r, r.body.blocks[q], q)}}
          total    == Chunk!StreamLen(c.records)
          complete == c.cut = Chunk!Written(c)
          got      == case.result.value
          agrees   == c.header = "none" /\ (c.negative <=> case.input.kind = "End")
      IN  /\ case.result.ok =>
               /\ agrees
               /\ Len(got) <= Len(radials)
               /\ \A i \in DOMAIN got : /\ got[i] # None
                                        /\ {got[i].products[k] : k \in DOMAIN got[i].products}
                                             = written(radials[i])
               /\ complete => Len(got) = Len(radials)
               /\ complete => total <= MaxDecompressed
          /\ (agrees /\ complete /\ total <= MaxDecompressed /\ \A i \in DOMAIN radials : readable(radials[i]))
               => case.result.ok

(* The moment of the first radial that carries one.                        *)
FirstMoment(sweep) ==
    LET carrying == {i \in DOMAIN sweep : sweep[i].moment # None}
    IN  sweep[CHOOSE i \in carrying : \A j \in carrying : i <= j].moment

(* A data cell, within half a step of num/den dB where that is on the      *)
(* scale; the error is in units of a step / den.                           *)
NearZdr(cell, num, den) ==
    LET error == (cell - 2) * 16 * den - (num + 8 * den) * 253
    IN  /\ cell \in 2..255
        /\ num \in (-8 * den)..(8 * den) => (IF error < 0 THEN -error ELSE error) * 2 <= 16 * den

CellIsRight(cell, raw, source) ==
    IF source.word_size = 8 \/ raw < 2 THEN cell = raw
    ELSE NearZdr(cell, raw - source.offset, source.scale)

ExactScatter(sweep, grid, source) ==
    LET n        == grid.azimuth_count
        carrying == {i \in DOMAIN sweep : sweep[i].moment # None}
        fits(i)  == /\ i \in carrying /\ Len(sweep[i].moment.gates) = Len(source.gates)
                    /\ sweep[i].moment.gate_width = source.gate_width
                    /\ sweep[i].moment.first_gate = source.first_gate
                    /\ sweep[i].moment.word_size = source.word_size
        hits(s)  == {i \in DOMAIN sweep : /\ fits(i) /\ s * Circle <= (sweep[i].azimuth % Circle) * n
                                          /\ (sweep[i].azimuth % Circle) * n < (s + 1) * Circle}
        last(s)  == CHOOSE i \in hits(s) : \A j \in hits(s) : j <= i
        of(code) == Cardinality({i \in DOMAIN sweep : sweep[i].code = code})
    IN  /\ \A s \in 0..(n - 1) : \A g \in DOMAIN grid.cells[s] :
             IF hits(s) = {} THEN grid.cells[s][g] = 0
             ELSE CellIsRight(grid.cells[s][g], sweep[last(s)].moment.gates[g + 1], source)
        /\ Cardinality(carrying) = Cardinality(grid.filled) + grid.duplicates + grid.skipped
        /\ 2 * of(1) > Len(sweep) => n = SuperRes
        /\ 2 * of(2) > Len(sweep) => n = Standard

(* A grid is the exact scatter of its sweep: every cell holds what the     *)
(* last radial in its sector says, and every radial that carries the       *)
(* moment is a filled slot, a duplicate or a reported inconsistency.  One  *)
(* corrupt spacing code does not resize the grid, and data stays data in   *)
(* the requantised ZDR, within half a step of its value.                   *)
GridIsExactScatter ==
    Tried("grid") /\ case.result # None =>
        ExactScatter(case.input, case.result, FirstMoment(case.input))

(* Echo tops and VIL are those of the newest grid of each angle.  The echo *)
(* top is the greatest height at which 18 dBZ is reached, and no data only *)
(* where it is reached nowhere.  A column that fewer than two tilts reach  *)
(* has no VIL, one that two or more measure has, and hail adds no more     *)
(* than the cap allows.  Between the two, where tilts reach the column but *)
(* fewer than two have an echo, the comment on vil (derived.rs:184) gives  *)
(* a real zero and its code no data: there never is water, at least.       *)
DerivedFromNewestTilts ==
    Tried("derived") /\ case.input # <<>> =>
      LET grids   == case.input
          used    == {i \in DOMAIN grids : \A j \in DOMAIN grids :
                        j > i => Grid!Round(grids[j].elevation, 10) # Grid!Round(grids[i].elevation, 10)}
          lowest  == grids[CHOOSE i \in used : \A j \in used : grids[i].elevation <= grids[j].elevation]
          ground(g) == lowest.first_gate + g * lowest.gate_width
          (* The gates over a column, and the raw value there, 0 outside the grid. *)
          under(t, g) ==
             LET slant == SlantRange(ground(g), t.elevation)
             IN  {k \in 0..(t.gate_count - 1) : /\ t.first_gate + k * t.gate_width <= slant
                                               /\ slant < t.first_gate + (k + 1) * t.gate_width}
          raw(t, a, g) ==
             LET slots == {s \in 0..(t.azimuth_count - 1) :
                             /\ 2 * s * lowest.azimuth_count <= (2 * a + 1) * t.azimuth_count
                             /\ (2 * a + 1) * t.azimuth_count < 2 * (s + 1) * lowest.azimuth_count}
             IN  IF under(t, g) = {} THEN 0
                 ELSE t.cells[CHOOSE s \in slots : TRUE][CHOOSE k \in under(t, g) : TRUE]
          reaching(g)  == {i \in used : under(grids[i], g) # {}}
          data(a, g)   == {i \in used : raw(grids[i], a, g) >= 2}
          echoes(a, g) == {i \in data(a, g) : raw(grids[i], a, g) - grids[i].offset >= 18 * grids[i].scale}
          heights(s, g) == {BeamHeight(ground(g), grids[i].elevation) : i \in s}
          max(s) == CHOOSE h \in s : \A k \in s : k <= h
          min(s) == CHOOSE h \in s : \A k \in s : h <= k
      IN  \A a \in 0..(lowest.azimuth_count - 1), g \in 0..(lowest.gate_count - 1) :
            /\ case.result.echo_tops[a][g] =
                 IF echoes(a, g) = {} THEN 0 ELSE Grid!KftCell(max(heights(echoes(a, g), g)))
            /\ Cardinality(reaching(g)) < 2 => case.result.vil[a][g] = 0
            /\ Cardinality(data(a, g)) < 2 => case.result.vil[a][g] \in {0, 2}
            /\ Cardinality(data(a, g)) >= 2 =>
                 LET h == heights(data(a, g), g)
                 IN  case.result.vil[a][g] \in
                       2..Grid!quantise(LayerWater(112, 112, max(h) - min(h)), Grid!VIL_MAX)

(* The colour table gives every raw value the colour of the greatest       *)
(* threshold at or below its value, the later line where two are equal:    *)
(* that colour itself for a step, one between its two colours for a ramp.  *)
(* 0 and 1 keep the no-data and the range-folded colour, and a user's file *)
(* without a colour never leaves a product colourless.                     *)
LutFollowsThresholds ==
    Tried("palette") =>
      LET x      == case.input
          p      == case.result.palette
          good(lines) == {i \in DOMAIN lines : /\ lines[i].directive \in {"Color", "SolidColor"}
                                               /\ lines[i].nums # None
                                               /\ Len(lines[i].nums) \in (IF lines[i].directive = "Color"
                                                                          THEN {4, 7} ELSE {4})}
          lines  == IF x.user.kind = "present" /\ good(x.user.lines) # {} THEN x.user.lines ELSE x.bundled
          reached(raw) == {i \in good(lines) : lines[i].nums[1] * x.scale <= 10 * (raw - x.offset)}
          best(raw) == CHOOSE i \in reached(raw) : \A j \in reached(raw) :
                          \/ lines[j].nums[1] < lines[i].nums[1]
                          \/ lines[j].nums[1] = lines[i].nums[1] /\ j <= i
          byte(v) == Colours!clamp_u8(v)
          between(v, a, b) == (a <= v /\ v <= b) \/ (b <= v /\ v <= a)
      IN  /\ p.entries # <<>>
          /\ case.result.lut[0] = p.no_data /\ case.result.lut[1] = p.range_folded
          /\ \A raw \in 2..255 :
               LET colour == case.result.lut[raw]
                   nums   == lines[best(raw)].nums
               IN  IF reached(raw) = {} THEN colour = p.no_data
                   ELSE \A c \in 1..3 :
                          IF Len(nums) = 4 \/ nums[1] * x.scale = 10 * (raw - x.offset)
                          THEN colour[c] = byte(nums[1 + c])
                          ELSE between(colour[c], byte(nums[1 + c]), byte(nums[4 + c]))

(* The map's line list joins consecutive points of one part and nothing    *)
(* else: each drawn range holds exactly the segments of its layer's parts, *)
(* so that a part or a label that points outside the bundle costs itself   *)
(* alone.  Names are drawn clear of each other and of the panels, a name   *)
(* gives way only to one before it in rank, and zooming keeps the place    *)
(* under the cursor.                                                       *)
MapIsDrawnFaithfully ==
    Tried("map") /\ case.result # None =>
      LET x     == case.input
          r     == case.result
          p     == r.projected
          array == x.bundle.points
          part(q) == x.bundle.parts[q + 1]
          (* The segments of a layer, by the points they start at.             *)
          starts(l) == {k \in 0..(Len(array) - 2) :
                          \E q \in l.first_part..(l.first_part + l.part_count - 1) :
                            /\ q < Len(x.bundle.parts)
                            /\ part(q).first_point <= k /\ k + 1 < part(q).first_point + part(q).point_count}
          segment(i) == <<p.vertices[p.indices[2 * i + 1] + 1], p.vertices[p.indices[2 * i + 2] + 1]>>
          kinds == {x.bundle.layers[i].kind : i \in DOMAIN x.bundle.layers}
          first(kind) == x.bundle.layers[CHOOSE i \in DOMAIN x.bundle.layers :
                           /\ x.bundle.layers[i].kind = kind
                           /\ \A j \in DOMAIN x.bundle.layers : x.bundle.layers[j].kind = kind => i <= j]
          shown == {r.drawn[i].kind : i \in DOMAIN r.drawn}
          box(c) == Map!BoxOf(c, r.view)
          candidates == Map!new(p, x.sites).label_candidates
          placed == {r.names[i] : i \in DOMAIN r.names}
      IN  /\ \A i \in DOMAIN r.drawn :
               LET d == r.drawn[i]
               IN  /\ d.from % 2 = 0 /\ d.to % 2 = 0
                   /\ {segment(k) : k \in (d.from \div 2)..(d.to \div 2 - 1)}
                        = {<<AzEq(array[k + 1]), AzEq(array[k + 2])>> : k \in starts(first(d.kind))}
          /\ \A kind \in kinds \cap 1..4 :
               (kind # 4 \/ x.show_highways) /\ starts(first(kind)) # {} => kind \in shown
          /\ \A c, d \in placed : c = d \/ ~Map!overlaps(box(c), box(d))
          /\ \A i \in DOMAIN candidates :
               \/ candidates[i] \in placed
               \/ ~Map!within(box(candidates[i]), x.avail)
               \/ \E j \in 1..(i - 1) : candidates[j] \in placed /\ Map!overlaps(box(candidates[j]), box(candidates[i]))
          /\ Map!screen_to_world(x.cursor[1], x.cursor[2], r.view)
               = Map!screen_to_world(x.cursor[1], x.cursor[2],
                                     Map!pan_by_pixels(x.view, x.cursor[2], x.cursor[1]))

(* The listing of the bucket, on this bench.                               *)
ListingIsComplete == Paging!ListingIsComplete
=============================================================================
