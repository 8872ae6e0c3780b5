---------------------------- MODULE MCComputations ----------------------------
(***************************************************************************)
(* The inputs on which TLC tries the computations.                         *)
(***************************************************************************)
EXTENDS Computations

UpTo(S, n) == UNION {[1..k -> S] : k \in 0..n}

-----------------------------------------------------------------------------
(* How a bring-up ends: it works, the surface is not presentable, or it    *)
(* fails at one of the later stages.                                       *)
Outcome(o) ==
    [presents |-> o # "presents", device_granted |-> o # "device",
     configures |-> o # "configure", acquires |-> o # "acquire"]

Adapter(type, backend, pci, model, o) ==
    [device_type |-> type, backend |-> backend, pci |-> pci, model |-> model,
     name |-> {type}, presents |-> Outcome(o).presents, device_granted |-> Outcome(o).device_granted,
     configures |-> Outcome(o).configures, acquires |-> Outcome(o).acquires]

Adapters ==
    {Adapter(type, "vulkan", pci, 1 + (pci % 2), o) :
        type \in {"discrete", "integrated", "cpu"}, pci \in 0..2, o \in {"up", "presents", "acquire"}}
    \cup {Adapter("discrete", "gl", 1, 2, o) : o \in {"device", "configure"}}

Few == {Adapter("discrete", "vulkan", 1, 2, "up"), Adapter("integrated", "vulkan", 2, 1, "up"),
        Adapter("integrated", "gl", 2, 1, "up"), Adapter("discrete", "vulkan", 0, 1, "acquire"),
        Adapter("cpu", "vulkan", 0, 3, "up")}

Connectors ==
    LET on(pci, model) == [connected |-> TRUE, device |-> [pci |-> pci, model |-> model]]
        off(pci) == [connected |-> FALSE, device |-> [pci |-> pci, model |-> 1]]
    IN  { {}, {on(2, 1)}, {on(1, 2), off(2)}, {on(3, 1)}, {[connected |-> TRUE, device |-> None]} }

Overrides == {None, [kind |-> "pci", value |-> 2], [kind |-> "integrated", value |-> 0],
              [kind |-> "name", value |-> "discrete"]}

MCGpuInputs ==
    [adapters : UpTo(Adapters, 2) \cup [1..3 -> Few], connectors : Connectors, over : Overrides]

-----------------------------------------------------------------------------
(* A body with RVOL at 52, RRAD at 96 and moments from 116 on.             *)
Moment(id, gates, word) == [id |-> id, gate_count |-> gates, word_size |-> word]

Radial(hw, count, ptrs, moments) ==
    [msg_type |-> 31, size_hw |-> hw,
     body |-> [num_data_blks |-> count, ptrs |-> ptrs, vol_ptr |-> 52, rad_ptr |-> 96,
               blocks |-> [p \in {52, 96} \cup DOMAIN moments |->
                  IF p = 52 THEN Moment("RVOL", 0, 0) ELSE IF p = 96 THEN Moment("RRAD", 0, 0)
                  ELSE moments[p]]]]

OneMoment(b) == [p \in {116} |-> b]

TwoMoments(b, c) == [p \in {116, 156} |-> IF p = 116 THEN b ELSE c]

(* Lengths that are and are not whole words; a block that claims gates     *)
(* past the message, a pointer to nowhere, more pointers than fit.         *)
Records ==
    { Radial(85, 4, <<116>>, OneMoment(Moment("DREF", 10, 8))),
      Radial(86, 4, <<116>>, OneMoment(Moment("DREF", 6, 16))),
      Radial(105, 5, <<116, 156>>, TwoMoments(Moment("DREF", 12, 8), Moment("DVEL", 500, 8))),
      Radial(106, 6, <<116, 9000, 156>>, TwoMoments(Moment("DREF", 12, 24), Moment("DVEL", 8, 8))),
      [Radial(40, 60, <<>>, <<>>) EXCEPT !.body.ptrs = [i \in 1..57 |-> 0]],
      [msg_type |-> 2, size_hw |-> 40], [msg_type |-> 31, size_hw |-> 0],
      [msg_type |-> 5, size_hw |-> 100, body |-> [num_el_cuts |-> 3]] }

(* The same stream in one block or in two.                                 *)
Blocks(records, split) ==
    LET total == Chunk!StreamLen(records)
    IN  IF split THEN <<[clen |-> 60, out |-> (2 * total) \div 3],
                        [clen |-> 90, out |-> total - (2 * total) \div 3]>>
        ELSE <<[clen |-> 120, out |-> total]>>

Kinds == [Start |-> [header |-> "AR2V", negative |-> FALSE],
          Intermediate |-> [header |-> "none", negative |-> FALSE],
          End |-> [header |-> "none", negative |-> TRUE]]

Whole(records, split, kind) ==
    LET c == [header |-> Kinds[kind].header, negative |-> Kinds[kind].negative, cut |-> 0, records |-> records,
              blocks |-> Blocks(records, split) \o (IF kind = "Start" THEN <<Chunk!Sentinel>> ELSE <<>>)]
    IN  [c EXCEPT !.cut = Chunk!Written(c)]

(* Cut nowhere, by one byte, between blocks, inside one, and to a stub.    *)
MCChunkInputs ==
    {[chunk |-> [c EXCEPT !.cut = IF cut = 0 THEN @ ELSE IF cut < 0 THEN @ + cut ELSE cut], kind |-> kind] :
        c \in {Whole(r, s, "Intermediate") : r \in UpTo(Records, 3) \ {<<>>}, s \in BOOLEAN},
        cut \in {0, -1, 64, 70, 5}, kind \in {"Intermediate"}}
    \cup {[chunk |-> Whole(r, FALSE, kind), kind |-> told] :
            r \in UpTo(Records, 2) \ {<<>>}, kind \in DOMAIN Kinds, told \in DOMAIN Kinds}

-----------------------------------------------------------------------------
GridMoment(gates, width, word, scale, offset) ==
    [gates |-> gates, first_gate |-> 2125, gate_width |-> width, word_size |-> word,
     scale |-> scale, offset |-> offset]

GridRadial(code, azimuth, moment) == [code |-> code, azimuth |-> azimuth, moment |-> moment]

Eight == {GridMoment(<<0, 7>>, 250, 8, 2, 66), GridMoment(<<200, 1>>, 250, 8, 2, 66)}

(* ZDR as the radar sends it: -13, -9, -8, -0.03, 0, 0.03, 8, 18 dB.       *)
Zdr == {GridMoment(<<a, b>>, 250, 16, 32, 418) : a \in {0, 1, 2, 130, 162}, b \in {417, 418, 419, 674, 1000}}

SweepRadials ==
    {GridRadial(1, azimuth, m) : azimuth \in {0, 1, 7, 8}, m \in Eight}
    \cup {GridRadial(2, 3, m) : m \in Eight \cup {None}}
    \cup {GridRadial(9, -1, m) : m \in {GridMoment(<<9, 9>>, 500, 8, 2, 66),
                                        GridMoment(<<9, 9>>, 0, 8, 2, 66)}}

MCSweepInputs ==
    UpTo(SweepRadials, 3) \cup [1..4 -> {r \in SweepRadials : r.azimuth \in {-1, 1, 3}}]
    \cup {<<GridRadial(2, azimuth, m)>> : azimuth \in 0..8, m \in Zdr}
    \cup {<<GridRadial(1, a, m), GridRadial(1, a, n)>> : a \in {3, 4}, m \in Zdr, n \in Zdr}

-----------------------------------------------------------------------------
(* Slant ranges and heights of the 4/3 earth model, in metres.             *)
Ground == <<2000, 32000, 62000, 122000>>
Angle == <<480, 484, 2400, 19500>>
SlantTable == << <<2000, 2000, 2002, 2122>>,
                 <<32002, 32002, 32033, 33993>>,
                 <<62007, 62007, 62075, 65944>>,
                 <<122027, 122028, 122189, 130094>> >>
HeightTable == << <<17, 17, 84, 709>>,
                  <<328, 331, 1402, 11407>>,
                  <<746, 750, 2826, 22239>>,
                  <<1899, 1907, 5993, 44307>> >>

At(table, ground, angle) ==
    table[CHOOSE i \in DOMAIN Ground : Ground[i] = ground][CHOOSE j \in DOMAIN Angle : Angle[j] = angle]

MCSlantRange(ground, angle) == At(SlantTable, ground, angle)
MCBeamHeight(ground, angle) == At(HeightTable, ground, angle)

(* Some water that grows with the reflectivities and the depth.            *)
MCLayerWater(d0, d1, dh) ==
    LET wet(d) == IF d < 0 THEN 0 ELSE d IN ((wet(d0) + wet(d1)) * dh) \div 40

(* Raw 66 is 0 dBZ, 102 is 18 dBZ and 250 is hail.                         *)
Tilt(angle, azimuths, far, cells) ==
    [elevation |-> angle, azimuth_count |-> azimuths, first_gate |-> 2000,
     gate_width |-> (IF far THEN 60000 ELSE 30000), gate_count |-> 3, scale |-> 2, offset |-> 66,
     cells |-> [a \in 0..(azimuths - 1) |-> [g \in 0..2 |-> cells[1 + ((a + g) % 3)]]]]

Tilts ==
    {Tilt(angle, n, TRUE, cells) : angle \in {480, 2400}, n \in {2, 4},
                                   cells \in {<<0, 102, 1>>, <<101, 250, 70>>}}
    \cup {Tilt(484, 4, TRUE, <<103, 0, 66>>), Tilt(19500, 2, TRUE, <<140, 102, 2>>),
          Tilt(2400, 2, FALSE, <<120, 0, 110>>)}

MCTiltInputs == UpTo(Tilts, 3)

-----------------------------------------------------------------------------
Line(directive, nums) == [directive |-> directive, nums |-> nums]

Lines ==
    { Line("SolidColor", <<100, 10, 20, 2600>>), Line("SolidColor", <<100, 1000, 0, -50>>),
      Line("Color", <<50, 0, 1000, 2000, 1000, 0, 2555>>), Line("Color", <<200, 55, 54, 0>>),
      Line("SolidColor", <<300, 0, 0, 0, 10, 10, 10>>), Line("SolidColor", None),
      Line("RF", <<10, 20, 30>>), Line("ND", <<10, 20, 30, 0>>), Line("unknown", <<>>),
      Colours!Blank, Line("Step", <<50>>) }

Bundled == <<Line("Units", <<>>), Line("SolidColor", <<0, 10, 10, 10>>), Line("Color", <<150, 0, 0, 0>>)>>

MCPaletteInputs ==
    [bundled : {Bundled}, user : {[kind |-> k, lines |-> <<>>] : k \in {"absent", "unreadable"}} \cup
                                 {[kind |-> "present", lines |-> l] : l \in UpTo(Lines, 2)
                                    \cup {s \in [1..3 -> Lines] : s[1].directive \in {"Color", "SolidColor"}}},
     scale : {1, 2}, offset : {66}]

-----------------------------------------------------------------------------
MCAzEq(point) == <<(point - 3) * 20000, (point * point - 10) * 4000>>

Layer(kind, first, count) == [kind |-> kind, first_part |-> first, part_count |-> count]

Part(first, count) == [first_point |-> first, point_count |-> count]

Labels == <<[point |-> 2, rank |-> 1, name_off |-> 0, name_len |-> 6, utf8 |-> TRUE],
            [point |-> 5, rank |-> 2, name_off |-> 4, name_len |-> 90, utf8 |-> TRUE],
            [point |-> 3, rank |-> 3, name_off |-> 0, name_len |-> 3, utf8 |-> TRUE],
            [point |-> 4, rank |-> 4, name_off |-> 0, name_len |-> 3, utf8 |-> FALSE]>>

Bundles ==
    {[magic |-> magic, version |-> version, size |-> size, layers |-> layers,
      parts |-> parts, points |-> <<1, 2, 3, 4, 5>>, labels |-> Labels, string_bytes |-> 20] :
        magic \in {TRUE}, version \in {1}, size \in {400},
        layers \in {<<a, b>> : a, b \in {Layer(1, 0, 2), Layer(4, 1, 9), Layer(2, 7, 1), Layer(9, 0, 1),
                                         Layer(5, 0, 0)}},
        parts \in [1..3 -> {Part(0, 2), Part(2, 1), Part(1, 3), Part(3, 40), Part(4000, 2)}]}
    \cup {[magic |-> m, version |-> v, size |-> s, layers |-> <<Layer(1, 0, 1)>>, parts |-> <<Part(0, 2)>>,
           points |-> <<1, 2>>, labels |-> <<>>, string_bytes |-> 0] :
            m \in BOOLEAN, v \in {1, 2}, s \in {83, 84}}

MCMapInputs ==
    [bundle : Bundles, sites : {<<[point |-> 1, chars |-> 4], [point |-> 2, chars |-> 4]>>},
     view : {[width |-> 1280, height |-> 800, center |-> <<0, 0>>, m_per_px |-> 600]},
     cursor : {<<640, 400>>, <<200, 100>>}, zoom : {<<1, 2>>, <<10, 1>>},
     avail : {<<0, 0, 11960, 7720>>}, show_highways : BOOLEAN]
=============================================================================
