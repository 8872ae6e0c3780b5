------------------------------- MODULE MapLayer -------------------------------
(***************************************************************************)
(* The map underlay: overlay/mod.rs and overlay/project.rs, which turn the *)
(* bundle into line lists, and render/labels.rs, which places the names.   *)
(*                                                                         *)
(* A bundle is what overlay.bin holds: its size and the arrays of its      *)
(* sections.  Indices into the arrays count from 0, as in the file.        *)
(* Screen lengths are tenths of a pixel.                                   *)
(***************************************************************************)
EXTENDS Integers, Sequences, FiniteSets, SequencesExt

CONSTANTS
    None,
    AzEq(_)    \* az_eq_project of a point, about the site

HEADER_LEN == 32
LAYER_ENTRY_LEN == 12
PART_ENTRY_LEN == 24
POINT_LEN == 8
LABEL_ENTRY_LEN == 16
FORMAT_VERSION == 1

Least(a, b) == IF a < b THEN a ELSE b

(* Bundle::parse.  The counts are 32 bits and the sums 64: none overflows. *)
parse(bundle) ==
    IF /\ bundle.magic /\ bundle.version = FORMAT_VERSION
       /\ HEADER_LEN + Len(bundle.layers) * LAYER_ENTRY_LEN + Len(bundle.parts) * PART_ENTRY_LEN
            + Len(bundle.points) * POINT_LEN + Len(bundle.labels) * LABEL_ENTRY_LEN
            + bundle.string_bytes <= bundle.size
    THEN bundle ELSE None

(* The elements first, ..., first + count - 1 of an array, cut to it.      *)
Slice(array, first, count) ==
    SubSeq(array, Least(first, Len(array)) + 1, Least(first + count, Len(array)))

parts(bundle, layer) == Slice(bundle.parts, layer.first_part, layer.part_count)

points_Shifted(bundle, part) == Slice(bundle.points, part.first_point, part.point_count + 1)

points(bundle, part) == Slice(bundle.points, part.first_point, part.point_count)

read_name(bundle, label) == label.name_off + label.name_len <= bundle.string_bytes /\ label.utf8

(* A label whose name cannot be read is left out.                          *)
labels(bundle) == SelectSeq(bundle.labels, LAMBDA l : read_name(bundle, l))

LABEL_LAYER_KIND == 5
KNOWN_GEOMETRY_KINDS == 1..4

(* A part of fewer than two points leaves nothing behind.                  *)
ProjectPart(p, pts) ==
    LET start == Len(p.vertices)
        n     == Len(pts)
    IN  IF n < 2 THEN p
        ELSE [p EXCEPT !.vertices = @ \o [i \in 1..n |-> AzEq(pts[i])],
                       !.indices = @ \o [i \in 1..(2 * (n - 1)) |-> start + (i \div 2)]]

ProjectLayer(bundle, p, layer) ==
    IF layer.kind = LABEL_LAYER_KIND
    THEN [p EXCEPT !.labels = @ \o [i \in DOMAIN labels(bundle) |->
                                      [world |-> AzEq(labels(bundle)[i].point),
                                       rank |-> labels(bundle)[i].rank, text |-> labels(bundle)[i].name_len]]]
    ELSE IF layer.kind \notin KNOWN_GEOMETRY_KINDS
    THEN [p EXCEPT !.unknown = Append(@, layer.kind)]
    ELSE LET drawn == FoldLeft(LAMBDA q, part : ProjectPart(q, points(bundle, part)), p, parts(bundle, layer))
         IN  [drawn EXCEPT !.layers = Append(@, [kind |-> layer.kind, from |-> Len(p.indices),
                                                 to |-> Len(drawn.indices)])]

project(bundle) ==
    FoldLeft(LAMBDA p, layer : ProjectLayer(bundle, p, layer),
             [vertices |-> <<>>, indices |-> <<>>, layers |-> <<>>, labels |-> <<>>, unknown |-> <<>>],
             bundle.layers)

-----------------------------------------------------------------------------
(* OverlayRenderer::new: of each kind it draws, the first layer, or an     *)
(* empty range; and the candidates for names, other sites before cities.   *)
DRAW_ORDER == <<1, 2, 3, 4>>
ROADS_KIND == 4

new(p, sites) ==
    LET range(kind) == LET found == SelectSeq(p.layers, LAMBDA l : l.kind = kind)
                       IN  IF found = <<>> THEN [kind |-> kind, from |-> 0, to |-> 0] ELSE found[1]
    IN  [geometry_layers |-> [i \in DOMAIN DRAW_ORDER |-> range(DRAW_ORDER[i])],
         label_candidates |-> [i \in DOMAIN sites |->
                                 [world |-> AzEq(sites[i].point), rank |-> 0, text |-> sites[i].chars]]
                              \o p.labels]

(* draw: the ranges drawn; an empty one is no call at all.                 *)
draw(overlay, show_highways) ==
    SelectSeq(overlay.geometry_layers,
              LAMBDA l : (l.kind = ROADS_KIND => show_highways) /\ l.from # l.to)

-----------------------------------------------------------------------------
(* render/view.rs, in whole pixels and metres; a zoom factor is num/den.   *)
MIN_M_PER_PX == 60
MAX_M_PER_PX == 3000

Within(v, low, high) == IF v < low THEN low ELSE IF v > high THEN high ELSE v

screen_to_world(px, py, view) ==
    << view.center[1] + ((2 * px - view.width) * view.m_per_px) \div 2,
       view.center[2] - ((2 * py - view.height) * view.m_per_px) \div 2 >>

pan_by_pixels(view, dx, dy) ==
    [view EXCEPT !.center = <<@[1] + dx * view.m_per_px, @[2] - dy * view.m_per_px>>]

zoom_about_Centre(view, px, py, num, den) ==
    [view EXCEPT !.m_per_px = Within((@ * num) \div den, MIN_M_PER_PX, MAX_M_PER_PX)]

zoom_about(view, px, py, num, den) ==
    LET anchor == screen_to_world(px, py, view)
        scale  == Within((view.m_per_px * num) \div den, MIN_M_PER_PX, MAX_M_PER_PX)
    IN  [view EXCEPT !.m_per_px = scale,
                     !.center = << anchor[1] - ((2 * px - view.width) * scale) \div 2,
                                   anchor[2] + ((2 * py - view.height) * scale) \div 2 >>]

-----------------------------------------------------------------------------
(* render/labels.rs *)
CHAR_W == 66
LINE_H == 140
PAD == 30

(* World metres to screen; y points down on the screen.                    *)
world_to_screen(world, view) ==
    << view.width * 5 + ((world[1] - view.center[1]) * 10) \div view.m_per_px,
       view.height * 5 - ((world[2] - view.center[2]) * 10) \div view.m_per_px >>

candidate_box(screen, chars) ==
    LET x == screen[1] + 50
        y == screen[2] - 30
    IN  [min |-> <<x, y - (LINE_H + 2 * PAD)>>, max |-> <<x + CHAR_W * chars + 2 * PAD, y>>]

overlaps(a, b) ==
    a.min[1] < b.max[1] /\ a.max[1] > b.min[1] /\ a.min[2] < b.max[2] /\ a.max[2] > b.min[2]

within(b, avail) ==
    b.min[1] >= avail[1] /\ b.min[2] >= avail[2] /\ b.max[1] <= avail[3] /\ b.max[2] <= avail[4]

BoxOf(candidate, view) == candidate_box(world_to_screen(candidate.world, view), candidate.text)

(* select: greedy in the order given; the candidates placed.               *)
select(candidates, view, avail) ==
    FoldLeft(LAMBDA placed, c :
                IF /\ within(BoxOf(c, view), avail)
                   /\ \A i \in DOMAIN placed : ~overlaps(BoxOf(placed[i], view), BoxOf(c, view))
                THEN Append(placed, c) ELSE placed,
             <<>>, candidates)
=============================================================================
