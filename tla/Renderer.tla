------------------------------- MODULE Renderer -------------------------------
(***************************************************************************)
(* The render thread: the winit callbacks of App that read AppState or the *)
(* selection, and the texture and LUT caches of RadarRenderer, beside the  *)
(* applier of RadarState.                                                  *)
(*                                                                         *)
(* Each callback runs to its end without yielding and reads AppState once, *)
(* in snapshot(), so each is one action.  An Arc is who allocated it and   *)
(* which content it holds; content is numbered by the revision that        *)
(* brought it.  A LUT key is the product and its scale and offset.  Camera *)
(* movement, chrome and overlays are left out: such an event only asks for *)
(* a redraw.                                                               *)
(***************************************************************************)
EXTENDS Integers, Sequences, FiniteSets

CONSTANTS
    None,
    ALL,                    \* DisplayProduct::ALL
    Cuts,                   \* elevation numbers are 1..Cuts
    Angle,                  \* elevation_deg of an elevation number
    Vcps,
    BaseGrids,              \* sets of [product, scale, too_large] a sweep may carry
    DerivedGrids,           \* likewise for a volume
    LutCacheCap,            \* LUT_CACHE_CAP
    MaxStartupReconfigures, \* MAX_STARTUP_RECONFIGURES
    MaxRevision             \* bound: updates in one behaviour

ASSUME RendererAssumption ==
    /\ ALL # <<>> /\ Cuts \in Nat /\ Angle \in [1..Cuts -> Nat]
    /\ LutCacheCap \in Nat \ {0} /\ MaxRevision \in Nat
    /\ MaxStartupReconfigures \in Nat

Derived == {"EchoTops", "Vil"}
Products == {ALL[i] : i \in DOMAIN ALL}

(* grid_all_base_products makes at most one grid per base product, and     *)
(* compute_derived one per derived product.                                *)
ASSUME GridsAssumption ==
    /\ ALL \in Seq(Products)
    /\ \A c \in BaseGrids :
          c \subseteq [product : Products \ Derived, scale : Nat, too_large : BOOLEAN]
    /\ \A c \in DerivedGrids :
          c \subseteq [product : Products \cap Derived, scale : Nat, too_large : BOOLEAN]
    /\ \A c \in BaseGrids \cup DerivedGrids :
          \A g, h \in c : g.product = h.product => g = h

VARIABLES
    radar,                \* AppState's RadarState
    view,                 \* ViewState: product and elevation_number
    grids,                \* RadarRenderer.grids
    luts,                 \* RadarRenderer.luts, the keys
    uploaded,             \* history: the snapshot of last_uploaded_revision, or None
    uploads,              \* history: keys uploaded by the last sync
    notices,              \* history: types of the events the last sync returned
    last_drawn_revision,
    aged,                 \* the data age differs from last_chrome_text
    redraw_requested,     \* winit has a RedrawRequested to deliver
    frame,                \* what is on the screen
    reconfigure_count,    \* of the start-up window, which alone is looked at
    startup,              \* within STARTUP_WINDOW of the first frame
    exited                \* event_loop.exit() was called

gpuvars == <<grids, luts, uploaded, uploads, notices>>
vars == <<radar, view, gpuvars, last_drawn_revision, aged, redraw_requested, frame,
          reconfigure_count, startup, exited>>

Elevations == 1..Cuts

R == INSTANCE RadarState WITH
        VolumeIds <- {1}, VcpNumbers <- Vcps, SweepGrids <- {}, Sites <- {"site"},
        EventLogCapacity <- 1, MaxReports <- 0, events <- <<>>, reported <- 0

-----------------------------------------------------------------------------
(* The applier *)

(* The SweepGrids of an update: fresh Arcs.                                *)
Fresh(contents, e) ==
    {[product |-> g.product, elevation_number |-> e, scale |-> g.scale,
      too_large |-> g.too_large, arc |-> [owner |-> "state", content |-> radar.revision + 1]]
        : g \in contents}

Update(u) ==
    /\ radar.revision < MaxRevision /\ ~exited
    /\ radar' = R!apply(radar, u)
    /\ UNCHANGED <<view, gpuvars, last_drawn_revision, aged, redraw_requested, frame,
                   reconfigure_count, startup, exited>>

UpdateSweep ==
    \E e \in Elevations, contents \in BaseGrids, vcp \in Vcps :
        Update([type |-> "SweepGridded", elevation_number |-> e, volume |-> 1,
                vcp_number |-> vcp, grids |-> Fresh(contents, e)])

UpdateDerived ==
    \E contents \in DerivedGrids :
        Update([type |-> "DerivedComputed", volume |-> 1, vcp_number |-> radar.current_vcp,
                grids |-> Fresh(contents, 0)])

-----------------------------------------------------------------------------
(* render/radar.rs *)

(* GridKey; 0 stands for the None elevation of a derived product.          *)
grid_key(g) == <<g.product, IF g.product \in Derived THEN 0 ELSE g.elevation_number>>

(* All keys in their order.                                                *)
KeyOrder == [i \in 1..(Len(ALL) * (Cuts + 1)) |->
                <<ALL[((i - 1) \div (Cuts + 1)) + 1], (i - 1) % (Cuts + 1)>>]

snapshot_entries(s) ==
    s.derived \cup UNION {s.sweeps[e].grids : e \in {d \in Elevations : s.sweeps[d] # None}}

Keys(entries) == {grid_key(g) : g \in entries}

Entry(entries, key) == CHOOSE g \in entries : grid_key(g) = key

(* Arc::ptr_eq.                                                            *)
ptr_eq(a, b) == a = b

plan_sync_NoEviction(cached, entries) ==
    [to_upload |-> {k \in Keys(entries) :
                      ~(k \in DOMAIN cached /\ ptr_eq(cached[k].source, Entry(entries, k).arc))},
     to_evict  |-> {}]

plan_sync(cached, entries) ==
    [to_upload |-> {k \in Keys(entries) :
                      ~(k \in DOMAIN cached /\ ptr_eq(cached[k].source, Entry(entries, k).arc))},
     to_evict  |-> DOMAIN cached \ Keys(entries)]

(* The texture gets the grid's cells; source is an Arc of its own, around  *)
(* a clone of the grid.                                                    *)
upload_grid(g) == [source |-> [owner |-> "cache", content |-> g.arc.content],
                   texture |-> g.arc.content]

lut_key(g) == <<g.product, g.scale>>

(* A full cache is cleared, which is reported.                             *)
ensure_lut(c, g) ==
    IF lut_key(g) \in c.luts THEN c
    ELSE IF Cardinality(c.luts) >= LutCacheCap
    THEN [luts |-> {lut_key(g)}, bounded |-> TRUE]
    ELSE [c EXCEPT !.luts = @ \cup {lut_key(g)}]

LutCaches == [luts : SUBSET (Products \X Nat), bounded : BOOLEAN]

(* ensure_lut for each of keys among the last n of KeyOrder: a function of *)
(* the cache they find.                                                    *)
ensure_luts(entries, keys) ==
    LET rest[n \in 0..Len(KeyOrder)] ==
            [c \in LutCaches |->
                IF n = 0 THEN c
                ELSE LET k == KeyOrder[Len(KeyOrder) - n + 1]
                     IN  rest[n - 1][IF k \in keys THEN ensure_lut(c, Entry(entries, k)) ELSE c]]
    IN  rest[Len(KeyOrder)]

(* RadarRenderer::sync, and redraw's report of what it returns.            *)
sync(s) ==
    LET entries  == snapshot_entries(s)
        plan     == plan_sync(grids, entries)
        refused  == {k \in plan.to_upload : Entry(entries, k).too_large}
        accepted == plan.to_upload \ refused
        cache    == ensure_luts(entries, accepted)[[luts |-> luts, bounded |-> FALSE]]
    IN  /\ grids' = [k \in (DOMAIN grids \ plan.to_evict) \cup accepted |->
                        IF k \in accepted THEN upload_grid(Entry(entries, k)) ELSE grids[k]]
        /\ luts' = cache.luts
        /\ uploads' = accepted
        /\ notices' = {n \in {"DegenerateGateGeometry", "RetainedGridSetBounded"} :
                          IF n = "RetainedGridSetBounded" THEN cache.bounded ELSE refused # {}}
        /\ uploaded' = s

-----------------------------------------------------------------------------
(* render/mod.rs *)

Init ==
    /\ radar = R!new_radar("site")
    /\ view \in [product : Products, elevation_number : {0}]
    /\ grids = << >> /\ luts = {} /\ uploaded = None /\ uploads = {} /\ notices = {}
    /\ last_drawn_revision = None /\ aged = TRUE
    /\ redraw_requested = TRUE          \* the end of resumed
    /\ frame = None /\ reconfigure_count = 0 /\ startup = TRUE /\ exited = FALSE

Present == {e \in Elevations : radar.sweeps[e] # None}

(* Elevations in angle order; equal angles keep the order of their numbers. *)
AngleLess(d, e) == Angle[d] < Angle[e] \/ (Angle[d] = Angle[e] /\ d < e)

Position(e) == Cardinality({d \in Present : AngleLess(d, e)})

(* The elevation selected after a step of dir through those present.       *)
step_elevation(dir) ==
    LET next  == IF view.elevation_number \in Present
                 THEN Position(view.elevation_number) + dir ELSE 0
        found == {e \in Present : Position(e) = next}
    IN  IF found = {} THEN view.elevation_number ELSE CHOOSE e \in found : TRUE

Input(v) ==
    /\ ~exited
    /\ view' = v
    /\ redraw_requested' = TRUE
    /\ UNCHANGED <<radar, gpuvars, last_drawn_revision, aged, frame, reconfigure_count,
                   startup, exited>>

SelectProduct(p) == Input([view EXCEPT !.product = p])

StepElevation(dir) == Input([view EXCEPT !.elevation_number = step_elevation(dir)])

(* Camera movement, toggles, the pointer, a resize.                        *)
OtherInput == ~redraw_requested /\ Input(view)

(* CloseRequested or Ctrl+Q.                                               *)
Quit ==
    /\ ~exited
    /\ exited' = TRUE
    /\ UNCHANGED <<radar, view, gpuvars, last_drawn_revision, aged, redraw_requested, frame,
                   reconfigure_count, startup>>

(* resolve_selection: the elevation selected, and its grid or None.        *)
default_elevation_Always ==
    IF Present # {} THEN CHOOSE e \in Present : \A d \in Present : ~AngleLess(d, e) ELSE view.elevation_number

default_elevation ==
    IF view.elevation_number = 0 /\ Present # {}
    THEN CHOOSE e \in Present : \A d \in Present : ~AngleLess(d, e)
    ELSE view.elevation_number

resolve_selection(e) ==
    LET held == IF view.product \in Derived THEN radar.derived
                ELSE IF e \in Present THEN radar.sweeps[e].grids ELSE {}
        found == {g \in held : g.product = view.product}
    IN  IF found = {} THEN None ELSE CHOOSE g \in found : TRUE

draw_ProductOnly(g) ==
    LET held == IF g = None THEN {} ELSE {k \in DOMAIN grids' : k[1] = g.product}
    IN  IF held = {} \/ lut_key(g) \notin luts'
        THEN None ELSE grids'[CHOOSE k \in held : TRUE].texture

(* RadarRenderer::draw with the caches as sync leaves them: the content    *)
(* drawn, or None.                                                         *)
draw(g) ==
    IF g = None \/ grid_key(g) \notin DOMAIN grids' \/ lut_key(g) \notin luts'
    THEN None ELSE grids'[grid_key(g)].texture

(* redraw up to the acquisition of the surface.                            *)
Prepare ==
    /\ redraw_requested /\ ~exited
    /\ redraw_requested' = FALSE
    /\ view' = [view EXCEPT !.elevation_number = default_elevation]
    /\ IF uploaded = None \/ uploaded.revision # radar.revision
       THEN sync(R!snapshot(radar)) ELSE UNCHANGED gpuvars
    /\ last_drawn_revision' = radar.revision
    /\ UNCHANGED <<radar, aged>>

Redraw ==
    /\ Prepare
    /\ LET g == resolve_selection(default_elevation)
       IN  frame' = [revision |-> radar.revision, selected |-> g, texture |-> draw(g)]
    /\ UNCHANGED <<reconfigure_count, startup, exited>>

(* Outdated or Lost: reconfigure, and give up on a burst at start-up or on *)
(* a validation error.                                                     *)
RedrawSurfaceLost ==
    /\ Prepare
    /\ reconfigure_count' = IF startup THEN reconfigure_count + 1 ELSE reconfigure_count
    /\ \E validation_error \in BOOLEAN :
         exited' = (validation_error \/ (startup /\ reconfigure_count' > MaxStartupReconfigures))
    /\ UNCHANGED <<frame, startup>>

(* Timeout, Occluded or Validation.                                        *)
RedrawSkipped ==
    /\ Prepare
    /\ UNCHANGED <<frame, reconfigure_count, startup, exited>>

about_to_wait_RevisionOnly ==
    /\ ~exited
    /\ last_drawn_revision # radar.revision
    /\ redraw_requested' = TRUE /\ aged' = FALSE
    /\ UNCHANGED <<radar, view, gpuvars, last_drawn_revision, frame, reconfigure_count,
                   startup, exited>>

(* The idle tick, at least every IDLE_TICK.                                *)
about_to_wait ==
    /\ ~exited
    /\ last_drawn_revision # radar.revision \/ aged
    /\ redraw_requested' = TRUE /\ aged' = FALSE
    /\ UNCHANGED <<radar, view, gpuvars, last_drawn_revision, frame, reconfigure_count,
                   startup, exited>>

(* Time passes: the age text changes once ingest has succeeded, which it   *)
(* has when there is data; the start-up window ends.                       *)
SecondPasses ==
    /\ ~exited /\ (~aged \/ startup)
    /\ aged' = (aged \/ radar.revision > 0)
    /\ startup' \in {startup, FALSE}
    /\ UNCHANGED <<radar, view, gpuvars, last_drawn_revision, redraw_requested, frame,
                   reconfigure_count, exited>>

Next ==
    \/ UpdateSweep \/ UpdateDerived
    \/ \E p \in Products : SelectProduct(p)
    \/ StepElevation(1) \/ StepElevation(-1)
    \/ OtherInput \/ Quit
    \/ Redraw \/ RedrawSurfaceLost \/ RedrawSkipped
    \/ about_to_wait \/ SecondPasses

Spec == Init /\ [][Next]_vars

(* winit delivers redraws and idle ticks, time passes, and a window that   *)
(* is shown gets its surface in some of the attempts.                      *)
FairSpec == Spec /\ WF_vars(about_to_wait) /\ WF_vars(SecondPasses) /\ SF_vars(Redraw)

-----------------------------------------------------------------------------
(* Properties *)

(* Every variable keeps its shape, and the LUT cache its bound.            *)
TypeOK ==
    /\ view \in [product : Products, elevation_number : Elevations \cup {0}]
    /\ \A k \in DOMAIN grids : k \in Products \X (Elevations \cup {0})
    /\ Cardinality(luts) <= LutCacheCap
    /\ last_drawn_revision \in 0..MaxRevision \cup {None}
    /\ reconfigure_count \in 0..(MaxStartupReconfigures + 1)
    /\ {aged, redraw_requested, startup, exited} \subseteq BOOLEAN

(* The GPU holds what was uploaded: no texture of a tilt or product that   *)
(* the state has dropped, and for every grid the device can take the       *)
(* content of the snapshot, through any sequence of partial replacements   *)
(* and pattern changes.  (A refused grid may leave its predecessor's.)     *)
GpuHoldsUploaded ==
    uploaded # None =>
        LET entries == snapshot_entries(uploaded)
        IN  /\ DOMAIN grids \subseteq Keys(entries)
            /\ \A g \in entries : ~g.too_large =>
                  grid_key(g) \in DOMAIN grids /\ grids[grid_key(g)].texture = g.arc.content

(* A frame shows the data of its own revision and selection: the texture   *)
(* drawn is that of the grid the chrome describes (redraw, sync, draw).    *)
(* (A grid the device refused is the exception: its predecessor's texture  *)
(* stays cached.)  And no data is left undrawn without a trace: where a    *)
(* grid is on the GPU and its LUT is not, the cleared cache was reported.  *)
FrameIsCoherent ==
    /\ (frame # None /\ frame.texture # None) =>
          frame.selected.too_large \/ frame.texture = frame.selected.arc.content
    /\ uploaded # None =>
          \A g \in snapshot_entries(uploaded) :
              (grid_key(g) \in DOMAIN grids /\ ~g.too_large /\ lut_key(g) \notin luts)
                  => "RetainedGridSetBounded" \in notices

(* The operator's selection is never silently rewritten: neither new data, *)
(* nor a pattern change that drops the selected tilt, nor a redraw moves   *)
(* it once it is set; only a key does, and to a tilt that is present.      *)
SelectionIsTheOperators ==
    [][ LET old == view.elevation_number
            new == view'.elevation_number
        IN  (old # new /\ old # 0) =>
              /\ new \in Present
              /\ view'.product = view.product
              /\ UNCHANGED <<radar, frame, gpuvars, last_drawn_revision>> ]_vars

Behind == radar.revision > 0 /\ (frame = None \/ frame.revision < radar.revision)

(* New data reaches the screen although last_drawn_revision is set before  *)
(* the surface is acquired: a frame that was lost is made up for.          *)
NewDataIsPresented == Behind ~> exited \/ ~Behind

(* What the comment of plan_sync and the rendering document say: a grid is *)
(* uploaded only if it is new or was replaced.                             *)
OnlyChangedGridsUpload ==
    [][ uploaded' # uploaded =>
          \A k \in uploads' \cap DOMAIN grids :
              grids[k].texture # Entry(snapshot_entries(uploaded'), k).arc.content ]_vars
=============================================================================
