# Radar workstation: TLA+ specifications

Specifications of the NEXRAD radar workstation in `crates/` (a Rust workspace:
`radar-workstation`, `nexrad-decoder`, `http-ingest`): TLA+ modules translated
from the code, TLC configurations that check them on small instances, and TLAPS
proofs of the central invariants for every instance. Paths below are relative to
`src/crates/`; RW is `radar-workstation/src/`, HI is `http-ingest/src/`, ND is
`nexrad-decoder/src/`.

## 1. The system

The workstation follows one radar. A radar uploads each volume scan to an S3
bucket as a directory of chunks: `-S` (start, with metadata), `-I` ..., `-E`
(end). Four tasks of one supervised quartet carry them to the screen:

    S3 --HTTP--> poller --32--> assembly --64--> compute --64--> applier --> AppState --> renderer
                (stage 1)      (stage 2)        (stage 3)       (stage 4)    (RwLock)     (UI thread)

The numbers are the capacities of the mpsc channels (RW `pipeline.rs`). Every
stage selects between its input and a shutdown watch; no send is raced with
shutdown. The stages are four futures joined in one tokio task; `supervise`
awaits that task, restarts it after a panic with exponential backoff, and ends
on a normal return. `AppState` outlives restarts. The renderer clones snapshots.

### Inventory

| component | state | operations | hard behaviour | what makes it correct |
|---|---|---|---|---|
| HTTP client (HI `lib.rs`, `connection.rs`, `response.rs`) | one keep-alive connection, its read buffer | `send`, `attempt`, `round_trip`, `read_head`, `read_body` | stale connections, one retry, timeouts with a late answer, partial reads, framing | a success is the whole answer to its own request; a reused connection has nothing unread; every request ends |
| S3 poller (RW `ingest/s3_poll.rs`) | last completed volume, key cursor, empty-poll and error counters, published status | `run`, `poll_once`, `apply_recovery`, `next_target` | listings that are stale when used, a batch failing half way, missing directories, volumes that never end | chunks once, in order, without holes; the cursor is exact; no endless wait |
| volume assembly (RW `assembly/`) | state machine, open sweeps, closed elevations, volume context, watchdog clock | `on_start_chunk`, `on_chunk`, `on_tick`, `reset`, `run` | lost, late and undecodable chunks; three ways a volume ends | an elevation closes once per volume; nothing crosses volumes; a stalled volume closes |
| compute stage (RW `compute/mod.rs`) | retained tilts of the open volume | `handle_event`, `offer` | volumes cut short, the cap on retained tilts, backpressure | derived products come from one volume |
| shared state (RW `state/`, `event.rs`) | merged sweeps, derived products, VCP, last summary, revision, event log | `apply`, `reset`, `report`, `snapshot` | updates out of order, pattern changes, the revision shortcut of the renderer | one pattern; never back in time; equal revision means equal content |
| supervision (RW `pipeline.rs`) | supervisor, four stages, three channels, restart policy | `spawn`, `supervise`, `apply_loop`, `shutdown`, `on_panic`, `backoff` | panic or shutdown at any moment, full channels | shutdown completes; nothing else stops ingest; the delay stays within 1..30 s |
| listing (RW `ingest/s3_poll.rs`, HI `request.rs`, `encode.rs`) | the page token | `list_folders`, `list_keys`, `parse_list`, `percent_encode` | objects that arrive while a listing is paged, encodings of the token | everything that was there comes out once and in order |
| decompression, decoder (RW `chunk.rs`, ND `parse/`) | none | `detect_chunk_kind`, `decompress_blocks`, `for_each_message`, `parse_message31`, `parse_vcp` | truncated, oversized and inconsistent input, word-aligned records among fixed frames | every radial that is whole comes out, in order; a bad block costs only itself |
| gridding, derived products (RW `compute/grid.rs`, `derived.rs`) | none | `grid_sweep`, `echo_tops`, `vil` | slots at 0/360 degrees, duplicates, ties, saturation, repeated tilts | a cell holds what its sector's last radial says; derived products use the newest tilt of each angle |
| palettes (RW `compute/palette.rs`) | none | `parse`, `load_all`, `sample`, `compile_lut` | lines in any order, equal thresholds, unusable files of the user | a raw value has the colour of the greatest threshold it reaches; no product without colours |
| map and labels (RW `overlay/`, `render/overlay.rs`, `label.rs`, `view.rs`) | the camera | `parse`, `project`, `draw`, `select`, `pan_by_pixels`, `zoom_about` | ranges that reach outside the bundle, zoom at its limit | every line that is drawn is one of the bundle's; a zoom keeps the place under the cursor |
| configuration (RW `config/`) | a file, shared by instances | `load`, `save` | a crash between write and rename, hand edits, duplicate keys | a save changes only its own settings; what the operator left is there at the next start |
| program life cycle (RW `main.rs`, `cli.rs`, `paths.rs`, `headless.rs`) | exit code, the running pipeline | `main`, `run_render`, `headless::run`, `shutdown` | failures at the start and in mid-session | no exit leaves the ingest tasks behind |
| GPU selection (RW `render/adapter.rs`, `gpu.rs`) | none | `find_displays`, `rank`, `Gpu::new` | hybrid laptops, adapters that fail half way, `RADAR_GPU` | the adapter of the display, if it comes up; the forced one or none |
| texture cache, render loop (RW `render/radar.rs`, `render/mod.rs`) | GPU grids and LUTs, selection, last revisions, pending redraw | `sync`, `ensure_lut`, `redraw`, `resolve_selection`, `step_elevation`, `about_to_wait` | caches cleared within a sync, lost surfaces, selected tilts that disappear | a frame draws the grid it describes; the selection is the operator's; new data gets presented |
| drawing, chrome, key table, TLS set-up, utilities | | | layout, wording, calls into libraries | not modelled (section 8) |

`PROJECT.json` lists the components with their status, and under "hazards" the
places in the code where something can go wrong that a test would hardly reach.

## 2. Modules

| module | models | composes |
|---|---|---|
| `HttpClient` | `S3Client::send` down to `Wire::read_more`, against an external server | |
| `S3Poller` | the poller task, against an external bucket that grows | |
| `VolumeAssembler` | `assembly::run` and every method of `VolumeAssembler` | |
| `Compute` | `compute_loop`, `handle_event`, `RetainedTilts` | |
| `RadarState` | `AppState`: `apply`, `reset`, `report`, and the renderer's revision check | |
| `VolumeFlow` | chunk to display, with restarts | `VolumeAssembler`, `Compute`, `RadarState` |
| `Renderer` | the callbacks of the render thread, the texture and LUT caches, and the applier beside them | `RadarState` |
| `MergedDisplay` | abstract: what the display promises | implemented by `VolumeFlow` |
| `Pipeline` | the quartet, its channels, panics and shutdown | |
| `RestartPolicy` | `on_panic` and `backoff` | |
| `ConfigFile` | the configuration's lines: `parse`, the rule of every key, `load`, the merge of `save` | |
| `Workstation` | the life of several instances of the program around one configuration file | `ConfigFile` |
| `Listing` | one paged listing: the loop over pages, the XML reader, the token's encodings | |
| `ChunkDecoder` | kind detection, block framing and its byte budget, message framing, the bounds of Messages 31 and 5 | |
| `Gridding`, `DerivedProducts` | azimuth count, slots, scatter and requantisation; echo tops and VIL | `DerivedProducts` extends `Gridding` |
| `Palette` | directives, order, sampling, the compiled table, the fall-back | |
| `MapLayer` | the bundle's bounds, the line list, layer ranges, label placement, pan and zoom | |
| `GpuSelection` | display discovery, ranking, the override, the attempts of `Gpu::new` | |
| `Computations` | every computation above on every input of a set, and the restart policy and paging machines | `RestartPolicy`, `Listing`, `GpuSelection`, `ChunkDecoder`, `DerivedProducts`, `Palette`, `MapLayer` |
| `*Proofs` | theorems and their proofs; those of `Pipeline`, `RestartPolicy`, `GpuSelection` and `Gridding` are in `ComputationsProofs`, which extends `Pipeline` beside `Computations` | extend the module they are about |
| `MC*` | instances for TLC | extend the module they instantiate |

Operators keep the names of the source: methods in `snake_case`
(`ingest_radial`, `finish_volume`, `apply_sweep`), actions in `CamelCase`. A
struct is a record, its methods are operators from record to record, and an
action is one handler between two awaits. Definitions named `X_Fault` directly
before a definition `X` are faulty variants of it, used by no specification:
putting one in place of `X` must make a property fail, which is how we know the
property depends on the code.

Data is abstracted to what the code decides on. In `VolumeAssembler` a radial is
its elevation, whether its status closes it, its time stamp and its VCP number;
whether a chunk decodes is an input. A `VolumeId` (date and time of the first
radial) is a number, 0 the default id. In `S3Poller` a directory is the sequence
of the kinds of its keys, so a listing after the cursor is a suffix of it; pages
and XML are in `Listing`. In `Compute` a grid is the product it holds and the tilt
it came from, and any subset of the products may come out of gridding. In
`HttpClient` a byte is a token. In `Pipeline` a channel is a message count. In
`Renderer` an `Arc` is who allocated it and which content it holds, a texture is
the content it was filled with, and a LUT is its key. In `ConfigFile` a line is a
pair, a comment or text without a meaning, and a value is the number it stands
for. In `ChunkDecoder` a chunk is the records that were written to it and the
number of bytes that are left of it; all lengths are bytes, with the sizes of the
source. `Gridding` and `DerivedProducts` compute in integers (rationals as
numerator over denominator); the circle has `Circle` units, and slant range, beam
height and the Z-M relation are constants of the model.

Points where code and model correspond in a way a reader may want to know:

* `VolumeAssembler!OnChunk` starts the loop over a chunk's radials, `TakeRadial`
  and `DiscardLateRadial` are its iterations, `ReportLate` and `FinishChunk` what
  follows it. The loop has no await, so only the clock moves meanwhile. `Elapse`
  moves the clock; ages beyond the timeout are not told apart.
* `S3Poller!PollFailed` is the error return of any await of a poll; its locals
  are lost, fields already assigned stay. Envelopes are sent only after the whole
  batch was fetched. What is left to fetch is a set of keys of which `Fetch` takes
  the least, which is the order of the listing.
* `RadarState!apply_sweep` clears the old pattern before it looks at the age of
  the sweep, as the code does (see the notes of section 5).
* `VolumeFlow!Restart` drops all task state and both channels and lets the poller
  cold-start at a volume not older than the one in progress. `AppState` stays.
* `Pipeline!Respawn` is possible after shutdown was asked for: sleep and shutdown
  can be ready in the same poll of `select!`.
* `HttpClient!TimedOut` may fire while the answer is on its way: that is the
  race of a timeout with a late answer. `ServerAssumption` is what is asked of the
  server: where its headers say without ambiguity how long a body is, it sends no
  more than that. It may send less, err in a chunk's size line or CRLF, contradict
  itself in the headers, answer slowly or never, and close at any moment.
* `Renderer`: a winit callback reads `AppState` once and does not yield, so each is
  one action. `Prepare` is `redraw` up to the surface; `Redraw`,
  `RedrawSurfaceLost` and `RedrawSkipped` are its three continuations. `aged`
  stands for the comparison of the age text with `last_chrome_text`. `ensure_luts`
  is the loop of `sync` over the uploaded grids, as a recursive function of the
  caches, since a full cache is cleared in the middle of it.
* `Workstation!Launch` is `main` up to the spawn of the pipeline: it reads the file
  once. A save is `SaveRead`, `WriteTmp` and `Rename`, between which other
  instances run, the file is edited, or the process dies (`Kill`). A failed write
  leaves the temporary file as it was or partial, as `fs::write` may.
* `Computations!Idle` makes a behaviour about one computation: these operators
  share no state in the code, so nothing is lost. The property of each states the
  result a second time, from the meaning of the input and without the algorithm.
* `Gridding!modal_azimuth_count` is the set of the codes with most votes: which of
  two tied ones wins is the iteration order of a `HashMap`.

## 3. Runs

| run | question | distinct states |
|---|---|---|
| `assembler` | Four chunks of any kind in any order, ticks, resets: is a sweep ever reopened, lost, carried over, left without identity, or a stalled volume left open? | 11 thousand |
| `poller` | Three directories growing in any way, two failing requests: once, in order, no holes, exact cursor; are stuck volumes and gaps passed? | 244 thousand |
| `poller_absent_directory` | Finding 1 | violation |
| `radar_state` | Any updates in any order, resets, reports, redraws | 204 thousand |
| `flow` | Two volumes through full channels, one undecodable chunk, watchdog and one panic at any moment: does it implement `MergedDisplay`, and is the newest volume shown at the end? | 5.6 million |
| `flow_outage` | Finding 2 | violation |
| `pipeline` | Full channels, panics, shutdown at any moment: does shutdown complete? | 13 thousand |
| `http` | Three requests on one connection, twenty-two kinds of response, closing at any moment | 6 thousand |
| `render` | Updates, keys, lost and skipped frames, idle ticks in any order: do the caches hold what was uploaded, does a frame draw what it describes, is new data presented? | 153 thousand |
| `render_reupload` | Finding 3 | violation |
| `workstation` | Two instances on one configuration file, nine kinds of launch, hand edits, failing and interrupted saves, a kill at any moment: what does a save change, what does the next start find, does every exit stop the pipeline? | 722 thousand |
| `computations` | Every computation on every input of its set; 70 panics, past the width of the shifted integer; uploads while a listing is paged | 84 thousand |

### Properties

*Assembly.* `SweepClosureIsPermanent`: no elevation twice in a volume, in the
scan under construction and in every scan handed on. `NothingCarriedOver`: an
idle assembler holds nothing of the last volume. `SweepsHaveIdentity`: no sweep
is closed under the default id. `NoSweepForgotten`: closed sweeps keep their
place in the scan and leave it only inside a `VolumeClosed`.
`IdentityIsStable`: a volume keeps its id. `StalledVolumeCloses` (liveness).

*Poller.* `DeliveredOnceInOrder` (and without holes), `CursorIsExact`,
`TargetNeverRetreats`; liveness `StuckVolumeIsLeft` and
`GapIsPassed`.

*State.* `RevisionIdentifiesContent`: the renderer that skips an equal revision
shows the current state. `OnePattern`, `ShownDataNeverRegresses`.

*Flow.* `ImplementsMergedDisplay` (refinement), `NewestVolumeIsShown`,
`DerivedFromClosingVolume` (and the cap on retained tilts),
`DerivedPrecedesNextPattern`, and absence of deadlock.

*Pipeline.* `StopsOnlyOnShutdown`; liveness `ShutdownCompletes`. In
`computations`, `CrashLoopBacksOff`: the delay of a crash loop never shrinks
and stays within 1..30 s.

*HTTP.* `OwnAnswer`, `ReusedConnectionIsClean`, `RetriedOnlyUnanswered`;
liveness `RequestEnds`.

*Renderer.* `GpuHoldsUploaded`: the textures are those of the uploaded snapshot,
for every grid the device can take. `FrameIsCoherent`: the texture drawn is that
of the selected grid, and a selected grid that is not drawn for want of its LUT
has been reported. `SelectionIsTheOperators`: only a key moves a selection once made.
`NewDataIsPresented` (liveness).

*Program.* `SaveKeepsOtherLines`: but for hand edits the file changes only by the
completed save of a window closed cleanly, which keeps, in its place and as it
was, every line it read that does not define a setting changed in that window. `ViewIsRestored`: as long as
nobody else changes the file, loading it gives the view that was on the screen.
`EndsWithPipelineJoined` (liveness): every instance that is closed, fails or loses
its input ends, its pipeline stopped first.

*Computations.* `GpuChoiceIsSound`, `ChunkIsDecodedWhole`, `GridIsExactScatter`,
`DerivedFromNewestTilts`, `LutFollowsThresholds`, `MapIsDrawnFaithfully` and
`ListingIsComplete` each compare a result with an independent statement of it;
the comment before each says which.

### Bounds

* Two elevations suffice where elevations interact only through "the same" and
  "another". Four chunks contain: a start, a chunk that closes an elevation, a
  late one for it, and an end or a new start. The watchdog timeout is two clock
  units in `assembler` so that activity can re-arm it half way.
* Three volumes and thresholds 1 and 2 let the poller meet a gap, re-anchor, and
  abandon a volume. The count of empty polls is the code's own, without a bound:
  it starts again at every threshold, and only a failing re-list, of which there
  are `MaxFailures`, lets it pass one. Two keys per directory make a batch of
  two, which can fail between its fetches.
* `flow` uses channels of capacity one, so that every stage gets blocked, and a
  retained-tilt cap of one, so that the cap is reached. `NewestVolumeIsShown` is
  checked with at most one undecodable chunk: an `-E` and the next `-S` lost
  together merge two volumes, which the code cannot tell.
* `http` keeps one request in flight, as `&mut self` does; three requests allow a
  reused connection after a reused one. The responses include a 204, a success
  without a body; limits of one or two tokens put bodies and heads
  below, at and above them.
* `render` holds a LUT cache of two keys and sweeps that need up to three, so the
  cache is cleared within a sync; one grid is too large for the device; two tilts
  whose angles run against their numbers, and two patterns, so that the selected
  tilt can disappear; two revisions, so that grids are replaced.
* `workstation`: two instances are what a lost update needs; two launches and two
  changes let the second start after, during or before the save of the first. The
  launches cover each early return of `main` once. A width of 600 is below what
  `load` accepts, and one of the edits repeats a key.
* `computations`: `Circle` = 8 with 4 and 2 slots (for 720 and 360 of 360 degrees)
  puts radials on, before and behind every border and leaves two to a slot; sweeps
  have up to four radials and two gates. Chunks have up to three records,
  whole, a byte short, cut between or inside blocks, or a stub;
  `MaxDecompressed` = 5000 admits two frames of 2432 bytes and not three. Six entries on pages of two make a listing of three
  pages into which entries come before and behind the token. Palettes have up to
  three lines over all 256 raw values.
* Deadlock checking is off where the inputs are bounded (chunks, uploads,
  revisions, requests, panics) or the system is meant to stop (a stopped
  pipeline); `flow` checks it, with `AtRest` as the only permitted idleness.

### Fairness

* assembler: its task is polled and time passes.
* poller: ticks come and requests end (every read has a timeout); a request may
  fail a bounded number of times. The bucket owes nothing.
* pipeline: weak fairness of every stage; strong fairness of receiving and of
  noticing shutdown, because tokio's `select!` polls its branches in random order.
* render: idle ticks come, time passes, and a visible window gets its surface in
  some of infinitely many attempts (strong fairness of `Redraw`).
* workstation: `main` goes on by itself once its window is closed, has failed to
  open, or its input ended; the operator owes nothing.
* http: the client's own steps, its timers included; nothing of the server.
  `write_all` has no timeout in the code (HI `connection.rs:110`); the assumption
  that it ends is one about the socket buffer, which holds one small request.

## 4. Proofs

The proofs hold for all constants that satisfy the named assumptions of the
modules (`ConstantsAssumption`, `StateAssumption`, `PipelineAssumption`,
`PollerAssumption`, `PolicyAssumption`, `FlowAssumption`, `RendererAssumption`,
`GridsAssumption`, `HttpAssumption`, `ServerAssumption`, `WorkstationAssumption`,
`BenchAssumption`): any elevations, VCPs, time stamps, chunks, responses, files,
adapters, sweeps and capacities, and no bound on their number. They are typing facts
and capacities of at least one, but for `ServerAssumption` (section 2),
`GridsAssumption` (at most one grid per product and sweep) and, in
`WorkstationAssumption`, that the keys of the view are keys `parse` accepts.

* `VolumeAssemblerProofs`. The invariant is `SafetyInv`. `SweepClosureIsPermanent`
  alone is not inductive: it needs that `closed_elevations` is exactly the set of
  elevations of `sweeps` (`ClosedSetsAgree`), that an idle assembler is empty
  (`NothingCarriedOver`), that no open sweep has a closed elevation, and that the
  events waiting to be sent satisfy the same. `HandlerInv` says where the task is:
  `on_chunk` has left Idle before its loop, and a send has an event to send.
  `IndInv` is the same stated per method (`Sound`, `Bounds`). Proved:
  `AssemblerTypeOK`, `ClosureIsPermanent`, `VolumesAreSeparate`,
  `ClosedSweepsAreStamped`, and from the invariant the action properties
  `VolumeIdentityIsStable` and `SweepsAreHandedOver`. One lemma per method states
  what it preserves. `Follows`, about any line of events behind the assembler, is
  here too, for the flow: sweeps between two closures are of the volume and the
  elevations of the second.
* `RadarStateProofs`. The invariant adds to type correctness that the revision of
  the last upload is at most the current one and, if equal, its content is the
  current snapshot, and that derived products have a volume exactly when there
  are any (`DerivedIsDated`). Proved: `RevisionCheckIsSound`, `PatternsNeverMix`,
  `NoRegression`.
* `VolumeFlowProofs`. `FlowInv`: the types of every stage, `Follows` for the tilts
  retained and the events in the channel and the assembler, every update is stamped
  with a volume of which alone its derived grids are made (`UpdatesDated`), and as
  long as nothing is shown a sweep goes before anything derived (`SweepFirst`). Stage lemmas are used through
  `AP == INSTANCE VolumeAssemblerProofs` and `RP == INSTANCE RadarStateProofs`; a
  restart re-establishes the invariant because it empties everything but `AppState`.
  Proved: `DerivedProductsAreOfOneVolume`, and `FlowRefinesMergedDisplay`: initial
  states map to initial states, `Apply` maps to a step of `MergedDisplay` or
  a stutter, and every other step leaves the mapped variables alone.
* `S3PollerProofs`. `DeliveryInv`: the local copy of `last_completed_volume` that a
  poll carries across its awaits is still the field's value when it is assigned
  back (`AnchorInv`); the envelopes fetched and the keys still to fetch are together the
  recognised keys between the cursor and the end of the listing (`BatchInv`); and the
  cursor is exact for what was sent and what is about to be (`CursorInv`). The last
  two are needed because the cursor is behind the batch while it is fetched and ahead
  of the deliveries while it is sent. Proved: `ChunksAreDeliveredOnceInOrder`, `CursorTellsTheTruth`,
  `NeverAnchorsBackwards`. That a set of keys has a least and a listing a
  newest folder comes from the well-foundedness of the natural numbers.
* `HttpClientProofs`. `RetryInv`: nothing was heard on the way to a write, and
  `any_bytes` misses no byte of an answer while one is read. Needed because the
  decision to retry and the second write are steps apart. Proved:
  `NoRetryAfterAnswer`, which does not use `ServerAssumption`. `WireInv`: while a
  request is under way the read buffer and the network together are a window
  (`Window`) of the tokens of its own answer, starting where the framing knows: at
  its head, at its body, or at the start of a chunk, with `out` the content before
  that place (`IsDataOf`, by a strictly increasing map of positions); between
  requests they are empty. Proved: `KeptConnectionsAreClean`,
  `AnswersAreTheRequests`.
* `RendererProofs`. `RendererInv`: cached `Arc`s are the cache's own, the revision of
  the upload tells whether the textures are current, every grid of the uploaded
  snapshot the device can take has its texture, and the frame was drawn from these.
  `ensure_luts` recurses over any number of grids; that it is a function at all
  and keeps the cap is shown by a least counterexample, since induction schemes are
  out of reach. Proved: `RendererTypeCorrect` (with the cap on LUTs),
  `GpuHoldsWhatWasUploaded`, `FramesAreCoherent`, `SelectionStaysTheOperators`.
* `WorkstationProofs`. First the file alone: what `save` writes is described line by
  line (`Saved`), from which a key that is saved is read back with its new value, any
  other with its old one, and the lines of other keys stand where they stood. Then
  `WorkstationInv`, one part per instance: as long as nobody else has written the
  file, the configuration an instance runs with is the one the file gives, what
  `save` read is what the file still holds, what it is about to write is the merge of
  that with the changed settings, and after a clean end the file gives the view back.
  `ViewIsRestored` alone says nothing of the steps before the end, at which the
  rename happens; the other instances' steps are harmless because each either leaves
  the file alone or ends the sole use of it. Proved: `CleanCloseIsRestored`,
  `SavesTouchOnlyTheirLines`.
* `ComputationsProofs`. `PolicyInv`: the last delay is the backoff of the counter
  before it was increased. Proved: `BackoffNeverShrinks`.
  Of the pipeline that the policy restarts: `SupervisorInv` (a stage in a send owes a
  message, and there are no stages in a backoff) is inductive, for any capacities.
  Proved: `PipelineTypeOK`, `PipelineStopsOnlyOnShutdown`.
  `Gpu::new` takes the first of the adapters that come up in an order that is not
  total by itself; that there is a first follows from a least loss of score and, among
  its holders, a least index. A score tells an adapter that drives a display from one
  that does not because every other term together is smaller. Proved:
  `GpuIsChosenSoundly`.
  `grid_sweep` is a loop over the radials, a recursive function of their number. That
  it exists, and that the loop invariant `GridAfter` (a slot no radial has hit is
  empty, any other holds its last radial, filled slots, duplicates and skipped radials
  add up) holds at every step, are both shown by a least counterexample; that the slot
  of an azimuth is its sector by division with remainder, for angles below 0 and past
  360 degrees too; that a majority of the spacing codes decides by counting two
  disjoint sets of radials. Proved: `SweepIsScatteredExactly`.

Only model-checked:

* liveness under fairness and anything with ENABLED, outside the prover;
* `NewestVolumeIsShown` and `DerivedPrecedesNextPattern`, which are not true of any
  stream of chunks: they need that streams are those of a radar (volumes in order,
  one VCP in a volume) with at most one chunk lost, an induction over the stream;
* `ChunkIsDecodedWhole`, `DerivedFromNewestTilts`, `LutFollowsThresholds`,
  `MapIsDrawnFaithfully` and `ListingIsComplete`, whose results are folds, filters
  and flattenings of sequences, about which nothing can be proved without induction
  over data.

## 5. Findings

1. `NeverStallsOnAbsentDirectory` (`ingest/s3_poll.rs:519`). When one sequence
   number is skipped the poller waits on the absent directory until two later
   volumes exist; `docs/architecture/data-flow.md:144` says it no longer stalls.
   `GapIsPassed` is what does hold.
2. `RenderedSweepIsImmutable` (`assembly/mod.rs:245`). After an outage longer than
   the watchdog the rest of an elevation is assembled as a new volume and replaces
   the sweep on display; ADR-0012 says closure is permanent.
3. `OnlyChangedGridsUpload` (`render/radar.rs:415`). `upload_grid` keeps a clone of
   the grid in an `Arc` of its own, so `Arc::ptr_eq` in `plan_sync` is never true
   and every new revision uploads every grid again; the comment at line 57 and
   `docs/architecture/rendering.md:410` say that only changed grids are. A repair
   has to look after the LUT cache as well: `ensure_lut` runs only for uploaded
   grids, and a LUT lost when the full cache is cleared comes back today only
   because everything is uploaded again.

Noted without a run.

* State: a late sweep of an older volume in another VCP clears the newer display
  before its age is looked at (`state/apply.rs:34`; the comment at line 42 says it
  never clobbers). Updates keep their order in the pipeline, so it takes a restart
  that replays an older volume across a pattern change.
* Supervision: `TaskRestarted` is reported before the backoff and so also for a
  task that a shutdown keeps from restarting (`pipeline.rs:141`).
* Poller: the published `current_volume` can name a volume of which nothing was
  delivered (`s3_poll.rs:221`); a page that is truncated and has no token makes
  the listing ask for the first page for ever (`s3_poll.rs:414`, `462`).
* HTTP: a non-2xx response whose Content-Length exceeds `max_body_bytes` is
  reported as `BodyTooLarge`, not by its status (`response.rs:145`).
* Renderer: a grid too large for the device leaves the texture of its predecessor
  cached, and `draw` draws that with the new grid's geometry (`render/radar.rs:306`,
  the exception in `FrameIsCoherent`); `redraw` sets `last_drawn_revision` before it
  has a surface (`render/mod.rs:356`), and it is the age text that brings the lost
  frame back.
* Gridding: `DegenerateGateGeometry` is never reported because `grid_sweep` returns
  early (`compute/grid.rs:194`); a radial of another scale or offset than the
  first one's passes the consistency check (`grid.rs:211`), so the model keeps one
  scale per sweep.
* VIL: a column over which two or more tilts reach, but at most one of them with an
  echo (raw 0 in the others), is no data (cell 0): `vil` skips it, having fewer than
  two points (`compute/derived.rs:211`). The comment at `derived.rs:184-187` says
  of two or more tilts with "weak-or-absent echo" that they integrate to a real
  zero (cell 2), distinct from no data; `docs/plans/stage-3-compute-layer.md:798`
  agrees with the code. `DerivedFromNewestTilts` asks of these columns only that
  they hold no water, and leaves open which of the two they are.
* Configuration: of a repeated key `load` takes the last (`parse.rs:20`) and `save`
  rewrites the first (`save.rs:35`), so such a setting cannot be saved
  (`ViewIsRestored` exempts it); two instances that save at once lose the settings
  of the one that renames first (`save.rs:26`), although `save.rs:12-15` says that
  the settings of others survive and the test at `save.rs:157-162`, which saves
  one after the other, calls concurrent saves safe; a `--config` path without a parent
  directory can never be saved (`save.rs:66`); a window smaller than 640x480 is
  saved and refused at the next start; a file that is unreadable at the start and
  readable at the end gets the defaults the session ran with.
* GPU: `NoDisplayInfo` is also the reason when displays were found and none
  matched; a software rasteriser is not tried when hardware presents but fails to
  come up.
* Palettes: `ND:` with three numbers is opaque (`palette.rs:191`); a threshold that
  parses as NaN breaks the order `sample` relies on (`palette.rs:118`).

## 6. How to run

    tlc -config MCS3Poller.cfg MCS3Poller      # a run: module and cfg in PROJECT.json
    tlapm VolumeAssemblerProofs.tla            # a proof

## 7. Plan

Order of work, the most important behaviour first. Steps 1 to 7 are done.

1. Assembly, with proofs.
2. Shared state with proofs; compute; their composition and the abstract display.
3. Poller; supervision with proofs.
4. HTTP client.
5. Renderer: caches, selection, frames.
6. Computations, checked against independent statements over bounded inputs, and
   the paging of listings.
7. Configuration and the life of the program, with several instances.
8. Poller: wrap of volume numbers and the burst of missed ticks, both of which need
   a model of what the bucket and tokio's `interval` do over days.
9. Proofs: the refinement of `MergedDisplay`, the poller's deliveries, the HTTP wire,
   the renderer, the configuration file, the choice of the GPU and gridding are done.
   Left: the other computations, for which the folds have to be restated as recursive
   functions as `grid_sweep` is, and `ListingIsComplete` from an invariant of the page
   token.

## 8. Not modelled

* Drawing: calls into wgpu and egui, the chrome's layout and wording, reference
  rings, the key table, and the offscreen harness, which is for tests.
* Floating point: the azimuthal projection, the beam geometry and the Z-M relation
  are constants of the model; what is checked is what the code does around them.
* The fixed request template, certificate roots and host resolution: no control
  flow a property is about.
* Field values of radar messages on which no bound depends.
* The utilities in `src/utility/`: developer tools that read files and print or
  draw, on which nothing of the workstation depends.
* bzip2, TLS, tokio, S3, wgpu and the file system are external; their effects are
  the nondeterministic choices named above.
