# Models of tt-wavelet

TLA+ models, model-checking runs and machine-checked proofs for the wavelet
transforms of this repository. The subject is `tt-wavelet/`: a lifting wavelet
transform (LWT) and its inverse (ILWT) on Tenstorrent hardware. `ttnn-wavelet/` is
a port of the same kernels and planners to a TTNN operation; of it only the generated schemes,
which are the same files, are modelled.

All paths below are relative to the repository; `kernels/` and `include/` stand for
`tt-wavelet/kernels/` and `tt-wavelet/tt_wavelet/include/`.

## 1. The system

A 1D transform goes through these parts.

| part | source | state | operations | talks to |
|---|---|---|---|---|
| schemes | `wavelets/*.json`, `scripts/generate_static_schemes.py`, `include/lifting/static_scheme.hpp`; the generated headers in `ttnn-wavelet/` | none: a scheme is a constant, a C++ type per wavelet | steps predict, update, scale-even, scale-odd, swap; inversion of a scheme | compiled into the compute kernel, given to the planners |
| forward planner | `include/lifting/plan.hpp`, `execution_plan.hpp` | streams (shift, length), slots, routes; candidate chunks | trace the steps, divide coefficients into chunks, backward requirements, forward placement, doubling until the L1 budget fits | host driver |
| inverse planner | `include/lifting/inverse_plan.hpp` | the same | undo the trace per chunk of samples | host driver |
| host driver | `tt_wavelet/src/lifting/device.cpp` | buffers, config pages | choose layout and policy, partition chunks over cores, write route pages, create buffers and programs | kernels, through config pages and arguments |
| boundary extension | `include/common/signal_extension.hpp` | none | describe and evaluate the sample at any position in eight modes; 32-bit variants | reader |
| stick cache, stream loader | `kernels/primitives/stick_cache.hpp`, `kernels/dataflow/lwt_reader.cpp` 157-255 | cached sticks in a circular buffer; cursors | read a sample, refill, release | reader; DRAM |
| reader kernel | `kernels/dataflow/lwt_reader.cpp` | route, group, reads under way | load streams, gather operand tiles of a group, wait for the writer's signal | compute (three circular buffers), writer (sync buffer) |
| compute kernel | `kernels/compute/lwt_compute.cpp`, `kernels/sfpi/` | step, group, registers | predict/update stencil, scale, pack | reader, writer (circular buffers) |
| writer kernel | `kernels/dataflow/lwt_writer.cpp` | route, group, writes under way | scatter output tiles to a slot, its tile mirror or DRAM; signal the reader | compute, reader; NoC |
| interleave | `kernels/primitives/interleave.hpp` | staging buffer | merge two streams into sticks of the signal, from the slots or directly from output pages | writer; DRAM |
| workspace layout | `kernels/primitives/workspace_layout.hpp` | cursor | logical index to physical place of a tile-native slot | loader, reader, interleave |
| L1 accounting | `include/lifting/l1_accounting.hpp` | none | one sum | host driver |
| 2D planners, host driver | `plan_2d.hpp`, `inverse_plan_2d.hpp`, `device_2d.cpp` | planes, rectangles, candidates | cut both axes, four passes of routes per chunk, size the planes | 2D kernels |
| 2D kernels | `lwt_2d_{reader,compute,writer}.cpp` | five planes in L1, a scratch that reader and writer share | split the image into four planes, run the routes tile by tile, deliver the results | as in 1D, and each other through the scratch |
| TTNN operation, command-line programs, benchmark scripts | `ttnn-wavelet/`, `main*.cpp`, `scripts/` | none of their own | ports of the above; parsing, files, timing | host driver |

How they interact. The reader, compute and writer kernels of a core run concurrently
and share circular buffers. Three slots (A, B, Scratch) of L1 hold the two streams
and the place of the next result; each executable route (a predict, update or scale
that is not folded away) reads two slots and writes the third, or DRAM. The reader
must not read a slot before the previous route's asynchronous NoC writes to it have
landed; the only thing that says so is a one-page sync buffer the writer pushes after
its barrier. The planner and the compute kernel decide separately, on the host at run
time and in C++ templates at compile time, which routes exist and where scales
are applied. Nothing at run time checks that they agree.

What is hard about it:
- interleavings of three kernels and a NoC that lands writes in any order;
- reuse: of output pages by the compute kernel while the NoC reads them, of slots by
  later routes and chunks, of staging and cache pages by later batches, of the 2D scratch for
  input, route pages and results in turn;
- staleness: a tile mirror that some writers bypass, a slot a direct route never
  wrote, cached sticks;
- two sides that compute the same thing apart (planner and kernel, group counts of
  the three kernels, formulas and their narrow variants);
- raw pointers into circular buffers, which wrap only at an exact boundary;
- boundaries: filter windows longer than a signal, partial sticks, groups and
  batches, trimming of chunks, 32-bit limits.

What makes each part correct is stated by the properties in section 4; the hazards
they are aimed at are listed in `PROJECT.json`.

## 2. Modules

| module | what it is | extends |
|---|---|---|
| `LiftingData` | routes of a chunk, windows of a group, arithmetic of a group (constants) | |
| `LiftingTransform` | **abstract** transform of the work items of a core: load, run each route, hand over | LiftingData |
| `LwtPipeline` | **detailed** three kernels, buffers, NoC, slots, mirror, DRAM of one core | LiftingData |
| `LwtPipelineProofs` | its inductive invariant and theorems; that it implements `LiftingTransform` | LwtPipeline, AnySequences, TLAPS |
| `PlanArithmetic` | intervals, rounding, geometry of a step, division into shares | |
| `OrthogonalSchemes`, `ShippedSchemes` | the 106 generated schemes and their inverses: steps, shifts, numbers of coefficients | |
| `LiftingScheme` | schemes, their inversion, the program `run_static_steps` unrolls to, one route's result | |
| `LiftingRoutes` | steps into routes, for a signal of some length | PlanArithmetic, LiftingScheme |
| `AxisRequirements` | what a route needs of the streams, backwards and forwards; the inline scale | LiftingRoutes |
| `ChunkPlanning` | what both 1D planners share: the forward lifting plan, step by step; candidates, walks, slots, budget | AxisRequirements |
| `LwtPlanner`, `IlwtPlanner` | the execution plans of the two directions | ChunkPlanning, LiftingReference |
| `Planner` | both directions from one set of jobs | ChunkPlanning, LiftingReference; instances of the two planners |
| `LiftingReference` | **reference** transform of a whole padded signal, by absolute positions | LiftingScheme |
| `AxisCone` | what one axis of a rectangle of output depends on, both directions | AxisRequirements |
| `PlaneSchedule` | the four passes over the five planes, what the planes have to hold, and how the output is cut into chunks | AxisCone |
| `PlaneExecution` | what the 2D kernels make of a chunk, route by route; the **reference** transform of an image | PlaneSchedule, LiftingReference |
| `PlaneSplit` | how the 2D reader splits an extended image into four planes, through a scratch of few tiles | PlaneExecution, SignalExtension, ExtensionGrowth |
| `Planner2D` | the 2D execution plans of the two directions | PlaneSplit |
| `PlaneLegs` | which tiles of which planes reader and writer touch for a chunk, in which order | PlaneSchedule |
| `Lwt2DPipeline` | **detailed** three 2D kernels, buffers, NoC, planes and scratch of one core | |
| `Lwt2DPipelineProofs` | its inductive invariant and theorems; that its data are those of sequential execution | Lwt2DPipeline, AnySequences, TLAPS |
| `AnySequences` | what the proofs need of sequences of anything, of bounded sets of integers, of division and of mixed radix | FiniteSetTheorems, TLAPS |
| `SignalExtension` | the boundary formulas and their narrow variants | |
| `ExtensionGrowth` | **reference**: what a mode demands of the samples beyond a signal (`Extends`), and the signal that grows by one sample at either end (`Grown`) | |
| `WorkspaceLayout` | tile-native places and the cursor | |
| `RawBuffer` | a circular buffer used as scratch through raw pointers (external: tt-metal) | |
| `StreamLoader` | the loads of a core through the stick cache | RawBuffer, SignalExtension, ExtensionGrowth, WorkspaceLayout |
| `StreamLoaderProofs` | the boundary formulas, the inductive invariant of the loader and its theorems | StreamLoader, AnySequences |
| `InterleaveStaging` | the interleave of a core's work items, batch by batch | RawBuffer, WorkspaceLayout |
| `InterleaveStagingProofs` | its inductive invariants and theorems | InterleaveStaging, AnySequences |
| `HorizontalStencil` | the row stencil of the SFPI kernels, register by register | |
| `VerticalStencil` | the column stencil | |
| `StencilProofs` | their inductive invariants and theorems; the column stencil is an instance beside the row stencil | HorizontalStencil, an instance of VerticalStencil, AnySequences |
| `PlannerProofs` | inductive invariants and theorems of both 1D planners | Planner, AnySequences |
| `Planner2DProofs` | cones, passes, planes and chunks of both 2D planners; their inductive invariants and theorems | Planner2D, AnySequences |
| `*MC`, `LiftingSchemesMC` | instances for TLC | the above |

### LwtPipeline

State to code: `rpc`/`rleg`/`rgrp` are the program counter, flattened route and group
of the reader's loops, `cleg`/`cgrp`/`regs` those of the compute kernel (`regs`: operands
already copied to destination registers), `wpc`/`wleg`/`wgrp` those of the writer.
`src0`, `src1`, `base` are the contents of the input circular buffers in groups, `page`,
`head`, `count` the output circular buffer with its physical pages, because the NoC
reads them after `noc_async_write` returned. `issued` are writes that have not read
their page, `inflight` writes that have not landed, `pending`/`fetched` the same for
reads. `sync` is the sync buffer. `mem` maps a location, a plane of a slot or a chunk's
place in DRAM, to its groups.

Actions: `RLoad`, `RSync`, `RSource`, `RBase`, `NocRead`, `RPush` are the reader;
`CTake0`, `CTake1`, `CTakeBase`, `CPack`, `CScale` the compute kernel; `WIssue`, `WPop`,
`WBarrier`, `WSignal`, `WEmit`, `WDirect` the writer; `NocDepart`, `NocLand` the NoC.
A blocking call (`cb_wait_front`, `cb_reserve_back`, a barrier) is a guard. Each action
is as large as it can be without hiding an interleaving that another kernel could see.

Abstractions. A group of 32 x 48 samples is one value, computed by an
uninterpreted constant operator `Lift` or `Scale` of what was read (TLC uses a hash, so
that any wrong operand shows). A predict or update reads its source through a filter
window that is shifted by less than a group, hence `SourceWindow`: the neighbours of a
group are also read. Which plane of a slot a read uses depends on alignment; the model
allows both wherever the route's flag allows the mirror. A chunk's place in DRAM is one
location per stream. `GroupsAssumption` (each route has at least one group) holds
for every forward plan, as `RoutesProduce` checks; the inverse of a signal of one sample
with the Haar scheme can have a route without output, where all three kernels skip the
route's groups and only signals remain; that instance is outside the model.

Properties: `TypeOK` (including buffer capacities), `Lockstep` (which legs the kernels
can be on), `Conservation` (a group is in exactly one place), `WritesOfLeg`,
`NoRacingWrite` (no read or load while a write to the slot is on its way), `PagesHeld` (no page is
overwritten under the NoC), `MirrorCoherent` (a mirror that may be read holds what the
rows hold), `SignalMeansLanded`, `Drained`, `ImplementsTransform`, `Termination`.

Refinement: `ImplementsTransform` is `LiftingTransform!Spec` under a mapping that takes
the stream contents from the slots the schedule says they are in, counts a route as
done when the writer has passed its barrier, and an item as loaded once the reader has
loaded both streams.

### Lwt2DPipeline

What a core is given is a sequence of legs (`legs`), one for each sync page the writer will
push: a route that is executed, or the delivery of a work item's results. `PlaneLegs` makes them
of a chunk of the plan as the kernels' loops do: for each tile of a route the places it is
put together from and by which of the reader's paths (`stage_optimized_tile`), the place the writer
gives it, what is loaded before the first route, what is delivered after the last and over
which parts of the scratch.

The scratch has three parts: the reader's route pages up to the last executed route
(`executed`), its pages of the routes after that (`trailing`; an inverse chunk of one row
has some with the longer biorthogonal schemes), and the writer's half. When the last executed
route is signalled, the writer goes on to deliver while the reader goes through the
trailing pages. No handshake orders the two. `SkipsAssumption` says that results of such
an item are put together on other bytes, and the pipeline is proved under it. It holds of the
plans that are run because of where the bytes are: `PlaneLegs` computes the
route pages (128 bytes each) that a tile of results overwrites, from `tile_element_offset`, and a tile
of one row overwrites parts of pages 0 and 8 only, while a trailing page comes after the pages of all executed
routes. `TilesAssumption` says that a route writes no tile twice and none that it reads for a later
tile: it reads and writes different planes, or scales a tile in place. TLC evaluates both on
the plans of `Lwt2D`; that they hold of every plan is not proved.

`rpc`/`rleg`/`rtile`, `cleg`/`ctile`/`regs` and `wpc`/`wleg`/`wtile` are the program counters of
the three kernels, `input` and `page`/`head`/`count` the circular buffers between them, `pending`
and `arrived` the operands of a tile that wait for a NoC read, `issued` the writes on their way to a plane,
`memory` the planes, `scratch` who wrote the three parts of the scratch last. Actions:
`RLoad`, `RSplit` (the input, through the whole scratch), `RPages` (route pages into
the reader's half), `RStage`, `NocRead`, `RPush` (an operand: read exactly, zeroed by a read and
then put together, or put together and pushed at once), `RSync`, `RSkip` (route pages that are
not executed); `CTake`, `CPack`, `CScale`; `WFirst` (wait for a tile, then route pages into the writer's
half), `WIssue`, `WPop`, `WDeliver`, `WSignal`; `NocLand`.

A tile is one value, a hash of what it was made from. A scale writes the plane
it reads (in place), one batch of tiles behind the reader; the model leaves the order to the kernels.
`WDeliver` writes a tile or band of results to DRAM at once. The kernel's writes are asynchronous, but
it passes their barrier before the sync page, and nobody reads the results before that.

Properties: `TypeOK`; `ScratchOwned`, that reader and writer find their input and pages in
the scratch for as long as they use them; `LegsExact`, that planes and delivered results are those of
the legs carried out one after the other; `Termination`, that the kernels return and leave
the buffers empty.

### Planners

An action is an iteration of a loop of the planner: a step of the trace
(`AppendRoute`), a route of the backward requirement pass
(`Propagate`), a route of the forward placement (`PlaceLift`, `PlaceScale`, `PlaceSwap`), a
chunk (`StartChunk`, `FinishChunk`), a candidate (`TryMoreChunks`, `GiveUp`, `Accept`).
Each `TT_FATAL` that can stop planning sets `fault` to the reason. Integers are unbounded; that
they stay in `Nat` where the code has `size_t` is part of `TypeOK`.

`CoefficientsExact` and `SamplesExact` run an accepted plan, chunk by chunk, with the
program the compute kernel is compiled to (`ForwardProgram`, `InverseProgram`), on
streams with exactly the elements the planner asked for, and compare the result with
the whole transform computed by absolute positions (`LiftingReference`). They hold only if offsets,
lengths, trimming, slots, swaps, inline and lazy scales of two independent pieces of
code agree. FP32 is replaced by integers modulo 97, in which scales have
reciprocals; rounding is not a subject of the models. The inverse program is made of the
steps the header of the inverse lists (`undo`), not of those that would undo the scheme, so that
a header that does not invert its scheme shows.

### 2D planners

A plan in 2D is a list of chunks, each a rectangle of output, and for each four passes over
five planes. The forward transform lifts the columns of the even and of the odd
columns' planes, then the rows of the low and of the high results; the inverse the other
way round. `Cone` is one axis of a chunk (`build_axis_cone` of either direction), `Schedule`
the passes, in which the plane that a pass leaves free is given to the next. Both
directions are the same definition with the axes exchanged; the two functions in the source
are written out, and `HomePlane` and `Home` are what is left of the difference.

An action is a candidate (`Consider`: cut, build every chunk, judge) or the final allocation
(`Allocate`). A candidate that fits may or may not become the best: this stands for the cost
model, whose constants were measured, and the runs therefore cover every plan it
could pick. The first candidate that fits is always taken. Modelled as called in production: exact route domain,
five planes, terminal scale fused.

`TransformExact` runs each chunk of the plan on memory with exactly the rectangles the
planner asks for: a lift reads its operands where the reader looks for them relative to the
rectangle it believes to be stored, elements that are not stored are zero, and the
writer takes the results from the tile it derives from the rectangle it was told. The result
is compared with the transform of the whole image, all columns and then all rows, at
absolute positions. `PlanesHold` says of the same run that nothing needed is missing, no lift
overwrites an operand and no plane overflows its allocation; `CoefficientsExist`, that
the inverse stays within the bands.

The forward planes are filled as the reader does it (`PlaneSplit`): for each tile of the planes it collects
along either axis the tiles of the image that the extension needs, up to five
(three for symmetric extension), brings them to the scratch and looks the samples up there; a
tile that was not collected is silently replaced by the first. What comes out is compared, through
`TransformExact`, with an image grown sample by sample (`GrownImage`).

### Loading, extension, interleave

`StreamLoader` follows a value from its position to its sticks: `Seek` describes the access,
`Fetch` refills the cache, `TakeSample` reads one sample through the raw read pointer,
`Store` combines and stores through the cursor. Two loads in a row share the buffer. `InterleaveStaging`
has the batch loop (`Reserve`, `Stage`, `Release`) and the NoC (`Land`).
`RawBuffer` is tt-metal's circular buffer as these two use it: reserving counts pages
and ignores where they are, and a pointer is reset only when it meets the end exactly.

### Stencils

`HorizontalStencil` and `VerticalStencil` are the arithmetic that `LwtPipeline` keeps as
the constant operator `Lift`: what a call of `_horizontal_stencil_*` or of
`_vertical_stencil_*` leaves in the destination registers. `fe0` to `go` and `f`, `g` carry the names of
the vector registers; `dst` is the register file that holds whole tiles. An action is one
`sfpi` sequence of the source: `Load`, a tap (`EvenTap`, `OddTap`; `Tap`, `TailTap`),
`Reload`, `Store`. A sum is the sequence of its summands, so that a lost, repeated, misplaced
or reordered summand shows. `NarrowPasses` and `DensePasses` are the calls the
1D and 2D compute kernels make, tile by tile. Rows (for the column stencil, columns)
go through the same instructions in lanes of their own and never meet; one is modelled.
Not modelled here: `_horizontal_stencil_plus_base`, which nothing calls, and the
scaling of a whole tile (`Scale` in `LwtPipeline`).

## 3. Bounds, and why they are enough

| run | instance |
|---|---|
| `LwtForward` | 2 work items (last chunk of a sample, first of the next), 4 routes (predict, update, inline-scaled predict to DRAM, scale to DRAM), 1 to 3 groups, 2 groups of buffering, mirror on |
| `IlwtReconstruct` | 2 items, 2 routes, up to 3 groups, mirror on, interleave from slots |
| `IlwtDirectSingle`, `IlwtDirectMulti` | 3 items of one group; 1 item of two groups |
| `Plan` | 7 shipped schemes (structure), lengths 1 to 41, both directions, 1 or 3 cores, 3 budgets, both layouts; all 106 shipped schemes on signals of 1, 2, 21 and 22 samples, both directions; group 4, stick 2 |
| `Plan2D` | the 7 schemes and one more, tiles of 32 x 32, all eight modes; 1 x 1, 3 x 40, 70 x 5 both ways, 5 x 140 and 40 x 70 with budgets of 157, 12 and 4 tiles, 40 x 70 both ways for three schemes; 127 x 127, whose tiles need no extension inside; 2 x 129 with a filter of 102 taps, as long as the longest shipped; images with one row or column in every mode, schemes without lifts or with an early scale |
| `Lwt2D` | the last chunk of one sample and the first of the next: haar 64 x 128 (whole tiles) and db2 5 x 140 (nothing aligned) forward, haar 64 x 128, bior2.2 64 x 130 and 33 x 2 inverse (of the last, a chunk of one row whose last route has no output); buffering 2 |
| `Load` | 8 modes, signals of 1, 2, 5, 21 samples, whole and both ends, forward and inverse, both layouts and page sizes; lengths 1, 2, 3, 4, 7, 10, 15 with 32 samples beyond either end; group 12, stick 4, cache of 2; narrow positions of 5 bits |
| `Interleave`, `InterleaveBatched` | chunks of 1 or 2 signal groups of 24, batches of 1 or 6 sticks of 4, slots and direct, both layouts |
| `Horizontal` | 8 lanes, both shapes, filters of 1 to 17 taps, inline scales on and off: the real sizes |
| `Vertical` | tiles of 32 rows, filters of 1 to 17 taps: the real sizes; the sum in a tile of its own, as the compute kernel calls it, over the base or over the first input, which no kernel does |

Two items are what it takes for anything to leak from one chunk to the next; the writer
is at most one leg from the reader (`Lockstep`, proved), so more legs
repeat the same situations. Three groups exceed the buffering of two, so buffers fill
and pages are reused. Sizes that are powers of two or multiples of tiles in the code
are scaled down with their ratios kept (stick = 2 blocks, 3 blocks to a row, batch = one
signal group, cache smaller than a signal), so that all carries, partial ends
and wraps occur. The schemes are run with their real steps and shifts, up to filters of 9 coefficients
in a step and 102 taps in all. 5 bits put the limits of the 32-bit variants within reach of
short signals.

`Lwt2D` runs the plans the model of the planner makes for these images, in the
real tile size; between them they have all three ways to make an operand's tile, routes of one and of several
tiles, odd and even, scales in place, routes that are not executed after the last that is, input
read directly and through the scratch, results delivered directly, through a page and through a tile, and results delivered
while the reader still goes through pages of routes that are not executed.

`Plan2D` keeps the real tile. How far a stream is shifted against its coefficients, and how
much more an inverse route stores than is asked for, is a matter of a few samples; whether
that crosses into another tile depends on how a tile compares with it, so a smaller tile would
show faults the code does not have. Three columns of tiles are what it takes to have
a chunk with neighbours on both sides; 12 tiles fit chunks of one tile but not all sizes. No
scheme was found with which the uniform allocation fails after every chunk fitted; that it
does not is part of the 2D planners' `OnlyRequestRefused` on these instances and no theorem
(`BudgetRefusals` says only that a plan refused so had a division whose chunks all fit).

`CHECK_DEADLOCK FALSE` is set where a run really ends: the planners stop when a plan is
accepted or refused, the loader and the interleave when the last item is done; in `Lwt2D` the
kernels return, and `Termination` excludes that they stop before. `LwtPipeline` has an explicit `Terminated` step instead, so that
deadlock of the three kernels is checked in every one of its runs.

Fairness: each kernel is a processor of its own that runs whenever it is not blocked
(weak fairness of `Reader`, `Compute`, `Writer`), and the NoC completes what it was given
(weak fairness of `NocRead`, `NocDepart`, `NocLand`; in `Lwt2DPipeline` of `NocRead` and `NocLand`). No strong fairness is assumed. The sequential models
(1D planners, loader) are weakly fair in `Next`; `Planner2D` states no liveness: it counts
through the candidates once.

## 4. What the runs show

- `LwtForward`: all interleavings of two forward chunks satisfy the safety properties.
- `LwtForward`, `IlwtReconstruct`, `IlwtDirectSingle`: forward, inverse from slots, and
  direct inverse of single-group chunks implement the sequential transform; the
  inverse ends.
- `IlwtDirectMulti` (**violation**): the direct interleave of a chunk whose last route has
  two or more output groups. `write_direct_interleaved_signal` rewrites every stick of
  the chunk in each pass and takes the samples of the updated stream that are not in
  the current group from a slot that the direct route never wrote, so only the last
  group's samples survive. `group_signal_offset` and `group_output_length` are computed and
  never used.
- `Plan`: both planners refuse only what was asked for wrongly, make every sample of the
  output exactly once, keep operands until their last use, stay in the budget, and their
  plans compute the transform.
- `Plan2D`: the same of the 2D planners, both axes and all four passes: their chunks,
  executed, are the transform of the whole image, every sample made once, in planes
  as large as allocated.
  The capacity of the split's scratch is enough, with the longest filter just so.
- `Lwt2D`: in every interleaving of the three 2D kernels the planes and results are those of
  sequential execution, the scratch is whose it should be, and all kernels return with empty buffers.
- `Load`: loaded streams are the signal, extended as each of the eight modes demands, however
  far beyond its ends; the narrow variants agree within their width; the cache stays in its buffer.
- `Interleave`: the interleave writes exactly the signal, in batches as on Wormhole for the
  chunks of one signal, stick by stick as on Blackhole for any sequence of chunks.
- `InterleaveBatched` (**violation**): on Wormhole a batch is 96 sticks and the buffer has
  96 pages. The last batch of a chunk that is not a multiple of 96 sticks long leaves the
  raw write pointer inside the buffer; the next chunk of the same core is staged past
  its end. It takes more work items than cores, with a partial chunk that is not the last of its core.
  `stick_cache.hpp` 65-69 states the rule that would prevent it and follows it.
- `Horizontal`, `Vertical`: the stencils are the convolution, for every filter length the
  kernels instantiate. `Convolved` puts the faces of `Horizontal` together to the
  window the reader gathered and the tiles the packer takes.

Each property of a passing run has a mutant in `PROJECT.json`: a plausible bug, defined
beside the operator it replaces as "Faulty variant", with which TLC finds the
property violated.

## 5. What is proved

`LwtPipelineProofs` proves, for every schedule, number of items, chunks and groups,
every capacity and every `Lift`/`Scale`, under the assumptions `RoutesAssumption`,
`SizesAssumption`, `GroupsAssumption`, `SlotsAssumption` and `DirectAssumption`
(the planner's promises, which `OperandsKept`, `WalkDistinct` and `RoutesProduce` state of a
plan and `PlannerProofs` proves; TLC evaluates them on the constants of the four 1D runs):

`TypeCorrect`, `KernelsInLockstep`, `GroupsConserved`, `WritesBelongToLeg`, `ReadsNotRaced`,
`PagesNotOverwritten`, `NothingLeftBehind`, `SignalAfterLanding`, `MirrorNeverStale`.

The argument: `NoRacingWrite` is not inductive. That no write to a slot is on its way when
the reader reads follows from where the kernels are: the reader is past its sync point
only on the writer's leg (`Lockstep`), and on that leg the NoC carries only writes to
that leg's destinations (`WritesOfLeg`), which by `SlotsAssumption` are not what the leg
reads. `Lockstep` needs to know that the compute kernel cannot run ahead, that is
how many groups are in each buffer (`Conservation`), and that a reservation made before
the reads is still there at the push (`Reserved`). The inductive invariant `IInv` is the
conjunction of `TypeOK`, `Lockstep`, `Conservation`, `Reserved`, `WritesOfLeg` and the
fact that the buffers are sequences. `LwtForward` checks all but the last two on its instance.

`MirrorNeverStale` (`MirrorCoherent`) needs more: rows and mirror of a group are written by two writes that
land at different times, and the next chunk is loaded over the rows alone. `MInv` speaks of
what a cell will hold when all writes have landed (`Settled`): no two writes to one cell are
under way (`OneWrite`), and rows and mirror settle alike for every group that a route of the
writer's item has written (`MirrorKept`), none while the reader loads, which is only in the
first route. A slot that a route reads and an earlier one wrote holds what that stream's last route wrote
(`WrittenStream`), and when it is read no write to it is under way, so what is
settled is what is there.

It also proves `StepsOfTransform`: `LwtPipeline` implements `LiftingTransform`, as
far as safety goes - it starts where the transform starts and every step is `Load`, `RunRoute`
or `HandOver` or is not seen. Two more assumptions are needed, `OutputsAssumption` (the forward
transform leaves its streams in DRAM, the inverse in slots) and `InputsAssumption` (what is
loaded are sequences), and the hypothesis `OneOutputGroup`: a chunk that is interleaved directly has one output
group. That hypothesis is what the constants of `IlwtDirectMulti` violate, and
TLC shows there that the theorem is false without it; `IlwtDirectSingle` satisfies it, and without direct
interleave it is void. The argument compares what is in every buffer with what the
writer's leg reads from the slots (`DInv`, beside `IInv` and `MInv`). `Operand(g, p)` and `Value(g)` are
read off the slots as they are now; the slots of operands do not change during a leg, because
the NoC writes only its destinations. Then the buffers hold operands in order, counting
from what the compute kernel has packed (`BuffersOK`), as do the registers and the last read
(`RegistersOK`, `FetchedOK`; a read of the mirror needs `MirrorCoherent`); the ring holds values counting from what the writer
has popped (`RingOK`); a write carries the value of its cell (`WritesOK`), and a cell whose
write was issued holds its value or has it on the way (`LandedOK`). At the barrier nothing
is on the way and the number of groups is the length of the new stream, so the barrier is
`RunRoute`; the last sync page of an item is `HandOver`, what the interleave wrote being what the slots hold
(`InterleaveOK`); the load of the second stream is `Load`.

`StencilProofs` proves `StencilExact` (`Exact`) for any number of lanes, faces and
passes under `JobsAssumption` (a filter fits in two faces, no pass overwrites what a later
one uses). The invariant counts rotations: before tap `2r` or
`2r + 1` all four source registers have turned `r` lanes (`RotatedBy`), a lane of a current-face
register that came around holds what was in the preceding face, and the lanes of the preceding
face below `r` no longer matter (`RegsOK`); faces no finished pass has written are as the unpacker left them
(`DstOK`). `WindowConvolved` (`Convolved`) follows for jobs with the passes of their shape (`KernelPasses`):
the faces of a pass are those of its block and of the block after it in the window (`FacesOfPass`).

Of the column stencil it proves `ColumnStencilExact` (`Exact`) for every filter length, base and output
except over the second input (`NotOverSecond`): there a block of rows would be written
before the first rows of that tile are read as the tail of a later window. The comment at
`vertical_stencil_sfpi.h` 184 allows either input; the one call (`lwt_2d_compute.cpp` 216)
keeps the sum apart from both, so no hazard is listed for it.
The invariant says that row `i` of the window is source row `row + tap + i` as long as
it has not run out (`WindowOK`), that the sums have their first `tap` taps (`SumsOK`), and that rows not
yet stored are untouched.

`Lwt2DPipelineProofs` proves `TypeCorrect` and `ScratchNeverShared` (`ScratchOwned`) for whatever
legs, places, buffering and arithmetic, under `BufferingAssumption`, `ProgramsAssumption` (a work item
begins with a load and a route and ends with its results) and `SkipsAssumption`;
it proves `ExactAfterEveryLeg` (`LegsExact`) under `TilesAssumption` as well. TLC evaluates
the four on the plans of `Lwt2D`.

The argument: who may write the scratch is decided by where the kernels are. A sync page stands for every
leg, so the writer's leg is the reader's or the one after it (`Lockstep`), and when they are apart
the reader waits or looks at its last pages. To know that the writer's first tile of an item
was made after the reader loaded it, one has to know that tiles are neither lost nor made up: for
each operand, those pushed are those in the buffer and those taken
(`Conservation`, by the tile each kernel is at: `ReaderPlace`, `ComputePlace`, `WriterPlace`). A pending
operand has room in its buffer (`Reserved`), and while the last operands are gathered
the pages are kept for the moment after (`PagesKept`). `IInv` is the conjunction of these, `TypeOK`,
`ScratchOwned` and the fact that the buffers are sequences.

`ExactAfterEveryLeg` needs to know what is in every buffer (`CInv`, beside `IInv`). Everything is compared
with what the writer's leg produces from the planes before it (`Started`, `Produced`): the operands pushed,
copied to registers or gathered (`InputsOK`, `RegistersOK`, `ArrivedOK`), the packed tiles by their physical pages
(`RingOK`), the writes on their way by page and place (`IssuedOK`). A plane holds at each place what
was there before the leg, or what was loaded so far, or the tile that has landed (`MemoryOK`). The reader may read
a place whatever the writer has done so far, because a tile has landed only after it was packed, was packed
only after the reader pushed its operands, and by `TilesAssumption` is not read for a later tile. In
a wait for a sync page nothing is left in any buffer, so the legs hand over the planes as
they should be. `Sequential`, the reference, is a recursive function; its
equation (`SequentialUnfolds`) is proved from a least place where it fails (`HasLeast`), because the
library's theorems of induction cannot be instantiated here.

`StreamLoaderProofs` proves `CachePages` (`CacheInBuffer`), `LoadsExactly` (`LoadedExact`), `NarrowIsWide` (`NarrowAgrees`) and, of the boundary
extension alone, `DescribedExtends` and `OnlyOneExtension`, for every signal, chunk, size of stick, cache and
layout, under `LoaderAssumption`. It says that sizes are positive and samples integers, that a chunk of coefficients is
inside the signal, and what the program checks before it loads anything: no signal is empty
(`device.hpp` 120), and none of one sample is reflected (`device.cpp` 1000 and 1147).

The argument: the formulas of `signal_extension.hpp` jump to the sample that a position far outside stands for by
dividing by the period of the mode. What a mode means is said by `Beyond`, of one sample by those nearer to the signal
(`Extends`). For each mode the formula is unfolded at a position and at the one that `Beyond` refers to; that
their remainders belong together is `MirrorRemainder` and its like, about a remainder and its mirror image. `OnlyOneExtension` is proved from
a least distance at which two extensions differ (`HasLeast`), so `Extends` demands as much as growing the signal
does. The layout is a mixed radix (`MixedRadix`): counting an element by group, row, block and lane, and its place by
group, block, row and lane, shows that places differ (`PlacesDiffer`) and that `Advance` leads from the cursor of
`i` to that of `i + 1` (`NextPlace`), carries included. The inductive invariant `IInv`
says how many elements of each stream have been stored, given whose turn it is (`Progress`, `PlaceOK`), that these are in
their places and are the only ones (`SlotsOK`), that what was read of a value being put together are the samples of its
first sources (`TakenOK`), and that the pages of the cache hold consecutive sticks from the first (`CacheOK`). `LoadedExact` alone
is not inductive: it says nothing of the cache, nor of the value that is to be stored next.
For `NarrowIsWide` the access at hand is known from `TakenOK`; what is left is arithmetic: what fits in `Width` bits
is not changed by them (`Fits`), and dividing the magnitude of a negative position gives its quotient and remainder
(`ByMagnitude`). Of the powers of two, about which the provers know nothing, only `Half` is
used, and `WidthAssumption` says that it is a positive number; no length is assumed to fit, the property says for which it holds.

`InterleaveStagingProofs` proves `StagedInBuffer` (`StagingInBounds`) and `SticksReconstructed` (`Reconstructed`)
for every layout, size of stick and batch, padding and split of signals in chunks, under `InterleaveAssumption`: sizes are positive,
a chunk begins with a stick and ends with one or with the signal, and its streams begin with
its first samples (`inverse_plan.hpp` 200-213, `build_chunks` 355-375; a signal group is whole sticks). Both theorems have a hypothesis about the chunks,
because neither holds of all that the host makes. `WholeBatches`: a batch may be partial only when it is the
last that a core stages. Chunks that are whole signal groups are whole batches (`device.cpp` 58-60: a batch is no more than a group, and
96 sticks are one), and on Blackhole a batch is one stick; a partial chunk that is followed by another is what `InterleaveBatched` has, and there
the conclusion fails. `OneGroupDirect`, for `Reconstructed` alone: where a stream is taken from the last route's
pages, a chunk is one group; what happens otherwise is `IlwtDirectMulti`. The jobs of `Interleave` satisfy both,
and TLC agrees on that run that the invariant below holds.

The argument: the pointer returns to the origin because a batch that is not the last is full (`WholeBatch`, from
the remainder of the item's sticks); that is `BInv`, which has to know that `batch` is a multiple of the batch size. A staged value is the sample it stands for
(`LaneIsSample`): its stream and its place in it follow from the parity of the padded index; in a slot no other
element has that place (`PlacesDiffer`), in a page of the last route the place is undone block by block
(`DirectElement`). `Reconstructed` is not inductive, since it says nothing about the sticks that the NoC has not read yet:
`WInv` adds that their pages still hold what was staged (`FlightOK`), as the barrier is before the pages are given back, and that the sticks
written or on their way are those of the items before and of the batches so far (`DramOK`).

`PlannerProofs` proves `SlotsDistinct` (`WalkDistinct`), `EveryOperandKept` (`OperandsKept`), `EverySlotLargeEnough`
(`SlotsLargeEnough`), `TypesKept` (`TypeOK`) and `EveryRouteProduces` (`RoutesProduce`) for every set of jobs: any lifting
scheme, length, number of cores and budget, both directions and both layouts. `JobsAssumption` says what a job is:
lengths, taps and cores are positive, and a lift has coefficients, which `plan.hpp` asserts at compile time (106, 129, 250); nothing is
assumed of what the scheme computes. `EveryRouteProduces` has the hypothesis `SomeOutput`, that a job has a coefficient at
all, which holds of every signal as soon as a scheme has two taps, as those of all wavelets have. TLC evaluates the
assumption on the jobs of `Plan`.

The argument: `OperandsKept` looks back from a route through the routes before it (`LeftBefore`), so the
invariant says it of the chunk that is being placed: what the slots still hold is exactly the extents of the two streams in the
slots of `walk` (`WalkOK`). A lift takes its output from the free slot and frees that of its base, so the three slots stay
different and nothing that is needed is written over; a swap exchanges two streams with their slots; a terminal scale
writes to DRAM. Steps between which nothing is placed keep the finished chunks (`ChunksOK`), and the longest stream of
all chunks bounds every extent (`WorkspaceElements`, rounded up no less than it). What is needed at the points of the trace is an
interval each (`RequiredOK`), known from the end or from the beginning, depending on the direction.
For `TypesKept` two more invariants are needed. `Counted`: what is needed and what is stored begins at zero or later and not
after it ends, because the first need begins at `Origin`, which the planner has checked (`OriginsOK`), and wherever the code subtracts an
offset it has checked before that it can (`CanSubtract`, `Has`). `Booked`: a plan is refused exactly when there is a fault,
a trace has no more routes than steps and a plan no more chunks than asked for.
`EveryRouteProduces` follows from chunk borders that are shares of the groups (`Boundaries`): there are no more chunks
than groups, so each has an element of its own, every route backwards from one that produces is
asked for something (`NeedsSome`), and one that is asked for something writes it (`WalkProduces`).
A step that is refused leaves as it was what the code computes after the `TT_FATAL`.

It also proves, of a plan that is refused, why (`ForwardRefusals`, `PlacingSucceeds`), and of one that is accepted, that it leaves
nothing out and does nothing twice (`EveryCoefficientOnce`, `EverySampleOnce`); all but the last have the hypothesis `SomeOutput`. A
forward plan is refused because the scheme has not the shape of a lifting scheme or ends with nothing that could be scaled
inline, because its coefficients do not begin where `canonical_start` says, or because the budget is too small. None of the checks in
`backpropagate_requirements`, `local_offset` and `build_chunk` is a reason: what the code computes twice, going back from the
coefficients of a chunk and going forward from its loads, agrees. In the inverse direction no check of `build_chunk` is a
reason; the pass before it may refuse.

The argument: going back, the planner meets the lengths it met when it traced the steps (`Measured`), so what a route
needs is in what its operands have (`WithinOperands`). Each need is the one the route after it implies (`Derived`), so when the
chunk is placed, what is stored covers what is needed from there on (`WalkCovers`; `UndoAgrees` for the inverse): a lift with all it needs
of its operands can write all that is needed of its result. From the lift that is scaled inline on, only the coefficients of the
chunk are needed (`AfterLift`), so what it and the scales send to DRAM is their stream's share of them (`WalkDelivers`), and
the shares are those of `chunk_boundary` (`Tiles`, `Spanned`). Where shares of groups are compared the arithmetic
is not linear; that is in lemmas of their own.

`Planner2DProofs` proves of the 2D planners, for every set of jobs - any lifting scheme, image, mode and budget, both directions,
any size of tile, and whichever admitted candidate wins -: `Plan2DTypesCorrect` (`TypeOK`), `PlanesAlwaysServe` (`PlanesServe`, all of
`PlanesHold` but where results begin), `ForwardPlanesHold` (`PlanesHold` of forward plans), `PlanesTold`, `OutputMadeOnce` (`MadeOnce`, the first half
of `TransformExact`), `ForwardPlanRefusals` and `BudgetRefusals`. `JobsAssumption` says what a job is: the image and its
output have at least one row and column, taps are positive, steps are steps of a scheme and a lift has coefficients; nothing is assumed of what the
scheme computes. That there is output is what every image has with filters of two taps or more, and TLC evaluates the assumption on the jobs of
`Plan2D`.

The argument follows the model from below, because a chunk is computed in one step: the invariant is easy once it is known what
`ChunksOf` returns. Folds are unfolded into chains, a function from the number of steps done to the state after them (`TraceChain`,
`BackChain`, `ForthChain`, `PassChain`), about which an ordinary induction over a number speaks (`AllReached`). An axis first: its trace has a route
for every step, with natural lengths and offsets (`AxisTraceIs`). A valid cone of either direction is a chain of needs around its routes
(`ConeFits`): a route reads of its two operands what the chain says is needed before it, and writes what is needed after it (`RouteFits`). Then a pass:
whatever the routes are, its three slots stay different, and the planes of its two streams store what is needed there (`Serves`); other
planes are left alone. Four passes, each begun with the plane the one before it left free, find in the planes of the others what they need, and
leave four results in four planes (`FourServe`). This holds with routes left out that are no operation, because such a route writes nothing.
Whatever is stored, read or written is one of the finitely many uses of a chunk, so it fits the plane of its shape (`StoredUsed`), and the planes of a
plan are the largest shapes of its chunks (`LargestIs`). The inductive invariant `PlanKept` is then short: the best candidate is one that
passed all checks (`BestKept`), the planes are as large as its chunks need (`PlanesKept`), traces and phase belong to the job. TLC agrees on `Plan2D` that it holds.

For `ForwardPlanesHold` it has to be known that what a forward chunk stores of a result is just what was asked for: from the lift that takes the scale
along on, nothing but swaps and scales follows (`CanInline`), and scales are done in place (`ScaleKeeps`, `PassExact`). An inverse plan may store
more; whether that reaches into another tile depends on the shifts of the scheme, and stays with TLC.
`OutputMadeOnce` is a matter of cuts and of the grid (`CutsAre`, `GridIs`): a place lies in one cut of either axis, and the pair of cuts is one chunk.
`ForwardPlanRefusals` compares the cone with the trace, as `ForwardRefusals` does in 1D: going back, the lengths of the trace are met again
(`TraceMeasured`), and what is needed before a route is in its operands (`NeededInside`); so a cone is valid exactly if the coefficients asked for are in
the final streams (`ForwardValid`), and all cones of a candidate are exactly if those of the whole bands are (`ConesValid`). `CoefficientsInside` is thus no hypothesis but
what decides between the two outcomes. For `BudgetRefusals` the invariant remembers that no division tried so far fits, or that the best one does (`SearchKept`).

Only model-checked: `Termination`, `LoadsEnd` and `Settles` (liveness); the fairness in
`ImplementsTransform` (that the transform goes on); `CoefficientsExact`, `SamplesExact` and
`TransformExact`, which compare two recursive computations over a whole signal (induction over data; that the chunks
tile the coefficients and the samples, the other half of the first two, is proved);
`OnlyRequestRefused` of the 1D and of the 2D planners, of which `ForwardRefusals`, `PlanesTold` and `ForwardPlanRefusals` are the part that holds of
every scheme. The properties say also that the schemes of the runs have what the planners ask of a scheme (that coefficients are where `canonical_start` says is a
fact about the shifts and lengths of each of them); for the inverse, whose pass over the requirements may refuse, they depend on the
scheme and not only on its being one; and in 2D that the planes for all chunks together fit the budget when every single chunk does, which is
no matter of the planner either: the largest shapes of different planes may come from different chunks.
Of the inverse 2D plan further: `CoefficientsExist`, and in `PlanesHold` that a stored result begins in the tile in which the asked-for part begins.

## 6. Not modelled, and the plan

Not modelled: the cost model of the 2D planners; by which of its copy loops the 2D reader moves
the elements of an operand's tile (what they copy is `PlaneExecution`); the TTNN port
(`ttnn-wavelet/`), whose kernels and planners are the same algorithms, but for its generated schemes; L1
accounting, a sum; buffer allocation and program creation (calls of tt-metal);
parsing, files, timing and reporting; FP32 coefficients and rounding.

Plan, in order:
1. done: the 1D pipeline, its abstract transform, refinement and safety, with proofs.
2. done: both 1D planners against the reference transform, for all shipped schemes.
3. done: loading, boundary extension, interleave.
4. done: both SFPI stencils against the convolution, with proofs.
5. done: the 2D planners, with the split of the image, executed, against the reference transform of an image.
6. done: the three 2D kernels on the legs of a plan.
7. left: `RouteExecution`, a route on the elements of slots in both layouts (gather paths,
   dense conditions, mirror, scatter) implementing `LiftingScheme!Computed`; the copy loops of the
   2D reader.
8. done: theorems about the slots, types and routes of the 1D planners.
9. done: that the forward planner refuses no chunk of its own, and that chunks tile the transform in both directions.
10. done: theorems about the cones, planes and chunks of the 2D planners.
11. left: for which schemes the inverse planners refuse no chunk, and the inverse 2D plan stores no result from an earlier tile on.
