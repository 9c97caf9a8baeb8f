# TLA+ models of sm120-dl

Specifications, model-checking runs and proofs for the kernels of this
repository, the BF16 GEMM (`gemm/`) and the two FlashAttention forward kernels
(`flashattention/v3_mMnNkN`, `flashattention/v3_mMn1k1`), for the Python
extension around the latter, and for the programs that verify and time the
kernels. The modules of the kernels describe control: who waits for whom, which
memory is touched when, which tile goes where. There arithmetic is replaced by
labels, so that a wrong value shows up as a wrong label; the arithmetic of the
online softmax has a module of its own.

## 1. Inventory

| Component | State | Operations | Talks to |
|---|---|---|---|
| GEMM kernel (`gemm/gemm_cute.hpp`, `b16_gemm`) | ring of `STAGE` slots of A and B, `full`/`empty` mbarriers, pipeline states, accumulator, `sC`, `store_in_flight` | barrier init and invalidation, acquire, TMA copies, wait, multiply, release, epilogue, TMA store | TMA unit (asynchronous loads and stores), named barrier of the consumers, `__syncthreads` |
| mbarriers, `PipelineState`, TMA (CUTLASS/PTX, external) | phase, pending arrivals, pending bytes | init, arrive, arrive and expect bytes, complete bytes, wait on parity | both kernels |
| Flash kernel NkN (`v3_mMnNkN/flashatten_v3.hpp`, `kernel_traits.hpp`, `pipeline.hpp`) | one buffer holding Q, K, V and O laid over each other, two-slot Q/K ring, one-slot V ring, row statistics, accumulators | producer loop, `Q_s2r`, `gemm_flash`, `gemm_flash_v`, `normalize_stats`, `reduce_o_warps_n`, `O_store`, `O_s2g`, `tile_buffer_sync` | TMA unit, two named barriers |
| Flash kernel 1k1 (`v3_mMn1k1/`) | the same with one warp column | the same without the exchange over the columns | the same |
| Tile schedule (`utils/tools.h`, launchers) | loop variable of each block | grid size, grid-stride loop, `block_swizzle`, `get_tile_coord` | hands tiles to the kernels |
| Online softmax, causal mask (`flashatten_v3.hpp`, `utils/utils.h`) | running maximum and sum per row | mask, rescale, normalise | inside a consumer warp |
| Register reconfiguration (`utils/tools.h`) | register pool of the SM | dealloc by producers, alloc by consumers | both kernels |
| Launchers `gemm_tn`, `flash_fwd` | none | divisibility check, TMA descriptors, grid | drivers, kernels |
| Configuration generators (`gemm_configs.py`, `flash_configs.py`, `*.in`) | list of configurations | enumerate, filter, size shared memory | static assertions of the kernels |
| GEMM driver (`gemm/test.cpp`) | counters, best result, streams, events, handles, `BEST.txt` | verify, benchmark, profile, configuration lookup | launcher, cuBLAS, CUDA runtime |
| Flash bindings (`pybind/`) | none | input checks, dispatch on head count and configuration | launcher, scripts |
| Flash scripts (`verify.py`, `benchmark.py`, `test.py`, `extract_resources.py`, `test_compute_rate.py`) | counters, reports, log of skipped cases | compare, time, report | bindings |
| Build, clock and printing helpers | none | I/O | - |

### What is hard here

* *Parity waits.* An mbarrier remembers only one bit of its phase. Waits are
  right as long as nobody is two phases away from the barrier, which follows
  from the whole protocol and from no single line.
* *Asynchronous copies.* A TMA load writes its slot and a TMA store reads its
  source at some time after the issuing instruction; loads complete in any
  order and the two operands of a slot separately.
* *Shared named barriers.* Calls at different places of the code use one
  hardware barrier, which cannot tell them apart.
* *Memory reuse.* `sC` is reused by the next tile while a store may be reading
  it. In the flash kernels Q, K, V, the output and the partial outputs of the
  warp columns occupy the same bytes at different times.
* *Independent loops.* Producer and consumers count tiles and k-blocks
  separately, blocks share the tiles by arithmetic only.
* *Partial failure in the drivers.* Every CUDA and cuBLAS call can fail, errors
  stick to the context, handles must be released on every path.

### What makes each component correct

* GEMM kernel: no slot is written while read; the operands of every k-block are
  multiplied once and in order; `sC` is stable while stored; the barriers
  outlive their use; each tile is stored once and complete; everybody leaves.
* Flash kernels: the same over the overlaid buffer, statistics of all columns in
  every row, all key blocks a causal row attends to.
* Tile schedule: every place of the output is computed by exactly one block, the
  load is even.
* Softmax: no NaN from rows masked completely, result independent of blocking.
* Register pool: consumers never wait for registers nobody will release.
* Generators: every configuration passes the static assertions and the shared
  memory the kernel really uses.
* Driver and scripts: a configuration is reported as passed only if its own
  output was compared, counters add up, nothing leaks, the exit status is 0 only
  when nothing failed.

## 2. Modules

| Module | Models |
|---|---|
| `MBarrier` | mbarrier and `PipelineState` as the kernels use them |
| `TileOutput` | abstract specification of one block: its tiles, each part written once with the full result, tile after tile |
| `GemmKernel` | one block of `b16_gemm` |
| `GemmRing`, `GemmBlock` | inductive invariants of the ring and of a whole block of `GemmKernel` |
| `GemmBlock_proofs` | theorems about them |
| `FlashKernel` | one block of `flash_atten_v3_fwd` of `v3_mMnNkN` |
| `FlashRing`, `FlashBlock` | inductive invariants of the two pipelines and of a whole block of `FlashKernel` |
| `FlashBlock_proofs` | theorems about them |
| `FlashOneColumn` | one block of `flash_atten_v3_fwd` of `v3_mMn1k1` |
| `OnlineSoftmax`, `OnlineSoftmax_proofs` | one row: causal mask, online softmax, exchange over the warp columns, in exact arithmetic; theorems |
| `TileSchedule` | all blocks of a launch sharing the tiles |
| `RegisterPool` | `setmaxnreg` of all warps of a block against the pool of its registers |
| `Launch_proofs` | theorems about these two |
| `FlashDispatch`, `FlashDispatch_proofs` | `flash_configs.py`, the bindings and `flash_fwd`: from a build to a launch; theorems |
| `FlashVerify`, `FlashVerify_proofs` | `verify.py --all`; theorem |
| `GemmDriver`, `GemmDriver_proofs` | `test.cpp`: verify, benchmark, profile, failures, release, `BEST.txt`, exit status; theorems |
| `EuclideanDivision` | lemmas about `\div` and `%` by an unknown divisor |
| `MCGemmKernel`, `MCOnlineSoftmax`, `MCGemmDriver` | instances for TLC |

`GemmKernel`, `FlashKernel` and `FlashOneColumn` EXTEND `MBarrier`, and each
instantiates `TileOutput` through a refinement mapping (`out <- gC`,
`out <- gO`).
`GemmBlock` EXTENDS `GemmRing`, which EXTENDS `GemmKernel`, and `MCGemmKernel`
EXTENDS `GemmBlock`, so that TLC checks the inductive invariants that are proved;
`FlashBlock`, `FlashRing` and `FlashKernel` stand in the same relation. A module
`X_proofs` EXTENDS `X` and the proofs it builds on; `Launch_proofs` EXTENDS both
`TileSchedule` and `RegisterPool`, for which the latter calls its specification
`PoolSpec`. `OnlineSoftmax` has the set of its shapes as a constant; a variable
`shape`, chosen in the initial state, says which one a behaviour is about.
`FlashDispatch` establishes what the kernel modules assume of their constants (`LaunchIsSound` against `ShapeAssumption`), and `TileSchedule`
that the blocks, each modelled alone, together cover the output.

### How state and actions correspond to the code

*The unit of interleaving is the warp.* The shared-memory accesses of a
consumer are warp-collective instructions (`ldmatrix`, `mma`, `stmatrix`), so
the 32 arrivals of a warp count as one and `EmptyCount` is the number of warps.
The producer is the one thread that does anything (`threadIdx.x == 0`,
`threadIdx.y == 0`); the other producer threads only arrive at block-wide
barriers. The TMA unit is an actor: `LoadDone` and `StoreRead` happen at any
time after the issue. Memory under a load holds `Torn`.

`GemmKernel`:

* `ppc`, `pTile`, `pK`, `wState` are the producer's position, `tiled_id`, `k`
  and `write_state`; `wState.count` is `total_k`. `Acquire` is the wait on the
  empty barrier and the arrival on the full one, `CopyA` and `CopyB` the two
  copies, the second with the loop headers.
* `cpc`, `cTile`, `cK`, `rState` are the same for each consumer warp.
  `WaitFull` is the wait with the copy of all B fragments, `Multiply` the loop
  over A fragments and products, `Release` the arrival and the loop header.
* `DrainStore`, `BarSync`, `StageC`, `FenceC`, `IssueStore`, `FinishTile`,
  `FinalWait` are the epilogue line by line. `flying` is `store_in_flight`,
  which every warp sets and only the leader's thread acts upon.
* `gC` records every write that reaches a part of an output tile.

`FlashKernel`: `mem` is `Storage::QKV` with one cell per row of `kHeadDim`
elements; `Base` gives the offsets of `get_sQ`, `get_sK`, `get_sV` and `get_sO`
and the sizes are those of `Storage`. A cell holds a datum and the row of it,
so that a tile overlaid by another one is noticed when it is read (`Read`
returns `Torn` unless all rows belong together). `acc` is the sequence of
`<<Q, K, V>>` blocks a warp's output was computed from; the softmax of a block
is a function of registers and part of `ReadV`. `rowStats` is the pair of
`row_max` and `row_sum` of a warp. The barriers start initialised: `__syncthreads`
separates their initialisation from everything else, and unlike `b16_gemm` the
kernel never invalidates them.

`FlashOneColumn`: a role is a record: its tile, the number `n` of the load of
that tile it is at (0 is Q, then K and V of each block in turn), the step within
it, and its copies of the pipelines. `v` is the phase bit of `SimplePipeline`,
`qk` the `PipelineState` of `Pipeline`. `Acquire` and `Issue` are the two halves
of `copy_g2s`, `Wait`, `Copy` and `Release` those of `Q_s2r`, `gemm_flash` and
`gemm_flash_v`. All warps read all of K and V and their own rows of Q and O; a
cell stands for the 16 rows of an MMA atom, and the warps take the atoms in turn.

`OnlineSoftmax`: `shape` holds the template parameters and the length of the
sequence. `rS_max`, `rS_sum` and `rO` are the registers of each of the
four lanes of a quad in each warp column. Scores are small integers with `scale`
multiplied in, weights are powers of two kept as exponents, and a sum of weights
is kept as the function from keys to its terms, so that nothing is rounded and
the sum and the output can be compared term by term with the softmax. `Minus`
is the difference of two floats and yields `NaN` for minus infinity less minus
infinity, the accident the code's special cases are there for. `Block` is one
turn of the k-loop, `Publish`, `BarSync` and `Normalize` are `normalize_stats`.

`RegisterPool`: `Dealloc` and `Alloc` are `setmaxnreg` of one warp. The register
count at the launch is the compiler's; the model takes the largest that
`__launch_bounds__` admits.

`FlashDispatch`: `BuildDefault` and `BuildOnly` are the generator without and
with `FLASH_FWD_ONLY_CONFIGS`; a configuration is the record of the numbers in
its name. `Call`, `Select`, `CheckShape` and `Launch` follow a call through
`fwd` or `fwd_config`, `check_runtime_shape` and `run_flash_fwd_...`, with one
action for every refusal. What can fail from there on is left to chance: the
allocation of the output and the launch (`LaunchFails`, which the caller gets as
an exception and `verify.py` may count as `SKIP_RESOURCE`), and the attribute
calls of `flash_fwd` (`AttributeFails`), whose `CUTE_CHECK_ERROR` ends the process.

`FlashVerify`: one action for each step of a case that can end differently;
`log` is the content of `failed_resource_cases.log`, `printed` the statuses. The
early return for a repeated key (`verify.py:222-224`) is left out, since
`flash_configs.py` generates no name twice.

`TileSchedule`: a launch is chosen in `Init`; `TakeTile(b)` is one iteration of
the tile loop of block `b`.

`GemmDriver`: `at` is the control state: the next call, the phase of the command
line, the loops over shapes (`s`), configurations (`i`) and launches (`n`), and
what `benchmark_launcher` returned. Each call that can fail is an action with
two outcomes and the statements that follow it. `cuda` is the runtime:
`faulting` after the launch of a kernel that will fault, `dead` once a call has
reported it (every later call fails), `last` the error a failing call leaves for
`cudaGetLastError`. A launch started with `last` set fails without a fault of
its own. Exceptions of thrust containers and the exit in `CUTE_CHECK_ERROR` and
`CUTE_CHECK_LAST` (whose definition is not in the repository) end the process:
`Die` is possible wherever such a call can fail, and an ordinary failure as well. `held` counts
live objects. On a path that has already failed, `cudaStreamDestroy` and its
like happen together with the failing call, their results being printed and
ignored. A query of `--func` is the set of configurations it matches. An output
is the set of the ways its elements differ from the reference. `seen` is
history: whether something went wrong, what was really done, what was accepted.
The loops over launches, configurations and shapes are those of the code with
smaller constants, which are parameters of the module.

## 3. Runs

| Run | Shows | Bounds and why they are enough |
|---|---|---|
| `gemm_block` | types, the inductive invariant of a block (`BlockInv`), parity, slots, operand order, named barrier, `sC`, barrier life; refinement of `TileOutput`, termination | 2 stages, 2 warps, 3 of 6 tiles with 3 k-blocks: the ring wraps four times, tiles start in both slots with both parities, the staging memory is reused twice, the other tiles must stay untouched |
| `flash_block` | types, the inductive invariant of a block (`BlockInv`), parity, overlay, operands, named barrier; refinement, termination | 2 x 2 warps, Q tiles twice as long as K tiles, two causal tiles of 4 and 2 key blocks |
| `flash_odd` | the output of the same kernel with one column of warps | 2 warps, 4 causal tiles with 3, 1, 3 and 1 key blocks, K tiles twice as long as Q tiles, so that the key blocks are rounded up; the other shapes `KeysClear` admits (section 4) are covered by `FlashOutputCorrect` |
| `flash1_odd` | `v3_mMn1k1`: refinement, termination | 2 warps, causal tiles with odd numbers of key blocks, 2 tiles |
| `flash1_even` | expected violation, see below | 2 warps, 2 key blocks |
| `softmax` | the invariant of the online softmax after every block, the softmax at the end of every tile | two scores two apart in every combination; two columns over two causal blocks, with rows that mask a column, a block of a column, or nothing; one column over three blocks; any tile after any other |
| `register_pool` | valid requests, no starvation | every kernel that can be built, not an excerpt |
| `tile_schedule` | exclusive, complete and even distribution | all launches up to 3 x 5 places, widths 1, 2, 3, 8, up to 3 SMs |
| `flash_dispatch` | shared memory and static assertions of every kernel, soundness of every launch, which configuration `fwd` selects and why it may refuse a call | the real default sets and up to two listed names (`MaxNames`) out of 32, valid or not; lengths that both, one or neither block size divides; memory, attributes and launch may fail at any call |
| `flash_verify` | meaning of exit code 0 | 4 instances, every outcome of each |
| `gemm_driver` | exit status, counters, best result, release of objects, `BEST.txt`, termination | every command line; 3 configurations, shapes which all, two or none of them divide, two shapes in the list, 1 warm-up and 2 timed launches, latencies 0, 1, 2, at most 3 failures (`MaxFaults`): enough for a failure of one configuration followed by one while leaving and one in the file |
| `gemm_driver_nan` | expected violation, see below | no failing call |

The kernels need no bound of their own: a block does a finite amount of work,
fixed by the constants. The number of blocks is not a bound of the kernel
models either: blocks share nothing but the tile numbering, which
`TileSchedule` checks for all blocks together. No run uses symmetry.

*Fairness* (`FairSpec`): weak fairness of the producer, of each consumer warp,
of the barriers (a complete barrier opens) and of the TMA unit (an issued
operation finishes). Warps of a resident block are scheduled independently, a
warp spinning on a barrier does not keep another from running, and no step can
be disabled by another process once enabled, so that strong fairness is never
needed. `GemmDriver`
assumes that the host thread runs and calls return; that kernels end is the
`Termination` of the kernel modules.

Deadlock is checked everywhere; a state without a step forward is one where
every thread has left, the process has ended or the build has failed
(`Terminated`, `Ended`).

What `gemm_driver` says of the exit status is exact in both directions:
`SuccessIsEarned` (status 0 only if no call failed, no kernel faulted even
unnoticed, and every requested configuration was done) and `FailureHasCause`.
One call is outside it: the result of `cudaStreamDestroy` at the end of
`run_profile` is printed and does not change the status.

### Finding: output written over unread keys (`flash1_even`)

With one warp column nothing separates a warp's last read of K from another
warp's `O_r2s`. The output tile begins at the start of `QKV`, where stage 0 of K
lies. On the first tile Q takes slot 0 and key block i slot (i + 1) mod 2, so
with an even number of key blocks the last one is in stage 0. A warp that is
ahead by the rest of a block (`gemm_flash_v` waits for V only, which needs no
other warp for its last block) then overwrites rows of K that a slower warp has
not multiplied (`v3_mMn1k1/flashatten_v3.hpp:404`). In every configuration the
default set of `v3_mMn1k1` has, `block_m` is a multiple of twice `block_n`, so
that the number of key blocks is even; `verify.py --all` runs such a shape with
`hd64_bm128_bn32_w8_s2` (four key blocks). The window is short and depends on
scheduling. An odd number needs a configuration listed in
`FLASH_FWD_ONLY_CONFIGS`; then the output does not meet the last K block
(`flash1_odd`).

`v3_mMnNkN` with `WARPS_N = 1` (`hd64_bm128_bn32_wm8_wn1_s2` of its default set)
does the same, since `normalize_stats` synchronises only when `WARPS_N > 1` and
`O_store` begins with the copy (`v3_mMnNkN/flashatten_v3.hpp:358-360`). With
several columns the barrier of the statistics closes the window (`flash_block`),
with odd numbers of key blocks there is none (`flash_odd`); section 4 has the
proof of both.

### Finding: NaN is within tolerance (`gemm_driver_nan`)

`verify_result` counts an element as a mismatch if `abs_diff > allowed`
(`gemm/test.cpp:196`). The comparison is false when `abs_diff` is NaN, so that a
configuration writing NaN everywhere passes `--verify` with status 0, against
the tolerance the notes state (`gemm/test.cpp:1386`). The other properties of
the driver take `verify_result` as it is: `done` means done by its verdict.

### Observations without a run

* `get_tma` computes the distance between batches as an `int`
  (`v3_mMnNkN/kernel_traits.hpp:153`, `v3_mMn1k1/kernel_traits.hpp:138`), and
  the bindings check no upper bound: from 2^31 elements per batch on, for example
  524288 x 32 x 128, the product overflows, while the README names only
  positivity and divisibility (`v3_mMnNkN/README.md:18-19`).
* `verify.py` writes its log once with no cases and once after the loops
  (`v3_mMnNkN/verify.py:216,245`); `make_inputs` and the reference are outside
  the `try` (lines 158-160). If one of them raises after a case was skipped, the
  log says `None.`, against `v3_mMnNkN/README.md:255-256`. `SuccessIsComplete`
  is therefore stated for exit code 0.
* The preferred name of `v3_mMn1k1` for head dimension 128,
  `hd128_bm64_bn32_w8_s2`, can never be built: eight warps need `block_m` to be
  a multiple of 128. `default_config` then takes the first configuration of that
  head dimension, as `FwdSelectsByHeadDim` requires.

## 4. Theorems

All proofs are checked by TLAPS down to the last leaf. They hold for every value
of the constants that the ASSUMEs admit, and TLC evaluates every ASSUME.

| Theorem | Says | For all |
|---|---|---|
| `GemmTypeCorrect` | `TypeOK` | warps, tiles, k-blocks, blocks, 2 or 3 stages |
| `GemmRingCorrect`, `GemmNoLoadUnderReader`, `GemmNoParityAlias` | the ring | the same |
| `GemmOperandsCorrect`, `GemmOperandsInOrder` | who multiplies what | the same |
| `GemmBlockCorrect`, `GemmBarSyncAligned`, `GemmSourceStable`, `GemmBarrierLifetime` | epilogue, output, life of the barriers | the same |
| `GemmImplementsTileOutput` | every step is a step of `TileOutput` or leaves `gC` alone | the same |
| `FlashRingCorrect`, `FlashNoParityAlias` | both pipelines | warp grids, tile shapes, lengths, heads, blocks, causal or not |
| `FlashControlCorrect`, `FlashTypeCorrect`, `FlashBarSyncAligned`, `FlashNoOverlap` | named barriers, loads against readers | the same |
| `FlashBlockCorrect` | the inductive invariant of a block | the same |
| `FlashOperandsIntact`, `FlashOutputCorrect`, `FlashImplementsTileOutput` | operands, output, refinement | the same with `KeysClear`: two or more columns of warps, or one and an odd number of key blocks in every tile of the block |
| `DriverCorrect` | the inductive invariant of `test.cpp` | configurations, shapes, numbers of launches, latencies, any sequence of failures |
| `DriverTypeCorrect`, `DriverNothingLeft` | objects created, destroyed once and none left | the same |
| `DriverSuccessIsEarned`, `DriverFailureHasCause` | the exit status, in both directions | the same |
| `DriverCountersAddUp`, `DriverBestLeadsRanking`, `DriverBestFile` | summaries, ranking, `BEST.txt` | the same |
| `PlacesExclusive`, `OutputCovered`, `WorkBalanced` | the sharing of the tiles | outputs, group widths, numbers of SMs |
| `NobodyStarvesAlways`, `RequestsAlwaysValid` | register reconfiguration | sets of consumer warp counts the builds admit |
| `DispatchCorrect`, `BuiltKernelsAlwaysFit` | what `flash_configs.py` lets a build compile | limits of the shared memory, lists of configurations of head dimension 64 or 128, default sets |
| `LaunchesAreSound`, `FwdAlwaysSelectsByHeadDim` | every launch of `fwd` and `fwd_config`; which configuration `fwd` selects, and why it may refuse | the same, and sizes of tensors |
| `SoftmaxInvariant`, `RunningSoftmaxHolds` | the invariant of the online softmax, block by block | block sizes, lengths, numbers of warp columns, causal or not, integer scores |
| `SoftmaxWhenDoneHolds` | the output of a row is the softmax of its scores | the same |
| `VerificationComplete` | exit code 0 of `verify.py --all` | registries of kernels |

*Assumptions.* For the GEMM: `STAGE` is 2 or 3 (`static_assert`), there are
finitely many warps and the leader is one of them, grid and sizes are positive,
and `Torn` is no operand. For the flash kernel: `STAGE` is 2 and the shape
satisfies the static assertions of `kernel_traits.hpp` and the divisibility
`check_runtime_shape` asks for (`LaunchIsSound` of `FlashDispatch` is the other
half of that contract), and `Torn` is no datum and no result. `OnlineSoftmax` assumes that the
length is a multiple of both block sizes, the same `check_runtime_shape` asks for,
that the keys of a block divide evenly into columns and quads (`static_assert`s of
`kernel_traits.hpp`), and that scores are integers: with other scores the weights
are no powers of two, which changes nothing in the argument. `RegisterPool`
assumes one to four consumer warp groups (asserted in `gemm.cu.in`) and at most
eight flash warps (`flash_configs.py`). `GemmDriver` assumes that sizes of
configurations and shapes are positive, that the list of test shapes is not
empty (an empty one would make `BEST.txt` an empty file), that a benchmark times
at least one launch, and that the operation count of a problem is positive and a
multiple of every latency: this stands for a throughput that is exact, so that
different latencies give different throughputs (`ThroughputTells`), where the
code divides doubles. `FlashDispatch` assumes that the rows of a tensor, over all
batches and heads, can be counted in an `int` (`SizesFitInt`; beyond that a tensor
has 256 GB), to which the code casts the sizes. `MaxFaults` is any number. The runs are instances: the GEMM run
has two stages, one flash run a 2 x 2 grid; for the rest there are the theorems.

### The GEMM kernel

*The ring.* For a slot s, count rounds: `empty[s].phase` rounds were
released by all warps, `Freed(w, s)` by warp w, `full[s].phase` rounds were
loaded, and `Armed(s)` rounds were armed by the producer. `RingInv` says

    empty[s].phase <= Freed(w, s) <= full[s].phase <= Armed(s)
                   <= empty[s].phase + 1

so that all four are within one of each other. Neither property is inductive by
itself: that a load cannot meet a reader needs to know that the producer armed
the slot only after all arrivals, hence what `pending` counts (`EmptyOK`), that
a full phase ends only when both operands are in (`FullOK`, `LoadsOK`), and that
a pipeline state's slot and parity are functions of its count (`StatesOK`).
With the circle, a parity that matches identifies the phase (`FreeSlot`,
`FullSlot`), which is what the wait steps use, and each action moves one of the
four numbers by one (`AcquireStep`, `LoadDoneStep`, `ReleaseStep`, ...). The
lemmas on `Uses` and `Advance` (`UsesFacts`, `AdvanceFacts`) contain the
arithmetic of the ring; `CountFacts` the cardinality of the arrivals.

*The operands.* The producer and the warps count k-blocks in loops of their own.
`OperandsInv` ties all of them to one function: the n-th use of the ring belongs
to tile `TileOf(n)` and k-block `KOf(n)`, quotient and remainder by `KNum`. Since
the ring makes the slot a warp reads the one of its own n-th use, the slot holds
the label the warp expects (`LabelsOK`), and the accumulator is the initial part
of the sum (`SumsOK`).

*The epilogue.* `AlignOK` counts passages of the named barrier: `NextTile` and
`Mid` agree for all warps, which is why warps that wait together are at the same
call. From it follows that the leader, the only warp that waits for its stores,
has done so before any warp may write `sC` (`StoresOK`, `GemmSourceStable`), that
what is stored is what was staged (`StagedOK`), and which parts of the output
are written (`OutputOK`). The refinement needs all of them at one step only,
`StoreRead`.

### The flash kernel

*The pipelines* (`FlashRing`). Q and K share two slots, Q being the first use of
a tile, so that the slot of a key block depends on the blocks of all tiles
before. The circle of the GEMM ring holds per barrier, with `Stages(p)` slots. What
is new is that the loop counters of the producer and of a warp, in both
pipelines, are functions of one number, the uses before the tile
(`TileStart`, `CountsOK`): a role that is in the middle of a tile has used the
pipeline of Q and K once more than that of V or not, depending on its position
only.

*The barriers* (`AlignInv`). A tile falls into sections separated by the three
calls of the named barrier and the barrier of the tile. All warps are in the
same section, or at the barrier between two. Hence, when one warp is past its
main loop and the barrier of the statistics, all are, all loads of the tile are
done and none has been issued for the next one: the producer waits at the
barrier of the tile. `FlashNoOverlap` follows from that, the circle and the
offsets of Q, K, V and O.

*The data* (`ContentsOK`, `RegistersOK`, `OutputInv`). A slot holds the tile it
was armed for from the end of the load until the warps have left the main loop;
a warp's fragments and accumulator are therefore the blocks of its own tile;
the statistics it publishes, the partial outputs and the rows it stages are
those of that tile, where the columns write to different parts of `sO`; and
the store writes what was staged. `AttendedFacts` shows that the blocks the
loop counts, `k_blocks`, are exactly those the rows of a causal tile attend to.

*Why `KeysClear`.* With several columns, the barrier of the statistics keeps the
output from a tile whose keys are still being multiplied. With one column there
is none, and a warp may stage its output while another one is in the main loop.
Two facts then keep the output off what the other warp has yet to read. It is
less than a block behind: V has a single slot, whose last load waited for all warps
to release the V block before. And the last key block of a tile lies in
slot 1 if every tile has an odd number of them, because together with Q a
tile then makes an even number of uses, so that each tile starts at slot 0
(`StartOK`, by induction over the tiles of the block). `LastOK` says what is
left to read once a warp is past the main loop: the last K block in slot 1, the last V
block, and, if it is the only block, the rows of Q of each warp, which are the
rows of the output it writes itself. An even number of key blocks puts the
last one under the output: that is the finding of section 3, so that the
condition cannot simply be dropped. Everything up to `ContentsOK` needs no
condition: a slot keeps its contents as long as all warps are in the main loop.

### The softmax

The inductive invariant `SoftmaxInv` says `RunningSoftmax` with functions for its
quantifiers (`RegistersOK`), how far a column is for its `pc` and that the
keys it has seen have scores (`LoopOK`), that columns which have passed the
barrier know that all others have published (`StagesOK`), and what the exchange
leaves in `row_stats` and `result`. A step of the loop (`BlockStep`) takes a column from one
maximum to the next: for an old key `Scaled` adds the difference of the maxima,
for a new one it is `Minus(score, max)`, and the cases with minus infinity are
where `exp_scale` and `max_scale` need their special cases: without them a
row whose first blocks are masked would get a difference of two infinities.
The maximum over the quad is the same in all lanes, being the largest element
of what all lanes hold; its lemmas say what `Largest` returns for a finite set.

The sums rest on one observation: a key belongs to one block, one column and
one lane, so that no two operands of a sum have a term for the same key, and
`Plus` of two powers of two, which would be exact only by luck, is never taken of
two weights. A sum over a quad (`QuadSum`) or over the columns (`ColumnsSum`)
puts the terms side by side. The sum over the columns is a recursive function of
the number of columns; in place of induction its lemma takes the least
column at which the claim fails (`Smallest`). In the end the columns have
seen every key the row attends to (`ColumnsCover`), the largest of their maxima is
the maximum of the row (`GlobalMax`), which is a number since key 0 is never
masked, and rescaling a column to it (`ColumnScale`) makes all weights relative to
one maximum, which cancels in the quotient.

### The tiles

The first half of `Launch_proofs` shows that the numbering of the tiles is a bijection with
the places of the output: `get_tile_coord` divides with remainder, and
`block_swizzle` numbers the groups of columns one after the other, the last one
narrower. A block takes the numbers of one remainder by the number of blocks,
in order, so that no number is taken twice and none is left. Two remainders
have numbers of members that differ by at most one.

### The programs

*The GEMM driver* (`DriverInv`). What `main` returns is decided by variables set
long before, so the invariant keeps an account for each call the program may be
about to make (`at.pc`). `ControlOK` says which phase, mode and loop bounds belong to
the call; `HeldOK` which handles, streams and events exist there: the early
returns of the launcher destroy exactly those. `DeviceOK` says that a kernel fault
no call has reported can exist only where the program is still to wait for the device,
which is why no success overlooks one. `FailuresOK` is the centre of the exit
status: something went wrong if and only if it is in `all_ok`, in the counters or
in a local flag that will be added to `all_ok` (`Lost`), apart from a shape
nothing divides; neither direction survives a step without the other parts.
`CountsOK` ties counters to the set of configurations recorded as done,
`DoneOK` says which shapes and phases are complete if `all_ok` still holds,
`RankingOK` that the best result is the first maximum of those measured, and
`LinesOK` that `BEST.txt` is the beginning of the lines collected. There is one
lemma per action (`StreamStep`, `BenchNextStep`, ...): the step goes on with the
invariant (`Continues`) or ends the process with all that is claimed of the end
(`Finishes`). Steps that change no counter share `QuietStep`.

*Registers* (the second half of `Launch_proofs`). The invariant counts: `free` is what the releases have brought less
what the requests have taken. After the last release it is enough that four
releases cover all requests of a kernel, which is checked kernel by kernel,
each being a closed arithmetic fact, as is the validity of the requests.

*The flash extension* (`DispatchInv`). The theorems do not enumerate
configurations: `is_valid_config` is the hypothesis. `SizesAgree` computes the two
layouts of shared memory with the tiles as a multiple of 128 bytes and the
statistics as one float or a multiple of 64 bytes. That the elements of
`default_configs` are valid needs an argument, since the model defines the i-th
one by its rank: the block shape of a listed configuration determines its warps
(`ListedDiffer`), so that the loops' order is total, and in a finite total order
each rank is taken (`RanksCover`). `DefaultFacts` follows `default_config` through
its three attempts.

*verify.py.* The three tallies the exit code and the log are made from (`ok`,
`passed_count`, the cases skipped) agree with the statuses printed so far; the
count is that of a set, which is where the theorems on finite sets are needed.

## 5. What is only model-checked

* Termination and every other liveness property: fairness is out of reach of
  the provers used. The refinements are proved for the safety part of
  `TileOutput`; that every tile is written in the end is checked by TLC.
* `FlashOneColumn`: `flash1_odd`. The argument would be the one for `FlashKernel`
  with one column, with a phase bit in place of the pipeline state of V.
* That every command line of `GemmDriver` ends.

## 6. What is not modelled

* Rounding: `OnlineSoftmax` is exact, the conversion to half precision and the
  order of sums are left out.
* The proxy fence between generic reads of a slot and the TMA write that follows
  (the memory model is sequentially consistent except for the fence before
  a TMA store, which is modelled).
* Construction of TMA descriptors and layouts: CUTLASS, external.
* The GEMM's generator (`gemm_configs.py`): `GemmDriver` takes any registry.
  `gemm_tn`: its divisibility test and its failures appear in `GemmDriver`, its
  grid in `TileSchedule`; there is nothing else in it but descriptors.
* `verify.py --case` and the fixed shapes, `benchmark.py`, `test.py` and the
  reports: one comparison or measurement after the other, no state.
* In the driver: characters of arguments and names, `executable_directory`, the
  wording of reports, rounding of `gemm_tflops`.
* Which configuration an error left behind by another one is charged to
  (`gemm/test.cpp:825`): the model allows the wrong one to be blamed, and no
  property is stated, since what the launcher's own check does before is
  decided by the CUTLASS version.
* After a fault the copy to `device_C` throws and the program ends without a
  summary of the shape (`gemm/test.cpp:596`): the model lets the process end;
  nothing in the repository promises a summary then.
* Build files, clock script, printing: no state worth checking.

## 7. Plan

1. The pipelines of `FlashOneColumn` along the argument of `FlashRing`, and its
   output for an odd number of key blocks.
2. `GemmConfigs`: the sets `gemm_configs.py` generates against the static
   assertions of the kernel and the layout of its shared memory.
