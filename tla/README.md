# TLA+ models of the PCIe matrix-multiplication offload host

This directory models the host program of `src/host_code` with TLA+ and
checks it with TLC. The program drives an FPGA matrix-vector or
inner-product core over XDMA. It writes operands to device BRAM, writes
an op code to a register, polls the register, and reads the result back.
On top of this fixed-size call it builds tiled large matrix-vector and
matrix-matrix products.

## The system and its parts

| Part | Source | What it does | Module |
|---|---|---|---|
| Channel transport | `channel_readwrite.c` `write_to_channel`, `read_from_channel` | One DMA transfer to or from a device address. A write must move every byte or the assert aborts. A read zeroes its buffer, reads, only *prints* a short read and copies the whole buffer out | `Channel`, used by `Accelerator` and `BramLoopback` |
| Accelerator protocol engine | `fpga_offload.c` `fpga_innerproduct`, `fpga_matvec`, `fpga_matvec_verbose`, `fpga_matmul` | Write operands, write `0x5555` to `IP_ADDR`, read the register until it is not `0x5555`, read the result. `fpga_matmul` writes `B^T` once, then runs one matvec per row of `A`, re-arming the op code each time | `Accelerator` (detailed), `AcceleratorCall` (abstract) |
| FPGA core | not in the repository | Starts when `0x5555` is written to its register and computes from BRAM. Writes the result to `BRAM_ADDR` (multi-PE design) and leaves a completion code in the register, which spec §3 says may itself be `0x5555` | `DeviceCompute` in `Accelerator` (modelled from the spec) |
| Vector tiling | `fpga_large_matvec_naive` | Cuts an `num_row x num_col` product into `SIZE x SIZE` tiles. Two stack buffers are reused across tiles and zero-padded. Partial products are accumulated per tile-row | `LargeMatVec`, checked as the callee of `LargeMatMulA` |
| Matrix tiling, strategy B | `fpga_large_matmul_naive2` | `i/j/k` tile loops. Clears the buffers per `k`, calls `fpga_matmul` on padded tiles, accumulates per output tile, then saves the valid block | `LargeMatMul` |
| Matrix tiling, strategy A | `fpga_large_matmul_naive` | Transposes `B`, calls `fpga_large_matvec_naive` per output column, transposes back | `LargeMatMulA` |
| Reference engine | `utils.c` `cpu_*`, `mat_transpose_naive` | Triple-loop oracle | operators of `TileAlgebra`, `RefOracle` |
| Test harness | `main`, lines 581-820 | Runs `profile_transferSize`, then four tests `NUM_REPEAT` times each: fresh inputs, the accelerator and the reference call, per-test timing averages, and the per-element check under `DIFF_THRESHOLD` (lines 628-643, also 680, 741, 793), exiting on the first FAILED | `MainTests`, `ResultCheck` |
| Timing utilities | `utils.c` `timespec_init/sub/add/div` | `struct timespec` arithmetic with asserts on `tv_nsec` | `Timespec` |
| Verbose channel | `write_to_channel_verbose`, `read_from_channel_verbose` | The same transfers, timing five phases and the total with `clock_gettime` | `VerboseChannel` |
| Transfer profiling | `bram_readwrite_test`, `profile_transferSize`, `profile_overhead` | A BRAM round-trip test, the transfer-size sweep with averaged timings, and loops of verbose transfers | `BramLoopback` (inside `HostStartup`), `TimingProfile` (inside `MainTests`), `VerboseChannel` |
| Discovery and start-up | `device_check.c`, `ctrl_register_read.c`, `main` lines 552-576 | Looks for `xdma` in `/proc/devices`, counts the enabled H2C and C2H channels from their identifier registers, exits if either count is 0, then runs the BRAM test | `HostStartup` |
| `gettime_overhead` | `utils.c` | A clock-overhead loop; its call in `main` is commented out | not modelled: it repeats `TimingProfile`'s averaging loop |
| `xdma.mod.c` | driver | Generated modpost metadata | not modelled |

How they interact:
- The tiling functions call `fpga_matvec` or `fpga_matmul` once per tile. Each call is a sequence of channel transfers.
- The FPGA runs concurrently with the host thread, and the register at `IP_ADDR` is their only synchronisation.
- `main` runs each test and compares its result with the `cpu_*` reference, which is what the tolerance check is about.

## Value abstraction (`TileAlgebra`)

Floats are symbolic:
- A value is a bag of monomials, and each monomial is a bag of atoms `<<name, call, index>>`.
- `Add` is bag sum and `Mul` distributes.
- `Zero` is the empty bag.
- The model value `Garbage` stands for uninitialised memory or NaN and absorbs under both `Add` and `Mul`, so `0 * NaN` is NaN.

So two results are equal exactly when they are the same polynomial in the inputs. This catches every wrong index, every missing or duplicated partial sum, and every padding entry that is not zero. It also catches a result left over from another call, because each call's operands carry its call number. Float rounding and summation order are abstracted away; the tolerance check is modelled separately in `ResultCheck`, with integers in hundredths. `cpu_innerproduct`, `cpu_matvec`, `cpu_matmul` and `mat_transpose_naive` are operators over this algebra, and every module uses them as the reference.

## Modules and how they correspond to the code

**`AcceleratorCall`** is the abstract contract of one fixed-size call. It has two actions:
- `AInvoke(op)` starts a call with fresh operands.
- `AReturn` returns the `cpu_*` result of those operands.

Weak fairness on `AReturn` means every call returns.

**`Accelerator`** is the host thread plus the FPGA.

State:
- `bram`: the device memory.
- `ipReg`: the register at `IP_ADDR`.
- `pc`: where the host thread is.
- `call`: the current call's arguments.
- `k`: `fpga_matmul`'s row.
- `opCode`: the host's local `op_code`.
- `out`: the caller's buffer.
- `result`, `calls`: the last returned result and the number of calls returned.
- `faults`: reads so far that fell short.
- `bitstream`: the FPGA design loaded for the run (matrix-vector or inner product). `Serves` lets `main` call each `fpga_*` function only against its own design.

Host actions, one per channel call, in code order:
- `Invoke` enters the function.
- `WriteVector` and `WriteMatrix` write the operands.
- `Trigger` writes the op code.
- `Poll` is one pass of `while(1)`.
- `ReadResult` reads the result. It is the last read of the call, or the end of one row of `fpga_matmul`.

The FPGA has one action, `DeviceCompute`. The variable `running` is the FPGA's own state: `Trigger` sets it when the op code written is `0x5555` (the core is edge-triggered by the write), and `DeviceCompute`, enabled only while it is set, clears it and leaves a code from `DoneCodes` in the register.

`read_from_channel` may deliver fewer floats than asked, at most `MaxReadFaults` times. The rest of the buffer stays zero, as the `memset` makes it. A `memcpy` past the caller's buffer is modelled as the buffer growing, and `TypeOK` flags it. The module refines `AcceleratorCall` under `busy <- pc # "idle"`.

**`LargeMatVec`, `LargeMatMul`, `LargeMatMulA`** are the three tiling functions.
- The loop indices, stack buffers, accumulator and output are variables.
- Each loop iteration is an action that does the whole iteration body: build the tiles, call, accumulate.
- The stack buffers start as all `Zero` or all `Garbage` (uninitialised).
- `fpga_matvec` and `fpga_matmul` appear as one step returning `cpu_matvec` or `cpu_matmul` of the tile. That is the contract `Accelerator` is checked to refine.
- `LargeMatMulA` composes with `LargeMatVec`: `MV == INSTANCE LargeMatVec WITH ...` renames the callee's loop indices, stack buffers and output to variables of its own. `Call` enters the callee for column `i` (fresh stack buffers, zero or NaN; `out_vector` zeroed), `MatVecStep` is one step of the callee's `Next`, and `ColumnReturn` stores the returned column at `out_matrix_t + num_rowA * i`.
- Writes past the end of `out_vector`, `out_matrix` or `out_matrix_t` grow the function's domain, and `TypeOK` catches it.

**`Channel`** holds `write_to_channel` and `read_from_channel` as operators on a device memory: a write moves every float or aborts; a read allocates a buffer (which may be a freed one still holding old data), zeroes it with `memset` (`BufferInit`), receives `d` of `n` floats and copies all `n` out.

**`HostStartup`** is the start of `main`. `DeviceCheck` is `device_check` (an `fopen` failure or no `xdma` token is `exit(1)`); `OpenControl` is `check_channels`' `open` and `mmap` (each `FATAL` on failure); `ReadRegister` is one iteration of its loop over the four offsets `0x000 .. 0x300`, reading a 32-bit identifier kept as two 16-bit halves (TLC integers are signed 32-bit) and counting it when `(v & 0xfff00000) == 0x1fc00000`; `ReturnCount` is the `munmap`, the return and `main`'s test of the count, first for H2C, then for C2H. `BramTest` runs `BramLoopback` (`Loop == INSTANCE BramLoopback`) one step at a time.

**`BramLoopback`** is `bram_readwrite_test`: BRAM starts as garbage or an earlier run's data, the test writes `TestSize` floats, reads them back with any number delivered and any stale buffer, compares every element and prints passed or failed.

**`Timespec`** has `timespec_init/sub/add/div` as operators on records `[sec, nsec]`, with `Billion` a constant scaled down for TLC and C's truncating `/` and `%` as `CDiv`/`CRem`. Each operator's asserts are a separate predicate (`SubAsserts`, `AddAsserts`, `DivAsserts`); the calling action goes to `"abort"` when they fail.

**`TimingProfile`** is `profile_transferSize`: the size loop `j = 0x400 .. < 0x10000`, `NumTrials` timed writes per size with `timespec_sub`/`timespec_add`, and the `timespec_div` average. Clock readings are any non-decreasing values below `MaxSec`.

**`VerboseChannel`** is `profile_overhead`'s `NumRepeat` verbose writes then `NumRepeat` verbose reads. `Enter` gives every local `struct timespec` the same stack content from `StackGarbage` (uninitialised locals); `ClockGettime` is one `clock_gettime` of the step list of the function, `EarlySub` the read's `timespec_sub` at line 227, and `Report` the six subtractions printed at the end.

**`RefOracle`** calls a reference function repeatedly on one output buffer. **`ResultCheck`** is `main`'s per-element comparison with C's `int abs`. The float difference is converted to `int` first: truncation toward zero for a number, and for a NaN (a model value) the conversion is undefined behaviour, modelled as a choice between what the builds produce, `INT_MIN` (x86-64 `cvttss2si`) or `0` (AArch64 `fcvtzs`). `abs(INT_MIN)` stays `INT_MIN`.

**`MainTests`** is the rest of `main` after the BRAM test. `ProfileStep` runs `profile_transferSize` (`TP == INSTANCE TimingProfile`) to its end. Then, for each of the four tests in `Tests`: `StartTest` is the `timespec_init` of `ts_fpga_avg` and `ts_cpu_avg`; `Repeat` is one repetition up to the check (inputs, the accelerator call, the reference call, both `timespec_add`s); `CheckStep` is one iteration of the element loop (`RC == INSTANCE ResultCheck`); `Verdict` prints PASSED or FAILED and `exit(1)`; `Average` is the two `timespec_div`s. `VerboseRepeat` and `VerboseDone` are the unchecked `fpga_matvec_verbose` loop after test 5. The four tests differ only in the function called and the sizes, so they are one set of actions indexed by `test`. An accelerator result is the reference value plus a deviation from `Deviations`, or NaN. `Accelerator` checks that a correct call returns the exact reference, and the deviations stand for the faults it shows.

The `MC_*` modules extend their module for TLC. PROJECT.json maps every definition to the lines it models.

## Runs

| Run | cfg | Expect | What it shows |
|---|---|---|---|
| `accelerator_calls` | `MC_Accelerator.cfg` | pass | Three calls of `fpga_matvec`, `fpga_matmul` or `fpga_innerproduct`, each against the design it is written for (the design is fixed at `Init`), with completion codes 0, 1 and 2, in every interleaving with the FPGA. They refine the synchronous call (each returns its own `cpu_*` result into a buffer of the right length) and never write an operand slot while the FPGA is busy. |
| `accelerator_read_fault` | `MC_Accelerator_faults.cfg` | violation | One failed status read is taken as "done". The call returns the previous call's result or uninitialised BRAM. |
| `accelerator_verbose` | `MC_Accelerator_verbose.cfg` | violation | `fpga_matvec_verbose` reads the single-PE slot, which the multi-PE design never writes. |
| `accelerator_sentinel` | `MC_Accelerator_sentinel.cfg` | violation | An FPGA that may leave `0x5555` as its completion code: after it finishes, `fpga_matvec`'s poll reads `0x5555` forever and the call never returns. |
| `large_matmul_b` | `MC_LargeMatMul.cfg` | pass | Every shape in `0..3` cubed. Every tile pair is zero-padded, saves stay in bounds, and each saved output tile equals `cpu_matmul`. |
| `large_matmul_a` | `MC_LargeMatMulA.cfg` | pass | Every shape in `0..5` cubed, with each column's `fpga_large_matvec_naive` run step by step. Inside every call the tiles are zero-padded, out-of-range rows are never written and each finished tile-row equals `cpu_matvec`; the column offsets stay in bounds and the three transposes give `cpu_matmul`. |
| `ref_oracle_idempotence` | `MC_RefOracle.cfg` | violation | A second `cpu_innerproduct` on the same buffer doubles the result. |
| `result_check_tolerance` | `MC_ResultCheck.cfg` | violation | `main` reports PASSED for results it should reject: 1.50 against a reference of 1.00, or a NaN. |
| `verbose_channel` | `MC_VerboseChannel.cfg` | pass | Every printed interval is normalized and the five phases add up to no more than the total. |
| `verbose_early_sub` | `MC_VerboseChannel_early_sub.cfg` | violation | The read's early `timespec_sub` on uninitialised `ts_global_end` trips the assert. |
| `host_startup` | `MC_HostStartup.cfg` | pass | `main` from `device_check` to the end of `bram_readwrite_test(8192)` with `TestSize = 10`: every count `check_channels` returns is the number of the four slots whose identifier reads `0x1fc` in its top twelve bits, and the BRAM test prints passed only when all ten floats came back from BRAM, even when a short read lands in the freed input buffer. |
| `main_tests` | `MC_MainTests.cfg` | pass | `profile_transferSize` and the four tests, over all clock readings and durations, with results exact, 1.00 off or NaN. No timespec assert fires; every average printed is normalized and is the mean of its own size or test, at most a nanosecond short; no transfer exceeds the 32KB buffer; and `main` exits with FAILED only when an element really is out of tolerance. |

The properties:
- **`RefinesAcceleratorCall`**: the busy-poll protocol, in any interleaving with the FPGA, behaves like a synchronous call returning the reference result. It covers completion too.
- **`NoOperandWriteWhileBusy`**: an action property. The host never rewrites an operand slot while the register holds `0x5555`.
- **`OutputRowsFinal` / `OutputTilesFinal`**: every finished part of the output equals the reference, and every other part is untouched. They relate the output to the loop indices.
- **`TilesZeroPadded`**: an action property on the tile step. Each tile handed to the accelerator is zero outside its valid block.
- **`CalleeTypeOK`, `CalleeRowsFinal`**: while strategy A is inside a column's `fpga_large_matvec_naive`, the callee stays in bounds and its finished tile-rows equal `cpu_matvec`.
- **`ChannelCountExact`**: an action property on `ReturnCount`. The count returned covers every one of the four slots, and equals the number whose register reads `0x1fc` in bits 31:20 (checked against a reference defined by division, not by the mask).
- **`StrategyAResult`**: the column-major intermediate and the final transpose agree with the reference.
- **`PassedMeansRoundTrip`**: "passed" implies every float was delivered and equals the input. It depends on the `memset` in `read_from_channel`.
- **`AssertsNeverFire`**: no `assert` in `timespec_sub/add/div` fails on the values the program passes (checked on `profile_transferSize`; violated on the verbose read).
- **`TestAverageIsMean`**: the averages a test prints are the means of that test's own durations. It depends on the `timespec_init` at each test's start, since the four tests share `ts_fpga_avg` and `ts_cpu_avg`.
- **`FailedMeansMismatch`**: `main` exits with FAILED only when some element is out of tolerance. The check has no false alarms; it does miss errors, as `PassedMeansEquivalent` shows.
- **`AverageNormalized`, `AverageIsMean`**: the average printed has `0 <= tv_nsec < BILLION` and is the mean truncated, or one nanosecond less, because `timespec_div` truncates seconds and nanoseconds separately.
- **`TransferFitsBuffer`**: every size the sweep transfers fits the `0x8000`-byte buffer.
- **`ReportsNormalized`, `PhasesWithinTotal`**: the intervals a verbose call prints are normalized, and the phases sum to at most the total.

Each property of a passing run has a mutant in PROJECT.json that TLC finds violating it: an inner-product read of a whole vector, a result read from the single-PE slot, a one-shot poll, a loop bound off by one, a stale accumulator, a missing buffer clear, a full-width copy of a partial tile, swapped transpose dimensions, a read buffer left without its `memset`, a carry or borrow one step late, a division that drops the fractional seconds or leaves `tv_nsec` undivided, a size loop run one size too far, the total read before the last phase ends, a channel scan of five slots, a mask of two hex digits instead of three, averages not re-initialised between tests, and a tolerance check that does not divide by the reference.

### Bounds and why they suffice

- `SIZE = 2` makes every tile-boundary case occur: full tiles, partial tiles of width 1, and zero-size dimensions. Dimensions `0..5` (strategy A, so its matvec callee sees `0..5` rows and columns) and `0..3` (strategy B) give one, two and three tiles per axis, including a partial last tile after a full one. That is where copies, padding and stale buffers go wrong.
- Three accelerator calls give a call following a call, so a stale result is always a different polynomial.
- Three completion codes, one of them 0, cover completion codes that repeat or change across calls and one equal to a failed read's zeroed buffer.
- One read fault is enough to break the protocol.
- `Billion = 4` (sweep) or `2` (verbose) keeps every carry and borrow reachable: with clock readings up to `MaxSec` seconds, sums and differences cross a second boundary, and `NumTrials = 3` makes the division leave a remainder in both fields. The real `BILLION` changes only the sizes of the numbers.
- `MainTests` takes the profile with the timing bounds above, `NumRepeat = 2`, two elements per check, and durations of 0.75 s and 1.5 s (`Billion = 4`): two repetitions make sums carry and the mean have a fraction, and a carried-over average always differs from a fresh one. References 1.00 and 250.00 with a deviation of 1.00 give a pair out of tolerance and one inside it whose truncated difference is not 0. Together with NaN, every branch of the check occurs.
- `TestSize = 10` floats and any delivered count in `0..10` include reads that stop at every position.
- `MCRegisterValues` holds an identifier with `0x1fc` in its top twelve bits, one that differs only in bit 16 (`0x1fc1....`, a C2H identifier seen from H2C still counts), one that differs from an identifier only in its third hex digit (`0x1fd0....`, which a mask of two digits would count), zero, and `0xffffffff` (an absent PCIe function); each of the four slots may read any of them, so counts 0 to 4 all occur, and a `/proc/devices` with and without `xdma` gives both exits of `device_check`.
- `StackGarbage` holds a zero timespec and two with `tv_nsec` just outside `0..Billion-1`, the cases the asserts tell apart.

### Fairness

- The host thread is a single sequential thread, so weak fairness of each host action states only that it keeps running.
- Weak fairness of `DeviceCompute` assumes the FPGA finishes what it starts. The code relies on this with its unbounded poll, and the spec names the missing timeout (§9).
- The tiling modules, `HostStartup`, `MainTests`, `TimingProfile` and `VerboseChannel` are sequential functions, so `WF_vars(Next)`.
- `accelerator_sentinel` keeps the same fairness: the FPGA does finish, and the call still never returns.

## Findings

1. A failed or short `read_from_channel` is silent (`channel_readwrite.c:88`). A failed poll of the status register therefore ends the wait early, and the result read returns stale data (`accelerator_read_fault`).
2. `fpga_matvec_verbose` reads a different result slot than `fpga_matvec` and `fpga_matmul` (`fpga_offload.c:244`) (`accelerator_verbose`).
3. `cpu_innerproduct` does not zero its output (`utils.c:105`), against spec §4.4 and §8 (`ref_oracle_idempotence`).
4. `main`'s tolerance check uses the integer `abs` (`fpga_offload.c:629, 681, 742, 794`) (`result_check_tolerance`). Any difference below 1.0 passes. A NaN result passes too: its conversion to `int` is undefined, and it yields `INT_MIN`, whose `abs` is negative, or `0`.
5. `read_from_channel_verbose` calls `timespec_sub(&ts_global_end, &ts_global_start)` at `channel_readwrite.c:227` before `ts_global_end` is set at line 238. The asserts read an uninitialised `tv_nsec` and abort the program when it is out of range (`verbose_early_sub`). Only `profile_overhead` reaches it, and its call in `main` is commented out (`fpga_offload.c:584`).
6. Every poll loop (`fpga_offload.c:163, 198, 236, 293`) ends only on a register value other than `0x5555` and has no timeout. A core whose completion code is `0x5555`, a collision spec §3 names, leaves the host spinning forever after the work is done (`accelerator_sentinel`).

## Not modelled, and the plan

- Composition of `LargeMatVec` and `LargeMatMul` with the detailed `Accelerator` instead of its contract: faults inside a tiled product would then show up in its output. The state space of a tiled product times the interleavings of every call is beyond TLC at shapes that reach partial tiles.
- A strategy equivalence module: Strategy A and Strategy B on the same shapes.
- `main`'s random input values and its printing: `MainTests` abstracts each input to a reference value per element.
- `HostStartup` and `MainTests` are not joined into one module. `main` runs them one after the other, and the later part reads nothing the earlier one leaves, but the product of their state spaces is beyond TLC at these bounds.
- `xdma.mod.c`: metadata generated by modpost, with no behaviour.
- `ltohl` in `check_channels` is the identity on the little-endian hosts the build targets, so `HostStartup` takes register values as read.
