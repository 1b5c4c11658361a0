# TPE: a formal model

TLA+ models of the Tensor Processing Engine of this repository: the RTL under
`rtl/`, the AXI4 memory model under `verif/models/`, the golden model under
`model/` where it defines what the RTL has to compute, two of the cocotb
testbenches under `verif/cocotb_tb/`, and the programs that run tests,
`tools/run_sim.py` and `tools/regression.py`. TLC checks the models on small
instances; TLAPS proves what matters most for every value of the constants.

## 1. The system

A host writes commands into an AXI4-Lite register block; a FIFO carries them to
a sequential scheduler; the scheduler runs each through one of two engines (a
DMA engine between DDR and on-chip buffers, a systolic matrix engine on those
buffers) and reports its completion as a status, an interrupt bit and a trace
entry. Everything is clocked by one clock.

```
 host ──AXI4-Lite──> tpe_cmd_proc ──sync_fifo──> tpe_scheduler ──start──> tpe_dma ──AXI4──> DDR
   ^                     ^  irq, STATUS             │   │ router_sel        │
   └─────────────────────┴───── done, status ───────┘   └──> buffers <──────┘
                               │        │                       ^
                            tpe_pmu  tpe_debug            matrix_engine
```

### Inventory

| Component | State | Operations | What makes it correct | Hard behaviour |
|---|---|---|---|---|
| `rtl/common/sync_fifo.sv` | slots, two wrap-bit pointers, counter, output register | write and/or read per cycle, async reset | a bounded queue: order, no loss, no duplicates | simultaneous read and write at full/empty/wrap; two records of the occupancy |
| `rtl/command_processor/tpe_cmd_proc.sv` | enable, staging registers, IRQ status and mask, last status, two channel FSMs | register reads and writes, push, soft reset, completion | accepted commands reach the scheduler once; no completion is lost; STATUS means what the map says | completion against clear in one cycle; reset in the middle of a pop; live status read by a slow host |
| `rtl/scheduler/tpe_scheduler.sv` | FSM, current command, status, router select | pop, decode, dispatch, wait, complete | in order, exactly once, own status; engines started only when idle; router matches the transfer | one-cycle pulses; answer one cycle after the request; stale status |
| `rtl/dma/tpe_dma.sv` | FSM, two addresses, beats left in transfer and burst, direction | one descriptor: split into bursts, move beats | the destination rows equal the source rows, nothing else changes, `done` after the last | burst boundaries, wraps, back-pressure, RAM latency, length 0 |
| `verif/models/axi4_ddr_model.sv` | write FSM, read FSM with one pending beat, storage | AXI4 bursts | a burst is served once, completely | one-beat read pipeline under back-pressure |
| `rtl/common/dp_ram.sv`, `rtl/sram` | memory, output registers | port access with byte strobes | READ_FIRST | two ports on one row |
| `rtl/matrix_engine/*` | control FSM, row indices, skew chains, valid pipeline, accumulators, per-column output counters | load weights, stream rows, drain | C = A·B + C on `dim_m` x `dim_n`, saturating; ends | valid pulses of inactive columns that outlive a tile; index widths; stale weights beyond `dim_k` |
| `rtl/pmu/tpe_pmu.sv` | six counters, latency tracker | count, reset, read | the counters classify cycles; latency is dispatch to completion | capture against increment; enable in mid-command |
| `rtl/debug/tpe_debug.sv` | error latch, trace FIFO, read FSM | latch, push, pop on read | the trace is the completion history | pop on read of an empty trace, push at full |
| `rtl/top/tpe_top.sv` | address routers, buffer router | routing | a response comes from the block addressed | live address decode |
| `rtl/common/round_robin_arb.sv` | last grant | grant | nobody starves | requests that come and go; not instantiated |
| `model/` | memories | copy, multiply | reference of the RTL | none: sequential |
| `verif/cocotb_tb/sram` | drivers, monitors, shadow memory, write log | sequences, live check, replay in the golden model | the verdict is that of the memory, no access unchecked | controls and data sampled at different edges; a test may end before its last transaction is seen; tests share a memory no reset clears |
| `verif/cocotb_tb/dma` | two shadows, the rows collected | preload, poll, replay, read back, compare | shadows follow the memories; verdict exact | a chain of transfers, each replayed on what the last left |
| other benches, `verif/sva`, `verif/coverage` | test state | drive and check | tests | used as statements about the design |
| `tools/run_sim.py` | compile cache, model build, status files, worker processes | compile once, run groups in parallel, report | no worker sees a half-built cache; every test reported | check-then-act on shared flags and files, interruption between two steps, timeouts, what an earlier run left |
| `tools/regression.py`, `cov_merge.py` | one directory of files per block, coverage archive | run a list in parallel, archive, merge | exit code 0 means that all ran; merged coverage is that of the run and of what is left of tests no longer listed | every test of a directory overwrites the same files; a simulation survives the timeout of its `make` |
| other tools, CI | files | generate, report | none concurrent | none |

`PROJECT.json` lists the same components with what is modelled of each, and the
hazards of the code with the properties that cover them.

## 2. Modules

| Module | Models | State and actions against the code |
|---|---|---|
| `BoundedQueue` | what a FIFO promises | `queue`, `delivered`; `Cycle` (offer and take), `Flush` |
| `SyncFifo` | `sync_fifo.sv` | every register; `Clock` is the rising edge, `Reset` the asynchronous reset |
| `MCSyncFifo` | instance for TLC | four slots, two data values |
| `SyncFifo_proofs` | theorems on `SyncFifo` | |
| `RoundRobinArb` | `round_robin_arb.sv` | `basePtr`; `ArbClock` with any requests and any acceptance, `ArbReset`; `waits` is history |
| `DualPortRam` | `dp_ram.sv`, both ports | operators: what an edge may store and what it reads |
| `HostRouter` | `Axi4LiteDriver`, the address router of `tpe_top.sv`, the channel FSMs of the blocks | the driver's pins and where its coroutine waits; one operator per wait, `SlavesEdge` the FSMs; `taken` is history |
| `Pe` | the adder of `pe.sv` beside `saturating_add` of `MacArray.hpp` | a partial sum on its way down a column, one PE per step |
| `SramBench`, `MCSramBench` | `verif/cocotb_tb/sram` and its agents over `DualPortRam` | a cycle is a rising edge (`Drive`), the work that follows it in any order, and a falling edge |
| `MCCommon` | the small units above in one run | `unit` is chosen at the start; the others stand still |
| `Scheduler` | `tpe_scheduler.sv` | `state_q`, `cmd_q`, `status_q`, `router_sel_q`; one operator per FSM state, `SchedClock` the edge |
| `CommandService` | the promise of the command path | `waiting`, `running`, `report`, `latest`; `Begin`, `Finish`, `Retire`, `Flush` |
| `CommandPath` | `tpe_cmd_proc.sv` wired to the scheduler as in `tpe_top.sv` | all registers of the block; one action per register write of the host, conjoined with the read channel and with `Behind`, the edge of FIFO, scheduler, engines and interrupt logic |
| `HostView` | `CommandPath` with a host that remembers a STATUS word | history variables of the host only |
| `CommandPath_proofs` | theorems on `CommandPath`, `CommandService` and `HostView` | |
| `AxiPort`, `DpRam` | sizes shared by master and slave; one RAM port | `Port` is `dp_ram.sv`'s clocked block |
| `AxiDdr` | `axi4_ddr_model.sv` | every register; `WriteClock`, `ReadClock`, `StorageClock` are its three blocks |
| `Dma` | `tpe_dma.sv` | every register; one operator per FSM state, `DmaClock` the edge |
| `RowCopy` | `DmaEngine.hpp`'s `copy`, the definition of a transfer | `Accept`, `CopyRow`, `Finish` |
| `DmaPath` | DMA, memory and buffer wired together | `Edge` is one rising edge of all three; `job`, `owed` and `jobs` are history |
| `DmaBench` | `verif/cocotb_tb/dma` over `DmaPath` | `phase` is where the test's coroutine stands; a step is an edge of the design with what the coroutines do after it |
| `MCDmaPath` | instance for TLC, of the path alone or under its bench | distinct rows, the descriptors |
| `DmaPath_proofs` | theorems on `DmaPath` and `DmaBench`, the refinement of `RowCopy` | |
| `ModuloLemmas` | what the remainders of wrapping counters and addresses are | lemmas, used by `DmaPath_proofs` and `Pmu_proofs` |
| `MatrixEngine`, `MCMatrixEngine` | `rtl/matrix_engine/*` | FSM, one delay line for all skew chains, weights, one symbolic sum per PE, output columns and their counters; one operator per FSM state and per block, `Edge` the rising edge |
| `MatrixEngine_proofs` | theorems on `MatrixEngine` | |
| `Debug` | `tpe_debug.sv` over `SyncFifo` | error latch, trace enable, both channel FSMs; `unread`, `due`, `known` are history |
| `Pmu`, `MCPmu` | `tpe_pmu.sv` on the wires of `Scheduler` | counters, enable and reset, latency window; `transit`, `span`, `measured` are history |
| `Pmu_proofs` | theorems on `Pmu` | |
| `Units_proofs` | theorems on `RoundRobinArb`, `HostRouter`, `Pe`, `Debug` and `SramBench` | |
| `RunSim`, `MCRunSim` | `tools/run_sim.py` | files that outlive an invocation, the shared flag and hashes, one program counter per block; one action per stage of `run_test` |
| `StatusFiles` | the `status.json` files of `run_sim.py`, its summary and its monitor | a file is known by the executions its fields are from; truncating, filling and reading are steps of their own |
| `Regression`, `MCRegression` | `tools/regression.py`, `tools/cov_merge.py` | the files of each directory, known by the simulation that wrote them; one worker per directory, one action per step of `run_one` |
| `MCTools` | these three in one run | `tool` is chosen at the start |
| `Tools_proofs` | theorems on these three | |

One step is one rising clock edge, because all blocks of the design share the
clock and every nonblocking assignment reads the state before the edge. Nothing
is therefore interleaved that the hardware does in parallel: each action moves
every block at once, and the nondeterminism is what the environment may do in
that cycle (the host's access, when an engine finishes, a stall, a reset).

The FIFO inside `CommandPath` is the `BoundedQueue` that `SyncFifo` is proved
to implement. The engines inside `CommandPath` are three states wide (idle,
busy, one cycle of done); `DmaPath` shows that the DMA behaves like that and
what it does meanwhile, `MatrixEngine` the same of the other engine.

`RunSim`, `StatusFiles` and `Regression` have no clock: their steps interleave,
one step being what a thread does between two accesses to something it shares
with another thread or leaves on disk. In the benches the coroutines of cocotb
interleave between two edges.

Several small modules without shared state are checked in one run by a
selector (`unit` in `MCCommon` and `MCDmaPath`, `tool` in `MCTools`) that is
chosen once and never changes: each behaviour is a behaviour of one of them.

A name beginning with "Broken variant" in a comment is a definition that no
specification uses: it is the corresponding definition with a plausible mistake
in it, and putting it in place of the real one makes a property fail.

### Abstractions

- A command keeps opcode, tag, `dim_k`, `dim_n`; `sram_addr`, `mem_addr` and
  `dim_m` pass through the path unexamined. Opcodes 6 to 13 and 15 are one
  value, `INVALID`: the decode's default.
- Register addresses are action names. A write to an address that changes
  nothing is `WriteCtrl` with the value already there.
- `last_status_valid_q` is folded into `lastStatus` (reset value `OK`), as the
  read mux does.
- DMA addresses and lengths count rows of 16 bytes; a length that is not whole
  rows is the flag `misaligned`. The memory address wraps where the memory
  decodes it.
- In `DmaPath` a stalled cycle hides valid and ready of the channel in use. The
  DMA never uses two channels in one cycle, so a single choice is enough.
- The `rst_n` power-on reset is the initial state.
- A memory's initial contents are arbitrary (`DpRam!Init`); `MCDmaPath` starts
  from memories whose rows all differ, so that any misplaced row shows. Rows
  are only moved, never computed on, so nothing depends on their values.
- In `MatrixEngine` a buffer row is a name (tile, row) and a sum is the sequence
  of what was added, in order. `ResultStands` therefore holds for all data and
  for any adder, saturating or not; `pe.sv`'s arithmetic is the one thing left
  out. Which additions overflow is chosen once per behaviour. The skew chains
  of rows and columns and the valid chain through the array hold the same word
  at the same distance from the read, so `line` is all of them. The documented
  bugs 1 (row `dim_k` contributes) and 2 (the seed of columns from 2 on is one
  row ahead) are in the model, and `Expected` says exactly what they change.
- `Debug` keeps tag and status of a completion, not its opcode, which is stored
  next to them and never looked at.
- `Pmu` gives counters and latency a modulus each, so that both wrap within the
  run; in the code both are 2^32. Its FIFO holds one command; the flags are the
  same with any number.
- `RunSim` has one invocation at a time (nothing in the code keeps a second one
  out; two would share every file). A version is the content of the sources and
  its hash; edits go to and fro between two contents, so an old content may come
  back. Tools do their work or fail. PASS and FAIL are one verdict: what matters
  is which simulation it came from.
- `StatusFiles` lets any task run at any time: which ones do is `RunSim`'s
  matter. A write is a truncation and a filling, a kill may fall between them.
  One `run_sim` process at a time, and a monitor that may be another.
- `Regression` knows a file by the simulation that wrote it. `make` removes
  `results.xml` before it runs a simulation, as the cocotb makefiles do
  (external); the simulation writes its files as it exits, or dies, or hangs.
- `HostRouter` has one access at a time, as the tests have; what a coroutine
  reads after a rising edge is the value before that edge, which is what the
  driver needs to meet the handshakes at all. The blocks behind the router are
  their channel FSMs, all alike but for the pop of the trace; the sink of stray
  accesses is one more.
- `Pe` gives the accumulator any width; a product is that of two operands and
  fits it.
- `SramBench` has rows of two lanes, and a RAM that may fail to store one lane
  once (`MaxDefects`): without a defect a live check that checks nothing would
  look right. When both ports write a row in one edge either may win; the
  sequences never do that, and the model shows it.
- `DmaBench` polls for the end of a transfer without the bound of 5000 cycles in
  the code: `TransferEnds` shows that it would not be reached but for a stall.

## 3. Runs

Passing runs:

| Run | Question | Bounds and why they are enough |
|---|---|---|
| `common` | is the circular buffer a bounded queue? can the arbiter starve a requester? is the verdict of the SRAM bench that of its RAM? is every host access taken once, by the block it names, and answered? is a saturated sum the golden model's? | 4 slots, 2 values: pointers wrap twice through their extra bit, full and empty with both occupancies of every slot. 3 requesters, any requests in any cycle. 4 rows of 2 lanes: each port has a row of its own to write and read, two are left for the directed writes, one of them partial; two accesses per random sequence; one defect anywhere. One address of each block and one of none, the popping register and another. A 4-bit accumulator, operands of 2 bits, 4 additions from any seed: overflow at both ends, and wrapped sums that overflow again. All sizes by proof |
| `service` | are commands served in order, once, each with its status, under soft resets and any host writes? is a completion recorded, and does a raised interrupt stay, whatever the host clears in that cycle? what may a host conclude from a STATUS it read earlier? | a two-entry FIFO, so that one command waits while one is in the output register and one runs, and a second pop would show; opcodes for both engines and both directions of the DMA and an invalid one (a failing status), every value written to `IRQ_STATUS` and two masks, the read channel free to run beside the write channel. Tiles of other widths (`BAD_DIM`) are in `completion` and in the proofs; all sizes by proof |
| `completion` | is every accepted command reported? | both engines; tiles of one column, of two (refused: bug 5), and of none, which the scheduler accepts and the engine need not end; no soft reset |
| `dma` | does a transfer copy its rows and nothing else, with agreed bursts, and end? does its bench say so, and what it should when not? | bursts of at most 3 rows, lengths 1 to 7 (one to three bursts with every remainder), both memories wrap, two transfers in a row, stalls anywhere; 3-bit and 4-bit counters. Under the bench: two transfers of one, two and four rows, each row preloaded with one of two words |
| `matmul` | is every cell of the result the sum it should be, until the next tile? which tiles leave no pulse behind? does every tile end? | a 2 x 5 array (a bottom row that is not the top row, columns on both sides of the seed's change at column 2), tiles of 0, 1 and 3 rows, `dim_k` from 0 to `ROWS`, 0, 1, 4 and 5 columns: 4 and 5 are wide enough to leave the chains empty, one is a column too few in an engine that rests for no cycle, so a tile on the pulses of another is there as well. Two tiles with no pause, which is closer than the scheduler can start them, so that stale weights, pulses and counters meet |
| `trace` | are the completions read from the trace the recorded ones, in order, each once? | two slots: a push at full, a pop at empty and a simultaneous push and pop; reads of every register, the host taking the data at any time |
| `pmu` | do the counters classify every counted cycle, is the latency one short? | one command at a time for each engine and for none; counters wrap at 2, latency at 3; enable and reset written in any cycle |
| `tools` | do tests run on the binaries they should, are all reported, what does exit code 0 vouch for, does an invocation end? does a status file tell of one execution? is the coverage kept and merged after exit code 0 that of the run? | `run_sim`: two blocks, one with two tests; two invocations (what one leaves, the next finds), each a suite or a single test; two edits (an edit and its reversal); any build may fail, any simulation die or hang, interruption anywhere. Status files: two tasks, executed twice, in two processes, either of which may be killed. `regression`: two directories, two invocations, a list of one test in each and a list of two tests of one directory, the second of which may have got another seed, and so another tag, before the second invocation |

Deadlock is checked in every run but `common`, `tools`, `dead_sim` and
`whole_file`: there a bound on the invocations, or the end of a list of tests or
of a column of PEs, stops the model.

The type invariants are parts of named properties, one for each module:
`BenchIsExact` (`SramBench`), `ShadowsFollow` (`DmaPath` and `DmaBench`), `PulsesAccounted`, `CountIsReadable`, `CyclesClassified`,
`EveryTestReported` (`RunSim`), `RowIsOfOneExecution` (`StatusFiles`) and
`ZeroMeansAllRan` (`Regression`). Those of `SyncFifo`, `CommandPath`,
`RoundRobinArb`, `HostRouter` and `Pe` are proved and in no run.

Runs whose property is a statement of the repository that the code does not
satisfy:

| Run | Statement | What happens |
|---|---|---|
| `soft_reset` | test_plan.md:89, soft reset leaves a re-startable state | a reset in the cycle after the pop request leaves the scheduler in `ST_POP` for ever |
| `next_tile` | matrix_engine_ctrl.sv:289, the last active column's counter means every row is written | after a one-column tile, pulses still on their way to the far columns arrive after the counters were cleared and advance them; a following nine-column tile is reported done before its last column is written |
| `whole_file` | bug_list.md:124, `sram_cmodel_integration_test` always ends in a `CModelError` | run by `make` without `TESTCASE`, in one simulation with the other tests of its file, it meets the rows `sram_sanity_test` left in a memory no reset clears; its new shadow is zero, the live check fails, and the golden model is never asked |
| `dead_sim` | regression_flow.md:60, to which run_sim_flow.md:194 refers: a crashed harness is an ERROR | a simulation that dies leaves the `results.xml` of an earlier invocation, which is parsed and reported |

In `next_tile` the engine stays idle for four cycles between two tiles, which is
what the scheduler needs from one done pulse to the next start with a command
waiting in the FIFO (report, idle, pop, decode, dispatch), and the array has ten
columns. Other sizes give the same picture: nothing goes wrong with
`COLS <= MinRest + 4`, something does beyond. The design has 16 columns.

`dead_sim` is the `run_sim` part of `tools` with the documents' statement in place
of what the code does guarantee (`ZeroMeansSimulated`). `whole_file` and the bench
part of `common` differ in the tests that share a simulation (and have no
defect): `common` has the two that sequences.py:12 says may.

What else the models show of the code, without a run of its own:

- `QuietIsDone`: `BUSY` = 0 alone says nothing about queued work;
  `CMD_FIFO_EMPTY` = 1 in the same word does.
- `CopiesRows` says exactly what bug 4 of bug_list.md does: a store that leaves
  one row over after a full burst loses that row, and nothing else goes wrong.
- A write to `IRQ_STATUS` clears both bits or none (bug 6), `dim_n = COLS` is
  refused (bug 5), the captured latency is one short (bug 7): each is in the
  model as the code has it, and the properties hold around it.
- `WorkerCrash`: a simulation killed at its timeout raises `TypeError` at
  run_sim.py:565 if it had printed anything (`TimeoutExpired.stdout` is bytes),
  so a suite loses the results of the whole block and reports a crash in place
  of a TIMEOUT. `EveryTestReported` allows that outcome and no other.
- `MatchesGolden`: bug 3 (no lower rail) changes the sum and never the flag, also
  not through later additions to a sum that is already wrong.
- `VerdictIsExact`: the only mismatch the DMA bench can report is that of bug 4,
  and it reports it whenever the row left out differs from the one that stands
  there.
- `NoResponseLeft`: the live decode of the router is safe because the driver
  holds its ready from the request on and never starts the next access before
  the response of this one is taken; nothing in the router itself asks for it.
- `EveryCommandReported` has one exception, which it names: a matrix multiplication
  with `dim_n = 0`. The scheduler only refuses too many columns; the engine then
  waits in `ST_DRAIN` for the counter of column `n_q - 1`
  (matrix_engine_ctrl.sv:291), an index out of range, and nothing in the code
  says that it ends. While it does not, no later command is reported.
- `ResultStands`, `OverflowReported` and `PulsesAccounted` speak of a tile that
  started on chains without a pulse of an earlier one (`clean`), and
  `PulsesAccounted` says which tiles leave them so: those with all but
  `MinRest + 3` columns of the array (`WideEnough`). In the design that is 9 of
  16; what a narrower one can do to its successor is `next_tile`.
- `ZeroMeansSimulated`: exit code 0 of `run_sim.py` means that every test of the
  plan was simulated in this invocation, but for tests whose `Vtop` died over a
  `results.xml` of an earlier one. That exception is `dead_sim`.
- `ZeroMeansAllRan` holds for directories that no orphan has written to: the
  timeout of `regression.py` kills `make` alone, and the simulation it started
  lives on and writes its results over those of a later test of that directory.
  As in `run_sim.py`, a timeout of a test that has printed something raises
  `TypeError` (regression.py:96), so it appears as the crash of a group. Exit
  code 0 says nothing of PASS and FAIL (regression.py:20), nor does the property.
- `MergeIsOfTheRun` says what a merge counts after exit code 0, again in
  directories no orphan wrote to: the tests of the list, each by this
  invocation's simulation, and the leftovers of tests that the list no longer
  names (renamed, dropped, given another seed). The coverage directory is never
  emptied and `cov_merge.py` takes every file in it, so the leftovers count for
  ever; only files of listed tests are replaced. After any other exit code files
  of listed tests that were interrupted or failed this time count too. A
  `coverage.dat` that a test without one of its own finds in its directory is
  archived under its tag.
- `RowIsOfOneExecution` leaves out two fields: while a task runs its row shows
  `cached` and the duration of an earlier execution, which `write_status` merges
  in. A task whose thread crashed or was killed says RUNNING for ever.
- `BinaryIsCurrent` needs the exception it states: `built_hash.txt` is the hash
  from before the build, so sources edited while they are being built, and
  later brought back, run on the binary of the edit.

### Fairness

- `CommandPath!FairSpec`: weak fairness of the clock (`Cycle`) and of each
  engine's finishing (`DmaFinishes`, `MeFinishes`). The clock is free-running.
  An engine is a state machine that is shown to end: `dma` for the DMA,
  `matmul` (`TileEnds`) for the matrix engine. Both grant it to tiles of at
  least one column only: `MeFinishes` has `dimN > 0` in its guard, so an engine
  with a tile of none may stay busy for ever. Nothing is assumed of the host.
- `MCDmaPath!MCFairSpec`: weak fairness of an edge that is not stalled: the
  interconnect may stall for any time but not for ever. A stalled transfer
  keeps `Run(FALSE)` enabled, so weak fairness suffices.
- `DmaBench` under the same run: the clock, and coroutines that are resumed; the
  bench's memory does not stall but for the DMA's own protocol.
- `HostRouter` (`MCCommon`): the clock. Nothing is assumed of the test.
- `MatrixEngine!FairSpec`: the clock. Nothing is assumed of the scheduler.
- `RunSim!FairSpec`: a running invocation goes on, in some thread or to its end;
  no thread and no queued block is favoured. The tools are subprocesses that return; a simulation that does
  not is killed by its timeout, which is why "hangs" is a way to end. Edits,
  interruptions and cleaning are never required.

## 4. Proofs

| Theorem | Statement |
|---|---|
| `SyncFifo_proofs!TypeCorrect`, `CounterConsistent` | registers in range; counter = distance of the pointers |
| `SyncFifo_proofs!FifoImplementsQueue` | `sync_fifo` implements `BoundedQueue` |
| `CommandPath_proofs!TypeCorrect`, `EngineOwnershipHolds`, `RouterCorrect`, `PoppedIsAwaited` | registers in range; the safety invariants of `CommandPath` |
| `CommandPath_proofs!CompletionRecordedHolds`, `IrqHeldHolds` | its action properties |
| `CommandPath_proofs!PathImplementsService` | the command path implements `CommandService` |
| `CommandPath_proofs!RoomStaysUsable`, `QuietStaysDone` | what a host may conclude from an old STATUS word |
| `DmaPath_proofs!BurstsAgreeHolds`, `HeldUntilTakenHolds`, `TypeCorrect` | DMA and memory agree on every burst; a valid not taken stands; registers in range |
| `DmaPath_proofs!CopiesRowsHolds` | DMA, memory and buffer implement `RowCopy` |
| `DmaPath_proofs!BenchInvHolds`, `ShadowsFollowHolds`, `VerdictIsExactHolds`, `BenchCopiesRows` | the same under the DMA bench: its shadows follow the memories, its verdict is exact |
| `MatrixEngine_proofs!EngineTypesHold`, `PulsesHold` | registers in range; pulses and row counters account for the rows fetched |
| `MatrixEngine_proofs!OverflowReportedHolds`, `ResultStandsHolds` | an overflow of the result is reported; every active cell holds its sum until the next start |
| `Pmu_proofs!CyclesClassifiedHolds`, `LatencyLessOneHolds` | each counted cycle in one class; the latency is one short |
| `Units_proofs!NoStarvation` | nobody is passed over more than `NUM_REQ - 1` times |
| `Units_proofs!RouterTypeCorrect`, `AccessAnsweredOnce`, `NothingIsLeft` | an access is taken once, by the block it names, is answered by that block, and leaves nothing behind |
| `Units_proofs!AdderMatchesGolden` | what bug 3 can change, and what not |
| `Units_proofs!TraceReadInOrder`, `CountStaysReadable` | the trace is read in order, each entry once; a count that was read stays good |
| `Units_proofs!SramInvHolds`, `BenchIsExactHolds` | the verdict of the SRAM bench is that of its RAM, every access is compared, the golden model's replay agrees |
| `Tools_proofs!RowHolds`, `ReportsHold` | what status files, summary and monitor say |
| `Tools_proofs!ZeroMeansAllRanHolds`, `MergeIsOfTheRunHolds` | what exit code 0 of `regression.py` means, and a merge after it |
| `Tools_proofs!BinaryIsCurrentHolds`, `OneBuildServesAllHolds`, `EveryTestReportedHolds` | what `run_sim.py` runs and reports |
| `Tools_proofs!ZeroMeansSimulatedHolds` | what its exit code 0 means |

They hold for every FIFO depth, array, buffer and burst size, set of tags, set of
dimensions, number of requesters, set of addresses, width of accumulator and
counters, lists of tests and changes to them, number of workers and host behaviour. The assumptions
on the constants are those of the modules, which TLC evaluates in the runs:

- `DepthAssumption`, `DataAssumption`, `TraceAssumption`: a depth is a power of
  two, as in both instances of the design; a zero value exists.
- `HostAssumption`, `PmuAssumption`: the FIFO holds a command, the reset values
  of tag and dimension are values, opcodes are opcodes; counters have a value.
- `NumReqAssumption`: there is a requester. `RouterAssumption`: block numbers
  have four bits. `PeAssumption`: a product fits the accumulator.
- `DmaAssumption`, `PortAssumption`, `JobAssumption`: the memories have rows; a
  burst has more than one beat and fits the AXI length field, that field fits
  the beat counter; a descriptor has a row at least (length 0 wraps the counter,
  as the hazard in `PROJECT.json` says).
- `BenchAssumption`: in `DmaBench`, there is a transfer, each has a row and stays
  within both memories, as the test draws them; its words are words. In
  `SramBench`, simulations list tests of the file, rows and words are the RAM's.
  `RamAssumption`: the RAM has rows, a byte can be zero.
- `ArrayAssumption`: the array and the buffer have rows and columns; `dim_k` and
  `dim_n` are within the array.
- `StatusAssumption`, `RegressionAssumption`, `RunSimAssumption`: a tag begins
  with its directory, so every list that `Contents` allows has its tests in
  theirs; a plan that is no suite has its test in one block; "none" is no name.

One hypothesis is not among them. The theorems of the SRAM bench need
`SeparateRows`: neither the two ports of a test nor two tests of a
simulation share a row. Both sequences promise it in their comments
(sequences.py:12 and 41); `common` satisfies it, which `MCCommon` has TLC evaluate,
and `whole_file` shows what happens without it. Those of `MatrixEngine_proofs`
have none: they hold for every sequence of tiles, and speak in it of those that
started on empty chains. The first tile does, and so does any that follows such
a tile of all but `MinRest + 3` columns; the scheduler's own `MinRest` is 4, so in
the design (16 columns) that is 9 columns or more. About a tile that follows a
narrower one they say nothing, and `next_tile` shows why nothing can be said.

*FIFO.* `TypeOK` alone is not inductive: a counter in range says nothing about
the slot a write hits. With `CountMatchesPointers` the slot written is the one
after the last waiting entry and the slot read is the first, so `Contents`
grows at the end and shrinks at the front. The refinement then goes case by
case over write and read, after lemmas on what `Contents` is after a step.

*Command path.* `BehindInv` joins the types with `EngineOwnership`,
`RouterFollowsCommand` and `DeliveredIsAwaited`: what an engine may do next
depends on who waits for it, and a command in the output register can only be
consumed by a scheduler in `ST_POP`. `BehindStep` proves the invariant over the
edge of everything behind the registers once; each of the host's writes reduces
to it. The refinement maps `waiting` to the output register followed by the
queue. Its lemmas are about sequences: taking the head of the queue into the
output register leaves `waiting` unchanged, consuming it from there takes the
head of `waiting`. It needs one more invariant, `OnlyFittingTiles`: only a
tile that fits reaches the matrix engine.

*Host.* What a host concludes lasts because nothing but its own push can fill
the FIFO or start work. `HostIInv` adds to the command path's invariant what
`sawRoom` and `sawQuiet` mean at present: room in the queue; everything behind
the registers at rest. `RoomStep` and `RestStep` prove each over the edge of
what is behind the registers, with a pop, a completion or a soft reset in it.

*Arbiter.* `BoundedWait` is inductive as it stands: the sum of the grants that
passed a requester over and of its distance from the base pointer never grows,
since the pointer moves behind a winner that is nearer than the requester.

*Router.* The invariant says, for each place the driver waits at, what is on
the pins and which slave is at work: none before the request is taken, then the
one the address names and no other. The driver's ready is high throughout,
so the slave is quiet again at the edge at which the driver sees the response.

*Adder.* The sign test of the RTL finds exactly the sums out of range
(`OverflowTest`), and without a sum below the range both adders agree
(`AdditionAgrees`). After one, the sums part, but both flags are set for good.

The theorems speak of soft resets too: the invariants hold through them; what
fails (`soft_reset`) is progress.

*Interrupts.* `WriteClears` reduces every write of the host to the bits it
clears: none, or those of a write to `IRQ_STATUS`. Both action properties follow
from `IrqClock` alone, in which the completion is added after the clear.

*DMA.* `ControlInv` relates the two ends: in each state of the DMA, the state of
the slave, the beats owed on either side and the burst length on the wires. It
needs no memory contents and gives `BurstsAgree`. `CopyInv` adds the data:
`AtItsRow` says that both addresses are at the row given by the beats still
missing, `WholeBursts` that only whole bursts precede the one in progress (that
is what makes the last burst of a store a single beat exactly when
`RowsCopied` says so), `RowInFlight` that what is in an output register or
pending in the slave is the row the address names. The refinement then takes an
edge that writes a row for `CopyRow`, start and end of the transfer for `Accept`
and `Finish`, and every other for a stutter. The addresses are remainders of
counters that run on; `ModuloLemmas` has what they need of arithmetic.

*DMA bench.* `BenchInv` puts the test's coroutine on top of `CopyInv`.
`EngineServes` says that the engine is at rest except in the poll, so the backdoor
writes memories that nothing else changes. `InStep` says, as long as no row has
differed, how far memories and shadows agree: apart by the rows of the preload
that were sent, by the rows the path has copied, and in `read` by nothing or by
the last row of the target. It is needed because `ShadowsFollow` and
`VerdictIsExact` speak of the moments between transfers only. The
`Overwrite` lemmas say what one row more does to a memory; `PollMoves` and
`PollEnds` are where bug 4 enters: a store of a one-beat last burst ends a row
short (`RowsCopied`). `ReadBack` says that the collector holds what the memory
held, so that the comparison finds exactly this row (`LossShows`).

*Matrix engine.* The invariant is a shape: `Pulses` says that the valid bits in
the delay line are one train of consecutive rows, `f` of them, its last at tap
`g`. An edge without a fetch moves it by one tap, an edge with one grows it at
its end (`TrainMoves`, `TrainGrows`), and a column has counted what has gone by
it (`Passed`). `TrainAt` gives `g` in each state of the FSM; after the last active
column has counted to `m`, the train is beyond it, and so many idle cycles as a
`WideEnough` tile leaves to the columns beyond its own bring it out of the line
(`WideRunsEmpty`). All this is under `clean`: a tile that starts on empty chains
starts with no train (`PulsesStart`), and of one that does not the invariant says
only its types. `PulsesAccounted` is the cardinality of an interval. For the sums, `WeightsLoaded` says what the
weight registers hold in each cycle of the load, `SumsOnTheWay` that PE `r` of
column `c` holds the first `r + 1` additions for the word one tap further on, and
`SumsWritten` that a column's rows are whole; an edge extends the sum by one
addition (`PartialGrows`) or, from row `dim_k` on, hands it on. `SeedIs` is bug 2:
the seed of columns from 2 on is of the word behind, which behind the train is
the last row again.

*PMU.* `AwakeWhenAwaited` keeps the class of the matrix engine apart from those
that are read off the scheduler; with it each counted cycle adds one on both
sides of `Classified`, modulo the width. `SpanIsLatency` ties the latency register
to the cycles of an open window.

*Debug.* `DebugInv` says that what the FIFO holds is what was recorded and not
read, and uses the theorems of `SyncFifo_proofs` on the FIFO of the trace.

*SRAM bench.* `SramInv` says what each place holds that an access passes. In the
rows of the running test the shadow is what a RAM without defects would hold,
but for the transaction in the inbox (`ShadowIsIdeal`); rows of tests to come are
still as they were (`RowsAreFresh`), which is why a new shadow of zeros is right.
`WrongShows` and `AllCounted` follow a wrong word and an access through the inbox,
and `InTurn` has the last item idle, so nothing is in flight when the test ends.
`LogIsShadow` is about the golden model, whose image is recursive in the write
log: that the log has a replay, and that each ends in the shadow. The prover has
no induction over the log, but the log grows by one entry at a time, so the
invariant is the induction (`EmptyReplay`, `ReplayGrows`).

*Tools.* `StatusInv`, `RegInv` and `RunInv` say, for each point a thread can be at,
which file or flag is whose: a file that is read now was written by the
simulation the thread has just run; a `Vtop` behind a recorded hash is that of
the hash, unless the block was disturbed; the thread that set the flag is the
one that builds. A directory's files are of simulations of its own tests
(`OwnFiles`), which is why what a merge finds of a directory is either of its
list or left over. `VerdictInv` follows each verdict in the list a thread returns
to the simulation it is of, or to a `Vtop` that died. They are long because there are many such points, and each of
their parts is proved for each step in a lemma of its own.

*Only model-checked*: liveness (`completion`, `dma`, `matmul`, `tools`,
`AccessReturns`), which is out of the prover's reach under fairness. Every
invariant and every action property of the passing runs is proved.

## 5. Not modelled, and the plan

What is left, by importance:

1. `Top`: `CommandPath` with `DmaPath`'s DMA and `MatrixEngine` in place of the
   three-state engines, and the router in front of the buffers. Hazards: the
   zero-row descriptor, what a tile with `dim_n = 0` does to the path behind it,
   a store while inactive columns deliver.
2. The source list of `run_filelist` coming out empty (run_sim.py:324): the stage
   is marked FAIL and goes on with the hash of nothing.

Left out for good: debug printing, functional coverage, register reset values
and address constants (generated from one YAML file), the directed benches of
the command processor, scheduler, matrix engine, PMU and debug block (stimulus
with assertions in line, no state of their own), the second RAM port and byte
strobes where nothing uses them, report and wave tools, `lint.py`, `gen_tests.py`
and `regmap_gen.py` (sequential, no state), CI configuration. A burst that
crosses a 4 KB boundary breaks an AXI4 rule; no statement of this repository
speaks of it.
