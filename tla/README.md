# A TLA+ verification of AHASD

AHASD couples ONNXim (a cycle-level NPU simulator) with a PIM memory model to
study asynchronous speculative decoding of language models. This directory
holds TLA+ modules translated from its C++ sources, the TLC instances that
check them, and TLAPS proofs about the core. Paths below are relative to
`src/`.

## 1. The system

### Components, their state and their operations

| component | state | operations | interacts with |
|---|---|---|---|
| **SpecDecodeScheduler** (`ONNXim/src/scheduler/SpecDecodeScheduler.cc`) | request queue and `_active_requests`, `_model_meta` of the issued models, stall deadlines, per-round records of pre-verification and deferral, last rank mode per request | `cycle` (admit requests, issue at most one model), `finish_model` (PROMPT, DRAFT, PRE_VERIFY, VERIFY) | called by Simulator; calls VSKM, SSRC, AHASDIntegration, PIMBackend |
| **VSKM** (`async_queue/VSKM.h`) | per request: committed prefix, drafts, region bytes, version; total speculative bytes | `reset_request`, `begin_round`, `draft_token`, `complete_verify` | called by the scheduler |
| **SSRC** (`SSRC.h`) | deferred rounds with their reservations, resident bytes | `should_defer_round`, `on_round_verified`, `is_active_request` | called by the scheduler and, per memory access, by PIMBackend |
| **EDC** (`async_queue/EDC.h`) | entropy history LEHT and its committed copy LCEHT, LLR, pattern table PHT, pending predictions | `should_continue_drafting`, `update_on_verification` | one instance for all requests, behind AHASDIntegration |
| **TVC** (`async_queue/TVC.h`) | three cycle tables, the NPU progress register NCR | `record_*`, `start_npu_task`, `update_npu_progress`, `should_insert_preverification` | behind AHASDIntegration; fed by the scheduler and by Simulator |
| **AHASDIntegration** | EDC and TVC, counters | `decide_draft_length`, `decide_pre_verify`, `record_verify_result` | between scheduler and EDC/TVC |
| **PIMBackend and the memory half of Simulator::cycle** | per channel: rank mode, hold deadline, command window, hold queue, two bypass queues | the interconnect cycle; `request_gtsu_switch`; the two bypass tests | between interconnect and DRAM |
| **Tile schedulers** (`scheduler/Scheduler.cc`) | request queue, tile queues per partition and core, counts per active layer | `schedule_model`, `get_tile`, `finish_tile`, `refresh_status` (four policies) | Simulator, Model |
| **Core, Sram, SystolicWS** | running tiles, load/store/execute queues, pipelines, scratchpad entries | `issue`, `cycle`, `push_memory_response` | Simulator |
| **Operations, Mapping** (`operations/*.cc`, `Mapping.cc`) | none: tile programs computed from dimensions | `initialize_tiles`, `initialize_instructions`, mappings | Model, tile schedulers |
| **Model, Tensor, LanguageModel** | layer graph, dimensions, executable layers | construction, `set_layer_finish`, the pass of a regressive model | tile schedulers, language schedulers |
| **LangScheduler / IterLevelScheduler** | request queue, active requests, active models | `cycle`, `finish_model` | the schedulers without speculation; Simulator |
| **Interconnect, Dram, clock domains of Simulator** | buffers per node, queues per channel, three clocks | `push`, `pop`, `cycle`, `set_cycle_mask` | Core, Simulator; the real back ends are third party |
| **PIMSimulator: memory controller** (`PIMSimulator/src/MemoryController.cpp`, `CommandQueue.cpp`, `Rank.cpp`) | transaction and command queues, two tables of bank timing, buses, refresh countdowns | `addTransaction`, `addBarrier`, `update` | a host, ranks |
| **PIMSimulator: PIM rank and blocks** (`PIMRank.cpp`, `PIMBlock.cpp`) | mode, command registers, program counter, jump and repeat counters, GRFs | `controlPIM`, `doPIM`, register writes | the host's kernels (`PIMKernel.cpp`) |
| **GatedTaskScheduler, AAU** | pending and active task, power of the ranks, switch countdown; busy flag | `submit_task`, `update`, `executeAAUOperation` | PIMRank |
| **Address mapping, ClockDomainCrosser** | two counters | `addressMapping`, `update` | MultiChannelMemorySystem |
| scripts | - | run experiments, parse logs | - |

The simulator is one thread, but what it simulates is concurrent: the models of
different requests finish in any order between calls of `cycle`, the three
clock domains (core, interconnect, DRAM) interleave, tiles on several cores end
in any order, reads are answered out of order, and one EDC, one SSRC budget and
one rank mode are shared by all requests. The difficult behaviours are:

* results applied in an order nobody wrote down (models, tiles, memory answers,
  accesses reordered for row hits);
* records of one thing kept in several places that must stay in step: the five
  maps of a request, `remain_tiles` and the tile queues, the bank states of
  controller and rank, dimensions in tensors and in operation attributes;
* shared state updated on behalf of one request and read on behalf of another;
* deadlines (KV stall, rank switch, hold queue) that a later event moves;
* queues and buffers at their limit;
* integer divisions and shifts that cut a whole into parts, in many places;
* progress: one model is issued per cycle, a VERIFY may accept nothing, a
  refresh closes rows, layers start from `refresh_status` alone.

`PROJECT.json` lists these hazards at their lines, with the properties that
would notice them.

### What makes each component correct

* scheduler: one outstanding model per request, of the kind its phase waits
  for; a VERIFY covers what was drafted; KV tensors hold the committed and the
  drafted tokens; only verified drafts are committed; every request completes;
* VSKM, SSRC: they agree with the scheduler on the round in flight, and their
  byte totals are the sums of their records;
* EDC: the two histories, the LLR and the pending predictions describe the same
  polls; a rejection rolls back what was not committed (not the whole round,
  finding 7); suppression ends when rounds succeed again;
* TVC: the progress register never claims more cycles than passed; a long
  pre-verification fits into the time predicted for the NPU;
* PIM channel: no access is lost or duplicated; holds are respected and
  released in order; no access starves;
* tile schedulers: every tile runs once, a layer starts after all layers it
  reads from, it ends with its last tile, every model ends;
* Core/Sram: a buffer is not reused while a tile still needs it, a result is
  stored after its computations;
* operations: a layer's tiles read all of its input, contract all of it and
  write each output once, within the buffers; the dimensions a layer assumes
  are those of its tensors;
* language schedulers: the batch is respected, the caches follow the tokens,
  every request is served;
* interconnect, memory: an access is answered once, to its core; with a power
  of two of channels no two lines share a place in a channel;
* PIM controller: it never sends a command the rank forbids, loses nothing, and
  keeps the order of dependent accesses; PIM kernels compute their reference
  result in every order of issue; gated tasks run on powered ranks, in order.

## 2. Modules and their correspondence to the code

`PROJECT.json` maps every definition to its lines. Operators whose comment
begins with "Mutant" are wrong variants of a mapped operator; each shows that a
property would notice that error.

### Speculative decoding

* **SpecDecode** - the scheduler with the target model attached. `req` is the
  table of `LangRequest`s, `models` is `_model_meta`, and `stall`,
  `preVerified`, `deferredRound`, `lastRank` are the maps of the same names.
  `Cycle` is one call of `cycle`: the whole admission loop, then the first
  active request that can issues one model (`IssuePrompt`, `StartRound`,
  `IssueDraft`, `IssueVerify`), stall entries expiring on the way.
  `FinishModel(m)` is `finish_model`, with one action per task. `Arrive` lets
  the clock reach a request time. EDC, TVC, the acceptance sampler, the entropy
  test of SSRC and the length of a rollback are nondeterministic in the range
  the code clamps them to.
* **VSKM**, **SSRC** - the operations of these classes on their own state,
  instantiated by SpecDecode.
* **DecodeService** - the abstract service: requests are taken in order,
  prefilled, extended by at most `MaxDraft` tokens at a time, and done exactly
  at their target length. SpecDecode is checked to implement it
  (`ImplementsService`, with status and committed length read off `req`).
* **SpecDecodeInv** - the inductive invariant; **SpecDecodeProofs** - the
  proofs: the invariant, the round protocol, the refinement of DecodeService,
  the batch and the byte totals. **ControlProofs** (EDC, TVC, address mapping,
  clocks, gated tasks), **PIMChannelProofs**, **PIMMemoryProofs**,
  **ServingProofs**, **TileSchedulerProofs** and **MemSystemProofs** hold the
  theorems about the other components, **DataFacts** the facts about sums,
  sequences and arithmetic they share.
* **EDC** - the predictor as functions on its state (one call of the scheduler
  polls it several times). **DraftControl** - the one EDC driven by the rounds
  of all requests: `Plan` (`decide_draft_length`), `PreVerify` and `Verify`
  (`record_verify_result`).
* **TVC** - the tables, the NCR and the decision as functions on their state,
  with exact fractions for the code's floats. **VerifyControl** - TVC in its
  environment. One core cycle is three steps: `Sched` (the scheduler issues at
  most one task and takes its decision), `Finish` (tasks end and leave samples)
  and `Beacon` (`update_npu_progress` at the end of the loop body).
* **PIMChannel** - one PIM channel. `IcntCycle` is the body of the channel loop
  of `Simulator::cycle`: release one held access, fill the command window,
  select and route one access, drain the AAU and SSRC bypass queues and DRAM's
  responses. Deadlines are kept as cycles left, and `Tick` is a core cycle. The
  environment sends the accesses of DRAFT and VERIFY tasks; as in `Core.cc`, a
  task ends when its reads are answered and its writes are sent.

### The NPU

* **TileScheduler** - the four tile schedulers under the core loop. `sched` is
  the state of the scheduler: its request queue, `exec` the executable layers
  of each model, `execQ` and `coreQ` the tile queues, `active` the statistics
  of the active layers. `CoreTurn(c)` is the body of the core loop for one core
  (collect a finished tile with `finish_tile`, fetch the next with `get_tile`),
  `Complete` the end of a tile in its core, `Launch` is `schedule_model`.
* **Core** - one weight-stationary core with its scratchpads. `core` holds the
  running tiles, the three instruction queues, the pipelines and the two tables
  of entries with their double buffers. `CoreCycle` is one turn of the core: it
  takes a tile when there is room (`issue`) and runs `cycle`; a pipeline takes
  any number of cycles to complete; `Respond` is a memory answer, in any order.
  A failed assert or an `exit` sets `panic`.
* **Operations** - the lowering of layers: the Gemmini mapping of a matrix
  product and of a convolution, and the tile programs of GEMM, convolution,
  attention, cache concatenation, SkipLayerNorm, BiasAct, BiasGelu and Softmax,
  as pure functions of the layer. The machine at the end (`prog` holds the
  program of the layer; actions `StartTile`, `RunInst`) runs it on the cores
  its tiles are assigned to, with the allocation rules of Core and Sram, so
  that the properties can speak of what is in a buffer when an instruction uses
  it.
* **ModelGraph** - networks: tensors, operations, the executable list,
  `SetLayerFinish`, and for every operation the dimensions it takes its inputs
  to have (`wants`), beside those they do have. **LanguageModel** - the
  transformer built for every step over a batch of requests.
* **Serving** - LangScheduler, IterLevelScheduler and the ONNX mode on these
  graphs: `handle_model` is the model part of a simulator cycle (the language
  scheduler's `cycle` with admission, batch and memory check, then the launch),
  `FinishLayer` the end of a layer, with `finish_language_model` after the last
  one.
* **MemSystem** - cores, SimpleInterconnect, SimpleDram or an external memory,
  the channel hash and the three clock domains. `Cycle` is one turn of
  `Simulator::cycle`: the mask of the domains that tick, and the parts of the
  domains in the code's order.

### The PIM device

* **PIMMemory** - one channel: `Add` is the client's `addTransaction`, with
  `addBarrier` behind it when the access is to be a barrier; `Update` is one
  `MemorySystem::update` in its order (ranks, an overflown transaction, bank
  states, command bus, data bus, refresh, command queue, transaction queue,
  returned data). Clocks are kept as cycles left. An access to a reserved row
  (`PIMRank.h:110`) is neither checked by the rank nor noted in its table of
  banks; that a sequence of such accesses switches the rank's mode is the
  business of PIMDevice, and the requests here do not make one.
* **PIMDevice** - a rank with its blocks. `Issue` sends the next command of the
  host's kernel, in any order the controller may choose within a fence, to
  `sendToBank`: bank accesses, mode changes, register writes and `doPIM`.
* **GatedTasks** - GTSU and AAU: `Submit`, `ExecuteAau`, `Tick`
  (`PIMRank::updateAHASD`). **AddressMap** - the eight schemes as operators and
  the clock crosser as a machine (`HostCycle`, `SetClock`).

### Instances

**MCSpecDecode**, **MCDraftControl**, **MCVerifyControl**, **MCPIMChannel**,
**MCTileScheduler**, **MCCore**, **MCOperations**, **MCServing**,
**MCMemSystem**, **MCPIMMemory**, **MCPIMDevice** define the small instances of
one module each. **MCOverlay** (safety), **MCOverlayLive** (liveness: it takes
MCSpecDecode and named instances of DraftControl and PIMChannel), **MCNpu** and
**MCPIM** put several of them into one specification: a variable `part`, chosen
at the start, says which one runs, the others stay in their initial state.
These are sums and not products: the parts share no state in the model. Where
parts do interact (scheduler with VSKM and SSRC; EDC and TVC with the rounds
that feed them; the language schedulers with the graphs they launch and the
order their layers run in) they are composed in one module.

## 3. Runs

| run | question | result |
|---|---|---|
| `spec_decode` | Two requests with every choice of draft length, pre-verification, acceptance, deferral and rollback: do scheduler, tensors, VSKM and SSRC agree, do the byte totals stay sums, is each round verified once and as it should, is DecodeService implemented? | holds, 268,631 states |
| `overlay` | Two requests on one EDC with pre-verification; two requests and TVC over seven core cycles; a PIM channel with accesses of every kind: are EDC's records consistent and bounded, is TVC's progress true, does a long pre-verification fit, is every access in one queue and the hold queue in order? | holds, 1,294,778 states |
| `overlay_live` | Three requests, one asking for no token, with a batch of one: do all complete, and by how much does admission overshoot? Two requests on one EDC with pre-verification: does suppression end? A channel with two issuers that switch the ranks back and forth: does every memory task finish? | holds (overshoot by at most one), 85,657 states |
| `npu` | Core, tile programs, tile schedulers, serving and the way to memory, each in several setups: safety of buffers, completeness of the tiles, order of the layers, batch, caches and dimensions, answers; and does everything finish? | holds, 59,111 states |
| `pim_device` | Memory controller, PIM kernels, gated tasks, address schemes and clock: no command the device forbids, kernels exact, tasks in order, mapping bijective, no drift; and is every request and task served? | holds, 110,878 states |
| `spec_decode_rank` | Is a model issued only with the ranks in its mode? | violated (finding 1) |
| `pim_channel_hold` | Does nothing enter DRAM during a switch? | violated (finding 2) |
| `pim_channel_ssrc` | Does SSRC absorb only drafts? | violated (finding 3) |
| `tile_split` | Does the spatial split keep the tiles of layers that overlap? | violated (finding 4) |
| `core_accum` | Is an accumulated result stored after all of its tiles have computed? | violated (finding 5) |
| `core_late_fill` | With several outputs on one core: does every response find its buffer entry? | violated (finding 6) |
| `draft_restore` | Does a VERIFY that rejects drafts leave the entropy history as it was before the round? | violated (finding 7) |

### What the properties say

* `BytesConserved`: VSKM's total is the sum of the regions of all requests, and
  SSRC's resident bytes the sum of its reservations; either could leak when a
  round begins before the last one was closed.
* `BatchBounded`, `OverlayCompletes`: the admission loop of a cycle may pass the
  batch by one request and no more; every request of the trace completes.
* `RoundDiscipline` is about steps: no committed token is taken back, those of
  a decoding request grow only by its VERIFY and by no more than the round
  drafted, and a round is pre-verified at most once.
* `LlrTracksPending`, `HistoryAhead`, `PendingBounded`: the LLR is the number
  of pending predictions, up to its limit; the two histories are that many
  polls apart and differ in those slots only; there are no more pending
  predictions than polls of the rounds in flight.
* `LayersInOrder`: `remain_tiles` equals the tiles that are queued, running or
  waiting to be collected; a layer is queued after its producers finished, and
  once. `RetiredClean`: a model leaves the request queue with nothing behind.
* `CoreSafe`: no assert of Core and Sram fails, an outstanding read has its
  entry. It is checked with one accumulation on a core, and is false with
  several (finding 6).
  `StoreAfterOwnWork`: within a tile a result is stored after its computations.
* `Runnable`, `ComputesWhole`: every instruction of every tile finds its
  operands and room; a product is stored exactly when its contraction is
  complete; the inputs are read whole and the outputs written whole, once.
* `CachesFollowTokens`, `BatchBound`, `ShapesAgree`: the length of a request is
  that of its caches and the one token ahead; the batch; each operation's
  assumed dimensions are those of its tensors.
* `AnsweredInOrder`, `LinesApart`: one answer per access to its core, in order
  per channel with the simple memory, no input buffer passed over for more than
  a round; with a power of two of channels different lines have different
  places (it fails for other counts, see the observations).
* `ChannelExact`: no panic of the ranks or the buses, `numOnTheFlyTransactions`
  is exact, and dependent accesses and barriers are not overtaken.
  `KernelExact`: the kernel's cells, for every order of issue.
* `ServedInOrder`, `NoDrift`, `MappingHolds`: tasks run in order, on powered
  ranks, for their cycles; the memory clock is never behind the host's nor a
  whole cycle ahead; each scheme is a bijection.

### Bounds

* `spec_decode`: two requests are the least with interleaved rounds and a
  shared SSRC budget; the budget admits one reservation of three tokens but not
  two larger ones together, so refusals happen. Three drafted tokens allow a
  PRE_VERIFY of one or two tokens and every partial acceptance. One request has
  a cached prefix. A batch of 1 exhibits the overshoot (two are active).
  `RollbackCycles = {2}` lets a stall outlast one cycle. `overlay_live` has
  three requests, so that one waits while the batch of one is exceeded, and no
  SSRC.
* `ZeroAcceptRounds`: from this round on a VERIFY accepts at least one token. A
  sampler that rejected everything for ever would never finish a request; the
  bound states the progress the samplers make and keeps the rounds finite.
* `ModelIds`: ids are reused once a model has finished; two suffice, as at most
  two requests are active.
* EDC: a ring of 2 entries wraps within a round; an LLR of two bits
  saturates when both requests have polls in flight; MaxDraft 3 gives several
  pending predictions (`overlay_live`: MaxDraft 2, still two requests and
  pre-verification). One entropy bucket keeps the instance small: the buckets
  choose the table entry, not the control.
* TVC: tables of two samples slide; a clock ratio of 4/5 makes the divisions
  uneven; seven core cycles (`MaxCycle`, which only bounds the exploration) let
  drafts, a pre-verification and verifications of both requests overlap.
* PIM channel: DRAM and the response buffer with one entry make every
  back-pressure case happen; a window of two entries is reordered; three
  accesses in flight put one each into window, hold queue and DRAM. A switch of
  two cycles leaves time to park accesses of different age. The liveness run
  has two issuers, because one alone never switches the ranks under the other.
* Tile schedulers: two cores; a model with a branch whose join is reached over
  two edges, with a skipped layer and a layer bound to one core; a model that
  is run twice; all four policies, the spatial split on a chain (finding 4).
* Core: three scratchpad entries and one accumulator entry, so that loads wait
  for room; a product in two accumulating tiles, a layer norm, a skipped tile.
* Operations: fourteen layers of eight kinds on two cores, with an array of
  side 2, an access of two bytes and buffers of 128 bytes: each layer is cut in
  several tiles along at least one dimension and leaves a remainder in the last
  one. The programs are functions of the layer, so one order of instructions
  per core covers them.
* Serving: three language setups with a batch of two or none, one with a memory
  that overflows, and one of two ONNX networks (an image classifier and an
  autoregressive decoder). The trace has a burst larger than the batch, a late
  arrival, cached prompts and an output that ends with its prompt step.
  `Horizon` stops the count of cycles once all requests arrived.
* Memory: two cores that crowd one or two channels, three clock ratios, both
  memories; the channel hash is checked on idle machines of 2, 4, ... 64
  channels over the ten address bits that enter it. `LastBound` stands for an
  uninitialised wait.
* PIM controller: queues of two entries; five accesses with a row conflict, a
  barrier, a reserved row, a second rank and bank; timing parameters that
  differ, so that each can be the binding one; a refresh interval in which all
  of it happens.
* PIM kernels: element-wise addition, ReLU and a matrix-vector product on two
  blocks. The groups between fences have eight commands and are issued in every
  order.
* Gated tasks: four tasks of both kinds, one of no cycles, so that the vector
  of tasks outgrows its capacity twice.

### Fairness

* Scheduler: `Simulator::cycle` calls the scheduler every core cycle and its
  clock passes every request time: weak fairness of `Cycle` and `Arrive`. Every
  issued model finishes: weak fairness per model. For the reads of a model,
  `overlay_live` shows what this assumption asks of the channel, for its tiles
  and layers `npu`.
* EDC: the simulation goes on (some next step is taken).
* PIM channel: the three clocks run, DRAM serves its read and its write queue,
  and a core with a task issues its instructions: weak fairness of each. No
  fairness is assumed of the scheduler's starts or of the arbitration.
* Tile schedulers: the loop goes round, every registered model's time comes,
  and a core completes each of its tiles. No fairness of the choice of tiles.
* Core: it ticks, its pipelines complete, and memory answers.
* Serving: some step is taken; each of its two actions alone comes to an end.
  Memory system: the main loop runs. The turn of the interconnect is the
  code's, no fairness is assumed of it.
* PIM controller: the clock ticks and the client adds its requests; nothing is
  assumed of the arbitration or of refresh. Gated tasks: the rank is updated,
  the host submits.

The sums state these conditions for the part that runs.

## 4. Proofs

Eight modules hold the theorems; `DataFacts` holds the facts about data that the
others share. All are proved for every
value of the constants that satisfies the module's named assumption; where a
theorem needs more than that it says so as a hypothesis, listed below.

| module | theorems | property of the runs |
| --- | --- | --- |
| SpecDecodeProofs | `Invariance`, `TypeCorrect` | (the invariant) |
| | `OneModel`, `VerifyCovers`, `KvHolds`, `KvWithin`, `VskmInStep`, `DeferralsInStep`, `StalledIdle` | OneModelPerRequest, VerifyCoversDraft, KvHoldsDrafts, KvWithinTarget, VskmAgrees, DeferralsPaired, StallIdles |
| | `Disciplined`, `Implements`, `BatchStays`, `BytesStay` | RoundDiscipline, ImplementsService, BatchBounded, BytesConserved |
| PIMChannelProofs | `ChannelStays` | (the invariant) |
| | `NothingLost`, `HoldIsOrdered` | EachInOneQueue, HeldInOrder |
| ControlProofs | `ControlStays`, `VcStays` | (the invariants) |
| | `LlrTracks`, `HistoryStaysAhead`, `PendingStaysBounded`, `NcrStays`, `LongPreVerifiesFit` | LlrTracksPending, HistoryAhead, PendingBounded, NcrNoWrap, LongPreVerifyFits |
| | `ClocksNeverDrift`, `MappingStays`, `TasksServed`, `TasksStay` | NoDrift, MappingHolds, ServedInOrder, (the invariant) |
| ServingProofs | `ServingStays`, `CachesStay`, `BatchStaysBounded` | (the invariant), CachesFollowTokens, BatchBound |
| TileSchedulerProofs | `TileInvHolds`, `LayersInOrderHolds`, `RetiredCleanHolds` | (the invariant), LayersInOrder, RetiredClean |
| PIMMemoryProofs | `ChannelExactHolds` | ChannelExact |
| MemSystemProofs | `MemStays`, `AnswersStayInOrder` | (the invariant), AnsweredInOrder |

The theorems are about the specification of a component (`Spec`, `PIMSpec`,
`ControlSpec`, ...). MCOverlay and MCPIM run the same Init and Next, one part
at a time; MCOverlayLive adds fairness.

### The scheduler

None of the properties of SpecDecode is inductive alone. That a VERIFY covers
the drafts needs that the phase AWAIT_VERIFY is entered exactly when the plan is
exhausted, and that only the model the request waits for can finish; that KV
tensors stay within the target needs the plan to fit the tokens left; that a
deferral is released needs its record to name the round in flight. `IndInv`
(SpecDecodeInv) therefore ties, for every request, the lengths phase by phase
(`RoundShape`), its SSRC record (`DeferralFits`), its VSKM record (`VskmFits`),
its stall (`StallFits`) and its outstanding model (`ModelFits`), plus what is
true of requests still queued (`TableFits`).

`cycle` admits and then issues in one action, so the invariant is stated of a
table and a number of admitted requests (`InvAt(q, n)`): `AdmissionInv` takes
it across admission, one lemma per kind of issue takes it from there to the
next state, and one lemma per task covers `finish_model`. `FinishFrame` and
`IssueFrame` state once what an action on one request leaves true of the
others; the `...Effect` lemmas state what the operations of VSKM and SSRC do.

On top of it, the second half of **SpecDecodeProofs** shows

* `Disciplined`: each kind of step changes a round only as the protocol allows.
  An action property: from `IndInv` and one lemma per action.
* `Implements`: the refinement of DecodeService. An admission is a number of
  `Take` steps at once in the code, which the service allows as one step; a
  VERIFY that commits is `Extend`, and every other step leaves status and
  length alone. `IndInv` is needed to show that a commit never passes the
  target and that the request finishes exactly there.
* `BatchStays`: the overshoot of the admission loop, by cardinality of the set
  of active requests.
* `BytesStay`: what VSKM and SSRC count is the sum over the rounds in flight.
  `BytesConserved` alone is not inductive because the code clamps at zero when
  it releases; `BytesInv` adds what every single region and reservation is, and
  the sum bounds each of them, so no clamp is ever reached.

### The parts the scheduler consults

* **PIMChannelProofs**: the invariant says that the queues are sequences
  without repetitions which partition the set of accesses in flight, that the
  window is within its entries and that the hold queue is ordered by deadlines
  no further ahead than the hold. `EachInOneQueue` follows by counting. A drain
  takes one access out of one place and adds it to another (`Taken`, `Added`):
  one lemma for each of these two moves covers all eight places.
* **ControlProofs**, EDC: `EdcOK` states at once that the register counts the
  pending predictions, that the pointers are that many slots apart and that
  only those slots of the two histories differ. One lemma per operation
  (`PollOK`, `UpdateOK`) and one for the loop of polls of a round, by induction
  on the number of polls. `PendingBounded` sums over requests: any
  verification clears the list, so only the sum is bounded.
* **ControlProofs**, TVC: the progress register is a difference of the counters
  of two objects; the invariant orders the two (`ClocksAgree`). The decision is
  recorded with the tables it was made from (`DecisionStands`), and
  `DecisionFits` shows the inequality for any samples in the tables: the
  averages are ratios, handled by cross-multiplication.
* **ControlProofs**, the parts of the PIM device: `NoDrift` is inductive once
  the counters are known to be natural; the arithmetic (`RoundUp`) is the work.
  `MappingStays` goes up the fields of an address: the lowest k fields
  determine the address modulo 2 to their total width (`PartsDetermine`), each
  scheme takes every field once and their widths add up to the address
  (`SchemeOK`), and the bank of scheme 8 is put together from two fields that
  can be read back (`BankOK`). `TasksServed` needs the queue to hold
  consecutive submissions with the active one at its head, the busy ranks to be
  those of the active task, and `left + ran` to be what the task asked for on
  each of them; it assumes that the cycles of a job fit a rank's counter (the
  code assigns a `uint64_t` to a `uint32_t`: a longer task is truncated,
  `GatedTaskScheduler.h`).

### Serving

**ServingProofs**: that a cache follows the computed tokens cannot be read off
the tables alone, because the tokens of a pass are fixed when its model is made
and counted when the model leaves the scheduler's queue, many actions later.
`ServingInv` has therefore two parts. `LangOK` says that every request of the
trace is waiting, active or done, in the order of the trace, and that its record
agrees with the trace and with what was computed (`RequestOK`, `EndOK`).
`OneBatch` and `Computes` say that of all models, registered or queued, at most
one is a language model, and that its inputs still are the records of the
requests in it. One lemma per operation takes both on: `AdmitOK`,
`InitInputsOK` and `FinishModelOK` for the language scheduler, `RetireOK`,
`StartOK` and `LaunchOK` for the models. A call of `handle_model` launches every
due model; `LaunchedOK` is the induction over them, in any order, of which those
still to be launched stay registered. `BatchBound` is part of the invariant;
the room for one more request than the batch under the iteration level
scheduler appears in `AdmittedIs`. The graphs of the models do not matter to
these proofs; `ShapesAgree`, which is about them, is only model-checked.

### The tile schedulers

**TileSchedulerProofs**: `remain_tiles` of an active layer is set once to the
length of a queue and then counted down, while the tiles move through the
shared queue, the queues of the cores and the cores. That the two agree needs
every tile to be in one place (`Apart`), the queue to be empty when a layer is
put into it (what `refresh_status` tests), and a layer not to be started while
its tiles of the last time are under way, which in turn needs the order in
which a layer is waiting, executable, active and done (`Ordered`). A model that
runs again (`check_regressive`) starts over with all its layers not done, so
its tiles must be gone when it leaves: `Outside`. `Sound` is these together
with what the simple policy and the spatial split add (`PolicyOwn`). It is a
statement about a scheduler state `s`, the tiles `X` at the cores and the
models `W` still to be launched, because the handlers are functions on
scheduler states: `FinishTileSound` takes `X` to `X` without the tile,
`GetTileSound` to `X` with the one handed out, `ScheduleModelSound` takes the
model out of `W`. All of them end with `refresh_status`; `RefreshSound` has one
lemma per policy, and the loops (`IssueTilesSound`, `RetireAllSound`,
`RefreshDedicatedSound`, `RefreshSplitSound`) are inductions over their rounds.
For this the model writes its loops as recursive functions. `TileInv` is
`Sound` of the scheduler with what runs on the cores and what waits there;
`InFlightIs` then counts the places, as sums of the sizes of sets without a
common member (`SumOfSizes`).

Under the spatial split `finish_tile` erases the request's queue
(`Scheduler.cc:494`), and with a model that branches this loses tiles
(finding 4). The theorems are therefore about configurations in which the models
run by the spatial split do not branch (`SplitUnbranched`: whenever a set of
layers is done, at most one further layer of the model has its inputs in it);
then the erased queue is empty (`NothingDropped`). The other three policies need
no such hypothesis. The configurations of `npu` satisfy it.

### The memory system

**MemSystemProofs**: that answers come once and in order is a property of the
whole way of an access, not of the queue of answers. `Flat` lays a transport
out as the eight queues an access passes, from the answers of its core (stop 1)
back to the core's requests (stop 8); the entries of the interconnect and of
the memory, which also carry a destination and a delay, are reduced to their
accesses (`Carried`). `MemInv` says of every queue that its accesses belong
there and have the right direction (`Routed`) and are ones that were asked for,
with the address the program gives them (`Known`), and of every core and
channel that the numbers of its accesses, read along the way, are all different
and, with the simple memory, rise (`Ordered`).

`WayStep` is the heart: eight queues of numbers in a row, each of which may
lose one number and gain the one its successor lost, stay ordered; if the
memory may serve any access, the numbers still stay different. `FlatStep` lifts
it to accesses, and one lemma per part of `Simulator::cycle` shows that the
part is such a step: `RequestOK`, `DramCycleOK`, `CorePortOK` and
`MemoryPortOK` (taken together over all ports by `PortsOK`) and `IcntCycleOK`.
Two answers on different channels differ because equal numbers mean equal
addresses and the channel is a function of the address. That no head waits
longer than a round needs `TurnsOK`: the turns lost and the turns still to come
add up to less than the number of nodes. The bound holds from any `_rr_start`
that is a node, which is how the model reads the uninitialised member.

### The memory controller

**PIMMemoryProofs**: none of the three parts of `ChannelExact` is inductive. The
invariant is `Channel(m, s, d, nx)`, of a channel m, the requests issued and
answered so far and the next one of the client; its parts are

* `Tabled`, for the exits of `Rank::checkBank`. Controller and ranks keep two
  tables; a command changes the controller's when it is sent and the rank's one
  cycle later. What the two are compared by is therefore the rank's table *once
  the command on the bus has reached it* (`Pending`): each of its delays is at
  most one cycle longer than the controller's (`Behind`), which the cycle on
  the bus makes good. An access to a reserved row reaches the controller's
  table only; the rank has no demand on it (`ReservedFollows`). A lemma per
  command (`ReadFollows`, `WriteFollows`, `ActFollows`, `PreFollows`,
  `RefFollows`) compares the two updates; `NotRefused` is the conclusion.
* `BusOK`, for the data bus: the data of the writes are at least a burst apart
  (`Spaced`), and an open bank does not become writable before the last of them
  has its place (`Awaited`).
* `Lines`, for the order of issue: the requests stand in the transaction queue
  and the queues of the ranks in the order they were taken, the first one that
  fits is the first of its rank (`FirstFit`), and whatever an issued request
  depends on was issued before it (`IssuedOK`). An access that `Free` lets pass
  depends on nothing that stands before it (`IssueLines`).
* `Way` and `Owed`, for the counter and the returned data: the datum of a read
  is in one place; `numOnTheFlyTransactions` is what was taken less what was
  answered (`Books`). The controller answers the *first* pending read of the
  cell, which need not be the one the datum was fetched for. So the invariant
  does not pair data with reads; it counts, for every cell, at least as many
  pending reads as data under way (`Enough`), so that every datum finds one
  (`ReturnOwed`). When the counter is zero nothing waits anywhere
  (`NothingOwed`), also not in `pendingTransactions` (`Behindhand`).

`MemorySystem::update` does nine things in a row; one lemma per part takes the
invariant through it (`RanksPart`, `DrainPart`, `BusPart`, `DataPart`,
`PopPart`, `QueuePart`, `EndPart`). After `Pop` the tables are only right once
the cycle has ended, which is what `Ready` says.

`ChannelExactHolds` has a hypothesis on the timings, `DeviceTimes`, which
`ini/HBM2_samsung_2M_16B_x64.ini` satisfies (`tCMD` 1, `tWTRS` 4, `tWTRL` 9,
`BL`/2 = 2, `tRCDWR` 10, `AL` 0) and which TLC evaluates for the timings of
`pim_device`. Configuration.h does not check it, and each part is needed for
what the controller leaves out: it does not look whether the command bus is
free, it waits for `tWTRL` after a write in every bank group (the ranks tell
`tWTRL` and `tWTRS` apart), and it does not space a write behind a row
activation from the data still on the bus. With `tCMD` 2, with `tWTRS` 5 over
`tWTRL` 2, or with a burst half of 3 over `tRCDWR` 1, TLC finds a run of six
requests that ends in `panic`.

### Shared facts

**DataFacts**: sums over finite sets (`SumOver` and taking one element out),
the length of a sequence without repetitions against the cardinality of its
elements, products, quotients and powers of two. They are proved by taking a
smallest counterexample, since the induction theorems of the library take an
operator as a parameter.

### What the proofs assume

The named assumption of each module (types and ranges of the configuration, a
positive batch size, the caps that the model puts on unbounded counters), which
TLC evaluates for the values of the runs, and four hypotheses stated in the
theorems: the cycles of a gated task fit a rank's counter (`TasksServed`), the
schemes of the address mapping are the eight of the enumeration (`MapSpec(1 ..
8)`), a model run by the spatial split does not branch (`SplitUnbranched`) and
the timings of the memory satisfy `DeviceTimes` (see above for both). The
assumption of TileScheduler says what `initialize_model` makes: the layers of a
model read from layers of the same model, `Outputs` lists the readers of a
layer, every model has a layer and every layer a tile (an operation without
work queues one that is skipped).

### Only model-checked

* Everything under fairness (`OverlayCompletes`, `OverlayRecovers`,
  `OverlayTasksFinish`, `NpuFinishes`, `PIMServes`): liveness and ENABLED are
  outside the prover.
* What a recursive function over data computes for every input: tile programs
  (Operations), folds over graphs (ModelGraph, and with it `ShapesAgree`),
  kernels (PIMDevice). Operations and PIMDevice declare RECURSIVE operators.
* `LinesApart`, for the powers of two: its tables of bit positions are finite,
  and the run goes through them. What the hash does with them is proved only to
  be a number (`HashNat`), which is all the order of the answers needs.
* `CoreSafe`: not a theorem about all programs. Finding 6 is what came of the
  attempt to prove it.

## 5. Findings

1. *Rank mode* (`SpecDecodeScheduler.cc:271`): a switch is requested when the
   task's mode differs from the mode this request last asked for; the ranks are
   shared. With two requests a DRAFT is issued with the ranks in target mode.
2. *Hold queue* (`Simulator.cc:353`): an access parked by one switch keeps its
   own deadline and enters DRAM during the next switch, against
   `PIMBackend.h:77`. The obvious repair has a price: if parked accesses waited
   for the channel's current hold, requests that keep switching could starve
   one (mutant `HoldDrainExtended` of `OverlayTasksFinish`).
3. *SSRC bypass* (`PIMBackend.cc:136`): the KV writes of the VERIFY of a
   deferred round are absorbed like those of its drafts.
4. *Spatial split* (`Scheduler.cc:494`): `HalfSplitScheduler::finish_tile`
   erases the tile queue of the request when a layer finishes. With a model
   that branches, the next layer's tiles may be in that queue already: they are
   destroyed and the model never ends.
5. *Accumulation* (`Core.cc:83`): two tiles of one accumulation run at once on
   one buffer. When the operands of the later one arrive first, its MOVOUT,
   which tests only that the entry is valid, sends the sum without the earlier
   tile's part. The timing model loses a dependency; no data is simulated.
6. *Late bias* (`Sram.cc:72`, `Core.cc:77`): `Core::issue` gives an accumulating
   tile the buffer of the one tile that runs. With several outputs on a core
   (the N and M loops of `GemmWS.cc:46`) that can be the tile that ends the
   output before: the tile it accumulates on was issued beside that one, on the
   other buffer, and has left first. `Core.cc:84` says that an accumulating tile
   uses the same buffer. And the GEMM does not wait for its bias, so the first
   tile of an output can leave with those reads outstanding; as nothing keeps
   its buffer, the third output's tile flushes it, and the answer fails the
   assert of `Sram::fill`. (`AccumKeepsBuffer` states the cause; TLC refutes it
   with the configuration of `core_late_fill`.)
7. *Entropy history* (`SpecDecodeScheduler.cc:624`, `EDC.h:198`): a PRE_VERIFY
   whose prefix is accepted commits EDC's whole working history, the polls of
   drafts that the later VERIFY rejects included, although
   `SpecDecodeScheduler.cc:607` says of it "We DO NOT commit here". The
   rejection then restores a history that contains them, against
   `docs/HardwareComponents.md:82` ("Stores verified entropy history") and
   `:84` ("Rollback: Restored on rejection"). The EDC is shared, so the
   accepted VERIFY of one request commits the polls another one has pending in
   the same way, also without pre-verification. What the documents say is true
   only of a single request without pre-verification; what holds always is that
   the committed and the working history differ in the pending polls alone
   (`HistoryAhead`).

### Observations

Things met while translating that no run is about; the models do what the code
does.

* Speculation: TVC clamps the pre-verification length to at least 1 after its
  division, so one that does not fit is inserted all the same (`TVC.h:160`);
  `start_npu_task` resets the NCR just before the decision that reads it
  (`SpecDecodeScheduler.cc:342`), so the progress is 0 at every decision.
  `docs/HardwareComponents.md` describes an LLR
  that is decremented by a verification; the code resets it, and the mutant
  `UpdateDecrements` shows that the documented form would let the LLR and the
  pending predictions drift apart.
* Memory: with 3, 5, 6, 9 to 13 or 15 channels two lines can share a channel and
  an address in it: `hash % _n_ch` takes any count (`Dram.cc:11`), but the bits
  removed from the address are the truncated `log2` of the count
  (`Dram.cc:146`, `:170`). The shipped configurations have 1, 2, 8, 16 or 32.
* Uninitialised or without effect: `_rr_start` (`Interconnect.h`) and
  `_last_finish_cycle` (`Dram.h`) are read before they are written;
  `target_core = target_core` (`Operation.cc:100`) and `_scheduler_config =
  _scheduler_config` (`LanguageScheduler.cc:46`) assign to themselves;
  `active_task_` of GTSU points into a vector that grows
  (`GatedTaskScheduler.h`) and is used only to set a flag nobody reads.
* Serving: `current_length` is not bounded by `max_seq_length`
  (`LanguageScheduler.cc:136`); only the simple tile scheduler calls
  `finish_language_model`; a memory check that fails ends the program;
  `check_regressive` tests equality, so a pass that starts beyond its output
  length repeats without end (`Model.cc:227`).
* Graphs: NCHW becomes NHWC only for a single square input (`Model.cc:90`);
  with tensor parallelism above 1 some assumed dimensions differ from their
  tensors; `allocate_address` may overflow 32 bits (`Tensor.cc:106`).
* Mappings: when a dimension is spread over so many tiles that one gets less
  than the array, rounding down gives an inner size of 0, and a division by it
  (`Mapping.cc:105`); the order of `LoopCounts` ignores the target core
  (`Mapping.h:27`); the split of a kernel in `ConvWS.cc` is not cut at its end,
  and the input offset ignores the stride.
* Tile programs: BiasAct reads its bias past the tensor (`BiasAct.cc:131`), its
  tokens per tile wrap when a row fills the scratchpad, and a gated one stores
  as many elements as it read; SkipLayerNorm and Softmax store to their input
  addresses; the constructor of MaxPool queues a tile that `initialize_tiles`
  queues again; in `Attention.cc` the keys of a later block are addressed as
  those of the first (:370) and the output rows of a query block follow the
  block of keys (:550); its assert (:361) excludes some grouped-query shapes; a
  grouped convolution aborts.
* Memory: `running()` of interconnect and DRAM is always false, the cores alone
  keep the simulation going; channel counts above 16 other than 32 and 64
  abort.
* PIMSimulator: a barrier asked for when the transaction queue has just become
  full is dropped silently (`MemorySystem.cpp:197`); nested JUMPs share one
  counter, and a program without EXIT runs past the command registers
  (`PIMRank.cpp:504`).

## 6. Not modelled, and why

* `SSRCCoordinator::abort_request`, `EDC::reset`, `TVC::reset`,
  `TVC::conservative_preverify_decision`, `PIMBackend::schedule_hold`, the
  matmul path of `ConvWS.cc`: nothing calls them. Barrier tiles: nothing that
  is switched on makes one.
* Statistics, logs, round traces, energy: written and never read back.
* The acceptance sampler: random numbers and a CSV file; its result is clamped
  by the caller and is a nondeterministic choice here.
* The float formulas of VSKM's cost estimates: a positive number.
* FP16 (`half.h` is vendored) and the kernels of the AAU: arithmetic without
  state; PIMDevice computes with small integers.
* The fused attention tiles of the ONNX path, pooling fused into a convolution,
  dilations and the NCHW layout: variants of tile programs that are modelled.
* Plain DRAM channels of Simulator (no window, no hold, no bypass): a FIFO.
* The scheduler's fallback when no target model is attached: LangScheduler's
  `cycle`, which Serving models.
* The per-bank queues of PIMSimulator and its activation-window counters, which
  the code never feeds.
* Booksim and Ramulator (third party: MemSystem has an external memory that
  answers in any order), ONNX parsing, the command line, the scripts.

## 7. Plan

Done: the models of all components listed above; the proofs about the
scheduler, its refinement of DecodeService, the PIM channel, EDC, TVC, address
mapping, clocks, gated tasks, serving, the tile schedulers, the memory system
and the memory controller. What remains is listed under "Only model-checked".
Of that, one thing is in reach of the prover: `CoreSafe` for cores that run one
accumulation at a time, which finding 6 gives as the hypothesis to start from.
