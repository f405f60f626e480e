# Verification of MIMDRAM's memory path in TLA+

MIMDRAM computes inside DRAM. Programs issue *row operations* (AND, OR, NOT, XOR of
whole 8 KB rows, and the primitives AP and AAP they are built from). In this
repository they are x86 instructions simulated by a modified gem5: the CPU sends a
row operation as an uncacheable store with a payload of three addresses, the caches
flush the rows it names, and the DRAM controller queues it among the writes and
issues a sequence of activations and precharges. This directory holds TLA+
specifications of that path, from the load/store queue to the array of a bank, of the
kernels that run on the array, and of how the simulator brings all of it to rest.

## 1. The system

| Part | Where | State | Operations | Hard behaviours |
|---|---|---|---|---|
| DRAM controller | `gem5/src/mem/dram_ctrl.cc` | read, write and response queues; `isInWriteQueue`; `pendingRowOps`; bus direction; two events; two retry flags; drain state | `recvTimingReq`, `processNextReqEvent`, `processRespondEvent`, `drain`, `drainResume` | split and merged packets, back-pressure and retry, starvation, lost wake-ups, draining |
| DRAM ranks and banks | same file, classes `Rank`, `Bank` | open row and three earliest ticks per bank; activation window; power and refresh state; four events per rank | `activateBank`, `prechargeBank`, `apBank`, `aapBank`, `doDRAMAccess`, refresh and power handlers | two state machines driven by one event queue; same-tick events; a refresh that waits for a request |
| Row operations in the array | `doDRAMAccess`, `dram_ctrl.hh` | data rows, constant rows, B-group | the command sequence of each operation | destructive reads, aliasing rows |
| Functional memory | `abstract_mem.cc` | contents | `access` | must agree with the array |
| Event queue | `sim/eventq.cc` | list of bins | `schedule`, `reschedule`, `serviceOne` | last in, first out within a tick |
| Drain manager | `sim/drain.cc`, `python/m5/simulate.py` | state of every object, a counter | `tryDrain`, `signalDrainDone`, `resume` | several rounds; an object that has drained gets new work |
| Packet queues, coherent crossbar, simple memory | `mem/packet_queue.cc`, `xbar.cc`, `coherent_xbar.cc`, `simple_mem.cc` | deferred packets; layers; a busy memory and its responses | `schedSendTiming`, `sendDeferredPacket`, `tryTiming`, `succeededTiming`, `failedTiming`, `releaseLayer`, `recvRetry`, `recvTimingReq`, `dequeue` | refusals and retries in both directions, everyone waiting on everyone |
| Caches that share a crossbar | `mem/cache/cache.cc`, `base.hh`, `mshr_queue.cc` | blocks, MSHRs, write buffer | `recvTimingReq`, `getNextMSHR`, `sendDeferredPacket`, `recvTimingResp`, `handleSnoop` | a refused write-back that a snoop takes away; a retry with nothing to send |
| FR-FCFS | `reorderQueue`, `minBankPrep` | none of its own | choice of the next packet | bank masks, hidden preparation |
| Translation of row operations | `cpu/translation.hh`, `cpu/base_dyn_inst.hh`, `cpu/simple/timing.cc` | three outstanding translations, three faults | `finish`, `getFault`, `writeMem` | completion in any order, partial faults |
| Load/store queue | `cpu/o3/lsq_unit.hh`, `lsq_unit_impl.hh` | load and store queues, one stalled load, one refused store | `executeLoad`, `executeStore`, `checkViolations`, `writebackStores`, `squash`, `completeStore` | speculation, forwarding, loads that overlap a row operation |
| Cache flush | `mem/cache/cache.cc`, `base.hh`, `mshr_queue.cc` | blocks, miss queue, write buffer | `access`, `recvTimingReq`, `getNextMSHR`, `recvTimingResp` | order of write-backs, misses and the operation; a full write buffer |
| x86 instructions | `arch/x86/isa` | none | decoding | none |
| Bit-serial kernels | `microworkloads` | rows | straight-line programs | destructive reads, carries |
| Compiler pass | `llvm-pim-pass` | IR graph | analyses and rewriting | recursive analyses on cyclic graphs |

The controller and the ranks interact in three places: a refresh that falls due looks
at the controller's request event and last rank (`dram_ctrl.cc:1782`); the request
event lets waiting ranks go on (`1411`, `checkDrainDone`); and the end of a refresh
starts the request event again (`1961`).

## 2. Modules

| Module | Models |
|---|---|
| `DRAMCtrl` | the controller: queues, bus, events, retries, draining; ticks abstracted |
| `DRAMTiming` | banks, ranks, bus and event queue, tick by tick; queues abstracted |
| `RankRefresh` | abstract: what the request loop and the refresh loops promise each other; implemented by both of the above |
| `AmbitRowOp` | the command sequences on the rows of a subarray |
| `RowOpMem` | abstract: `AbstractMemory::access` in one step; implemented by `AmbitRowOp` |
| `FRFCFS` | `reorderQueue` and `minBankPrep` in the states of `DRAMTiming` |
| `Subarray` | the rows, cells and wordlines of a bank and the commands AP and AAP; used by `AmbitRowOp` and `Kernels` |
| `Kernels` | twenty bit-serial kernels as programs of commands |
| `DrainManager` | the drain manager and the script, for any objects |
| `Interconnect` | caches that snoop each other, crossbar and memory, which drain together; extends and implements `DrainManager` |
| `RowOpPath` | load/store queue, data cache and memory, composed |
| `Queues` | `erase`: taking an entry out of a queue |
| `QueueLemmas`, `DRAMCtrlProofs`, `DrainManagerProofs`, `AmbitRowOpProofs` | proofs |
| `MCDRAMCtrl`, `MCDRAMTiming`, `MCAmbitRowOp`, `MCKernels`, `MCInterconnect`, `MCRowOpPath` | instances for TLC |

**`DRAMCtrl`.** One variable per member of the class; an event is a Boolean, scheduled or
not, and any scheduled event may fire next. `processNextReqEvent` is one action with one
disjunct per way through the handler: all ranks busy (1422), nothing to do (1471),
turning to writes (1465), no read or no write to an available rank (1499, 1561), a read
served, a write or row operation served. Each disjunct includes the handler's tail,
rescheduling itself and the retry to a refused writer (1600-1612). A packet is one or two
pieces of bursts; a piece is a burst address and the set of units of it that it covers,
which is what merging and forwarding from the write queue compare. `chooseNext` picks the first
packet to an available rank (FCFS), or any of them (FR-FCFS): without ticks the model cannot say
which one FR-FCFS prefers, and allows more choices than the code has. What holds for all of them
holds of the code; the two claims that are refuted are refuted under FCFS. The peer that holds a
refused packet is external. Packets the controller drops (638-643) change no modelled
state. `writesThisTime` is capped at `minWritesPerSwitch`, the only value it is compared
with.

**`DRAMTiming`.** Handlers call each other, so each is an operator from a record of the
controller's state to the next; an action takes the head of the event queue, moves time to
it and commits what its handler returns. Ticks are stored relative to the current tick and
a tick that is over is stored as 0, so the state space is finite without a bound on time.
The event queue keeps gem5's order: by tick, and within a tick the youngest first. A packet
from another object cannot overtake an event that a handler has just scheduled for the
current tick (`fresh`). Asserts, panics and fatals are recorded in `fault` and execution
goes on. The page policies are a free choice whether to precharge after an access.
`numBanksActive` is the number of banks with an open row.

**`FRFCFS`.** An operator that returns the place of the chosen packet or 0, as
`reorderQueue` does, with its first ready row hit, its seamless bank and its earliest bank.
The order in which banks appear in the mask is an argument. The property quantifies over
all queues of up to `MaxQueue` packets in every state in which the request event fires.

**`Subarray`, `AmbitRowOp`.** The array is outside the program: opening cells yields their
majority, which is restored into every open cell, inverted through the N wordlines. The names
and combinations of wordlines are those of class `Bank`. `AmbitRowOp` issues the commands of
`doDRAMAccess` one at a time.

**`Kernels`.** A program is the sequence of commands its loops unfold to for a given
`col_length`, for all operands and any content of the rows and cells nothing initialised. The
loop that runs the kernel twice is kept. The loops over the rows of a vector repeat a command
for other columns and are left out.

**`DrainManager`, `Interconnect`.** In `DrainManager` an object answers freely whether it is
drained. `Interconnect` supplies the answers of the caches' MSHRs and write buffers, the packet
queues, the layers of the crossbar and the memory. An event is the tick at which it is due, relative
to the current one, or `MaxTick`; each event is one action with everything its handler calls, such as
a layer that is released and lets the next port send. A `fault` marks a failed assertion.

A cache keeps its misses in `mshrQueue` until they are sent and in `inService` until they are
answered, and its evictions in `writeBuffer`. Its request queue is always empty: the queue only has
the send event and the wait for a retry, and what is sent is chosen when it can be sent (`sendRequest`,
which is the cache's own `sendDeferredPacket`, cache.cc:2470). So a refused packet may be gone when
the retry comes. The packets of the snoop and response queues are kept and sent by
`PacketQueue::sendDeferredPacket`. A request that the crossbar takes is snooped by all other caches at
once, even if the memory then refuses it: the one that has the line dirty, or is about to write it
back, answers through its snoop queue, and a `ReadEx` takes the line from all of them. A fill may evict a line, dirty or
clean, and the eviction goes into the write buffer.

**`RowOpPath`.** A program of loads, stores and one-source row operations, chosen at the start.
Each instruction has a status (idle, executed, stalled, to be replayed, sent, done or completed). The
cache holds blocks, a queue of misses and writes in order of arrival, and the misses in
service. The actions are `executeLoad`, `executeStore`, `commit`, `refetch` (a squash for
other reasons than memory order), `writebackStores`, `recvReqRetry`, `sendDeferredPacket`,
`accessAndRespond`, `recvTimingResp` and `completeStore`. A squash fetches the same
instructions again. Translation is immediate and succeeds, as in syscall emulation.

**`RankRefresh`** and **`RowOpMem`** are abstract specifications; every step of the detailed
ones is one of theirs or leaves their variables alone. `RowOpMem` remembers which operation
is in progress, so it admits only that operation's result.

## 3. Runs

| Run | Configuration | Checks | States |
|---|---|---|---|
| `controller` | `MCDRAMCtrl.cfg` | ten invariants, `DrainedMeansEmpty` | 2,407,294 |
| `controller_liveness` | `MCDRAMCtrlLive.cfg` | five liveness properties, `RefreshProtocol` | 50,012 |
| `merge_claim` | `MCDRAMCtrlMerge.cfg` | `OneWritePerBurst`, violated | |
| `starvation_claim` | `MCDRAMCtrlStarve.cfg` | `WaitingReadsGetTheBus`, violated | |
| `timing` | `MCDRAMTiming.cfg` | six invariants, `ReorderFindsBest`, two action properties | 29,044 |
| `timing_ranks` | `MCDRAMTimingRanks.cfg` | `RefreshUndisturbed`, `RefreshProtocol` | 285,686 |
| `row_operations` | `MCAmbitRowOp.cfg` | `ComputesRowOp` | 119,744 |
| `kernels` | `MCKernels.cfg` | `ComputesBaseline`, `ComparesWithZero`, `WithinAllocation` | 772,864 |
| `select_claim` | `MCKernelsSelect.cfg` | `SelectsByBit`, violated | |
| `drain` | `MCInterconnect.cfg` | `NoPanic`, `HandlersExpected`, `DrainedMeansQuiet`, `ManagerProtocol`, `DrainEnds` | 225,983 |
| `rowop_path` | `MCRowOpPath.cfg` | `WritesInProgramOrder`, `QueuesExpected`, `EveryInstructionCompletes` | 436,560 |
| `load_order_claim` | `MCRowOpPathLoads.cfg` | `LoadsInProgramOrder`, violated | |

What they show, each property with its comment in the module:

* The request loop never sleeps with work to do (`NoLostWakeup`), a refresh never waits for
  an event that is gone (`RefreshWaitIsWoken`), the bus is never on writes with nothing to
  write (`WriteTurnHasWork`), a refused packet always has a departure that will free it
  (`RetryWillCome`), and a split read is answered once (`BurstsAccounted`).
* `pendingRowOps` is exact (`RowOpsCounted`), a write is merged only with a write that is
  still queued (`NoPhantomMerge`), buffers keep their limits, and the controller says it is
  drained only when it is.
* Reads are answered unless row operations never let up, row operations always get the bus,
  refused packets are accepted, refreshes and drains end.
* No command sequence breaks the bank protocol, the activation window or the bus; a refresh
  finds its rank quiet and leaves it so; power state and banks agree; the bus is never given
  back early although a row operation overwrites `busBusyUntil` (1212); a refresh never moves
  an activation forward although it overwrites `actAllowedAt` (1861).
* Each command sequence computes the operation `access` computes, atomically as far as data
  rows can tell, whichever rows alias and whatever the B-group held.
* The scheduler returns a packet whenever one goes to an available rank, and none that another
  queued packet should have preceded (`ReorderFindsBest`).
* Eleven kernels compute what their baselines compute, twice in a row, and `relu` and the bit
  counts do so within limits (below); the two comparisons with zero take their operand as a signed
  number (`ComparesWithZero`); no kernel opens a row it did not allocate.
* The caches, the crossbar and the memory hand over, refuse and retry packets without ever failing an
  assertion: at most one cache answers a snoop, no response comes for a line that waits to be written
  back, and a retry whose packet a snoop has taken away does no harm. A drain ends although objects
  that have drained get new work, and then nothing is under way. `Interconnect` implements
  `DrainManager` (`ManagerProtocol`).
* Stores and row operations take effect in program order, wherever the cache held the operands:
  the flush leaves before the row operation, and no older block is written over its result. The
  reserve of the write buffer takes a whole flush, and no stalled load or refused store is
  forgotten.

Four runs show that a comment and the code disagree:

* `merge_claim`: `dram_ctrl.hh:710-712` says a burst address is never queued twice. Serving a
  row operation erases its destination's first burst from `isInWriteQueue` (1580) although
  it never inserted it. A write to that burst that was queued behind the row operation is
  forgotten, and the next write to it is queued again. Data are not affected (`access` happens on arrival); merging and the
  forwarding check are.
* `starvation_claim`: the comment at 1583-1586 says that waiting reads get the bus after enough
  writes. The condition at 1587 requires `pendingRowOps == 0` first.
* `select_claim`: `60_if_then_else-plus.c:42` says the output is `s ? vals1 : vals2`. Line 56
  overwrites T3, which holds `vals1`, before it is used; `min` and `max` have the same code.
* `load_order_claim`: `lsq_unit_impl.hh:667-668` says that a store that executes finds the younger
  loads that match its address. A row operation has address 0, so a younger load from its
  destination that has already executed is not found and commits the old value.

Departures that the properties exclude by name, with the reason in their comments:

* `abs` (`50`, lines 67-68) loses its operand as `if_then_else` does.
* `relu` (`51`, line 76) writes a constant into the operand's sign row instead of the output's, so
  the output's sign row is never written and the second pass takes every value for positive.
* The baselines of `greater_equal_0` and `greater_than_0` compute something else: one asks whether an
  unsigned number is at least 0 (`35_greater_equal_0-baseline.c:11`), the other assigns where it
  should compare (`36_greater_than_0-baseline.c:11`). The kernels' own comments are the reference
  instead.
* A bit count of more than four rows (`91`, lines 104-109) takes row `left` twice and the last
  row not at all.
* `WritesInProgramOrder` requires that no load comes from the destination of an older row
  operation (`NotReadBack`). Misses are sent before queued writes unless their addresses conflict
  (`getNextMSHR`), and a row operation's is 0. Such a miss overtakes the row operation and leaves
  an old clean block in the cache. A later store to that block makes it dirty, stale words
  included.

### Bounds

*Controller.* Two ranks (one can refresh while the other serves), two bursts, one per rank,
two units per burst (a read may be covered by a queued write or not), packets of one and two
bursts, two reads in flight, read buffer 2, write buffer 3 with thresholds 1 and 2, so that
every threshold lies strictly inside the buffer and both queues can be full. The two reads
are symmetric. The liveness instance is smaller, has no symmetry, one-burst packets and FCFS.
`RetryWillCome` and `RefusedIsAccepted` hold because `writeLowThreshold` plus the bursts of a
packet does not exceed `writeBufferSize`; without that a refused two-burst write could wait
in front of a queue that is short enough to be left alone.

*Timing.* Parameters are a few ticks each, in the proportions of the configured devices.
`timing` has two banks of a bank group, two rows, ROWNOT (two AAP commands) and an activation
window of one, so that tXAW binds; `timing_ranks` two ranks of one bank, ROWAP and no bank
groups. Longer operations repeat the same commands; they lengthen the delay of a refresh.
`tREFI` is 16 and 13 ticks. That choice matters: `RefreshUndisturbed` needs `tREFI` to exceed
the longest time a request can hold off a refresh plus `tRP` and `tRFC`. With two ranks it
fails at `tREFI = 12`, where the next refresh, scheduled at `refreshDueAt + tREFI - tRP`
(1901), falls due before the current one has ended; the check at 1895 compares with `tREFI`
and does not notice. The configured devices have `tREFI` 7.8 us against well under 1 us, and
the result is about such devices. It also shows that refreshes follow each other every
`tREFI - tRP` ticks, as `refreshDueAt` is set when the refresh event fires.
`TimingAssumption` states what else the code relies on: `tRAS >= tRCD` and a row cycle not
shorter than `tXAW`. Of the devices in `DRAMCtrl.py` that limit activations, all but `DDR4_2400_x64`
(lines 557-566) satisfy it; the results are not about that one. The last-in-first-out order within a tick is modelled, but none of these
properties was found to depend on it.

*Row operations.* Three rows, so that the three operands may be distinct or alias, one column
(columns are independent), all six operations, all contents.

*Selection.* Queues of up to three packets (`MaxQueue`), all orders of the banks, every state of the
`timing` instance.

*Kernels.* One column. Lengths 2 to 4 take every branch on the parity of `col_length` and carry
through a first, a middle and a last bit; bit counts of up to 7 rows recurse into both halves.

*Drain.* Two caches and two lines: each cache has room for one line, so that a second fill evicts
the first, and for two misses and two evictions, so that one packet is in service or refused while
the next is queued. A cache waits for the layer while the other waits for the memory, which is
busy for longer (2) than it takes to answer (1). An eviction waits two ticks, so that the line misses
again, or is taken away by the other cache, before it is sent. Among the states reached are a retry
to a cache with nothing to send, a miss that waits for its own write-back, a request held back by a
snoop response, two responses in a snoop queue, and a memory that waits for a layer.

*Path of row operations.* All programs of three instructions on two rows of one line of two
words: two words, so that a store leaves part of a line to what the cache held; two rows, so that
a row operation may copy onto itself or from one to the other. One MSHR, so that the cache blocks;
two write-buffer entries, because with one the cache is blocked whenever a load could overtake a
queued row operation. One squash. The reserve is the smallest that `ReserveAssumption` allows. The
configured cache has 500 entries and a reserve of `mshrs + 1000`; a row operation of three rows of
128 lines needs 385.

### Fairness

A scheduled event fires (weak fairness of `processRespondEvent`, `processNextReqEvent`,
`refreshPrecharge`, `refreshDone`), since gem5's queue serves every event and time advances.
The peer answers a retry. All ranks start refreshing at the same tick and a refresh takes a
fraction of `tREFI`, so there are always moments at which no rank refreshes
(`RefreshTogether`) and request events that find them; without this an untimed model may have
a refresh begin just before every request event. That some rank is available again is not
assumed: `RefreshCompletes` shows it. While the controller drains, its peers drain too and
send nothing new (`QuietNext`).

`Interconnect`: the event loop serves the finitely many events of a tick and goes on to the next
(`Tick`), leaves when the exit event is scheduled, and the script repeats the drain until it
succeeds (`simulate.py:203`). The first conjunct of `Fairness` says that a tick ends; caches that
drain ask for nothing new.

`RowOpPath`: some action of the pipeline, the cache or the memory is taken as long as one can be
(weak fairness of `Step`). The squash, of which there are finitely many, is under no fairness.

## 4. Proofs

### The controller

`DRAMCtrlProofs` proves, for every number of ranks, bursts and reads,
every buffer size and threshold that the constructor accepts, every address map and both
policies:

`TypeOK`, `RowOpsCounted`, `WriteTurnHasWork`, `NoLostWakeup`, `RefreshWaitIsWoken`,
`NoPhantomMerge`, `WithinBuffers`, `ResponseScheduled`, `BurstsAccounted`, `RetryWillCome`,
`DrainedMeansEmpty`, and that `DRAMCtrl` implements `RankRefresh` (`RefreshProtocol`).

*Assumptions.* `AddressAssumption`, `SpanAssumption` (packets of at most two bursts) and
`BufferAssumption` (low threshold below the high one, high one within the buffer) in
`DRAMCtrl`. TLC evaluates them in every run of the controller. `RetriesCome` has a hypothesis of
its own, `PacketsFit`: a read fits into the read buffer, and a write into the write buffer above
the low threshold. The constructor does not check it; without it a refused packet may wait for
ever, and the configured buffers (64 entries, threshold one half) satisfy it with one-burst
packets as well as with large ones. So does the instance of `MCDRAMCtrl.cfg`.

*Argument.* The inductive invariant `Inv` is the conjunction of the invariants with one more,
`HelperWaits`: a `BurstHelper` has not reached its count. The parts need each other.
`WriteTurnHasWork` after a row operation is served needs `RowOpsCounted`: the handler stays
on writes because the counter is positive, and only the count shows that the queue is not
empty. `NoLostWakeup` after an early return without a packet needs that `chooseNext` fails
only when every queued packet goes to a refreshing rank (`ChooseNextFindsFree`), and needs
`WriteTurnHasWork` to rule out an empty write queue. `TypeOK` needs `HelperWaits` for the range
of `burstsServiced` and `RowOpsCounted` for `pendingRowOps - 1`. `NoPhantomMerge` survives
serving an entry because the entry's address is erased whatever kind it is. There is a
lemma per handler, and lemmas on `Kept`, on counting the row operations of a queue that grows
or loses an entry, and on `erase` (`QueueLemmas`). `DrainsCompletely` and `ProtocolKept` are step properties under `Inv`.

*Reads and retries.* `BurstsAccounted` is a count: the bursts of a read in the read queue and
in the response queue together are those its helper still expects. It is inductive with `Inv`
and `HeldWaits` (a refused read is not outstanding, so that accepting it starts from zero). The
lemmas say how the count changes when a queue grows by a sequence, loses an entry, or hands one
to the other queue. `RetryWillCome` is inductive with `RetryHolds`: while a flag is set the peer
holds the refused packet, so no packet is accepted meanwhile and only departures touch the queues.

### The drain manager

`DrainManagerProofs` proves that no panic of the drain manager is reachable (`NoPanic`) and that
its counter is the number of objects that still have to signal (`CountsDraining`), for any finite
set of objects (`ObjectsAssumption`), whatever they answer and in whatever order they signal. The
inductive invariant `Ind` ties the counter, the object states and the phase of the script to each
other: after `tryDrain` the counter is right only if it was zero before, and it was zero because
the loop is left only when nobody drains.

### The row operations

`AmbitRowOpProofs` proves that the command sequences implement the functional memory
(`ComputesRowOp`) for any rows, any columns, any contents and any aliasing of operands and
destination, from `RowOpAssumption` alone. The invariant says, for each point in each sequence,
what the B-group cells hold in terms of the operands as they were when the operation began:
`InMaj` for AND and OR, which differ only in the constant row, `InNot` and `InXor`. The data rows
are untouched until the last command, which is the one step of `RowOpMem`. A lemma per command
says what an activation of one, two or three cells leaves behind.

### Only model-checked

Liveness (fairness is out of the prover's reach); everything about `DRAMTiming` and `FRFCFS`, whose
properties rest on sums of ticks over an event queue; the kernels, whose code is a fold over
the length of the operands, so that a proof for all lengths is an induction over data; the
safety properties of `RowOpPath` and `Interconnect`.

## 5. Deliberately wrong variants

Operators marked `\* mutant` next to a definition are wrong forms of it: a dropped guard, a
forgotten reset, a swapped order. They are not used by the specifications; put in the place of
the definition, TLC finds the property named for it in `PROJECT.json` violated.

## 6. Not modelled

* Translation of row operations (`cpu/translation.hh`, `base_dyn_inst.hh`, `cpu/simple/timing.cc`). In
  syscall emulation the three translations end inside the call that starts them, and mapped rows
  do not fault. Only the page-table walker of full-system mode delays one, and only an unmapped
  source row meets `getFault`'s choice of fault, which is a hazard without a property.
* Switching between timing and atomic mode, with `suspend` and `startup`. A drain before a switch is
  modelled, the switch is not; it is the other hazard without a property.
* In the load/store queue: wrong-path accesses, split accesses, load-locked/store-conditional,
  strictly ordered accesses, several threads, and the dependence predictor, in whose place any ready
  access may execute.
* In the cache of `RowOpPath`: snoops and coherence states, further levels, prefetches, temporary
  blocks. The model has one core and one cache, where every valid block is writable.
* In `Interconnect`: two caches that miss on one line at the same time, and with them the snoops that
  an MSHR in service defers (`mshr.cc:315-408`); upgrades and stores that hit, prefetches, uncacheable
  accesses, the queue of responses to the cpu; snoop filters, crossbars and caches below this
  crossbar, and with them the snoop layers; routing to several memories; the atomic and functional
  paths; the panic of a queue of more than 100 packets (`packet_queue.cc:117`). In the drain manager: `preCheckpointRestore`.
* The kernel `bitweave` (`90`), which computes with a cell (T3) that nothing initialised.
* The compiler pass: a transformation of LLVM IR by recursive analyses, without a state of its own.
* The instruction descriptions, which hold no state; statistics, DRAMPower calls and tracing, which
  nothing reads back; the rest of gem5, which MIMDRAM does not change.
