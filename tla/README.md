# A verification project for emacz_zephyr

TLA+ models of the concurrent core of
emacz_zephyr: the Zephyr Ethernet driver for the emacZero
MAC with its two direct DMA rings and its path over Zephyr's DMA API, the two
AXI-Stream frame buffers that sit between the DMA and the MAC in the FPGA, the
protocol by which a host gives a board its address, and the UDP sink whose
counters a host reads while they change.  TLC checks the models on small
instances; TLAPS proves every safety property the runs check, among them the
three refinements, for every ring size, FIFO depth, word width, limit, number of
slots, set of threads and set of sessions.

`PROJECT.json` lists the components, the runs, the deliberate errors (mutants)
each property is tested against, the source lines every definition stands for,
the hazards, and the proved theorems.

Contents: [Inventory](#inventory) ·
[Modules](#modules) · [How the modules follow the code](#how-the-modules-follow-the-code) ·
[Runs](#runs) · [Fairness](#fairness) · [Findings](#findings) ·
[Proofs](#proofs) · [Not modelled](#not-modelled) · [Plan](#plan) ·
[Running it](#running-it)

## Inventory

Paths are relative to `src/`; `D` is `drivers/ethernet/eth_emaczero.c`.

| Component | State it keeps | Operations | What is hard | What makes it correct |
| --- | --- | --- | --- | --- |
| **Direct RX ring** (`D` 1017-1520) | descriptors, `rx_bd_buffer[]`, three ring indices, two counts, `rx_direct_ring_started`, the recovery flag and work item | refill/post/tail update, poll, interrupt, 1 ms poll, recovery, arm, start | four kinds of context interleave between short locked sections; the engine runs all the time; the engine may halt and must be rebuilt | a buffer has one owner; the posted slots are contiguous; the engine only ever sees posted descriptors; a completion and a halt are noticed; a dry ring comes back |
| **RX worker and hand-off** (`D` 549-645, 2198-2400) | three FIFOs, five owner counters | take, drop, copy, hand over without copying, destroy a fragment | a buffer travels through interrupt, worker, stack and application threads; a cap on what the stack may hold | no buffer lost or freed twice; each counter is off its population by the contexts between the two and by no other; the cap holds |
| **Direct TX ring** (`D` 868-1015, 1806-2050) | descriptors, two ring indices, `tx_bd_inflight`, `tx_lock` | reserve (reclaim and poll), fill, set up, publish; one packet, one raw frame, a burst | no completion interrupt; full and empty ring; a read that fails half way; burst descriptors share a buffer; a halted engine | frames leave in order and intact; the engine sees only armed descriptors; every call returns |
| **Generic DMA path** (`D` 757-840, 1543-1804) | the same FIFOs, `rx_dma_fifo`, `rx_dma_inflight`, TX indices | refill (reserve, take, program, queue, start), RX/TX callbacks, set up a TX slot | a refill is five steps and only the first is locked; four kinds of context refill; calls of the DMA API fail | a buffer has one owner, and the device writes into none that somebody else has; a completion goes to the buffer filled unless refills crossed; a channel nobody would refill has a descriptor; a slot with the device is not overwritten |
| **DMA memory, cache** (`D` 258-450) | two bump pointers | allocate at start-up, flush, invalidate | none after boot | regions disjoint |
| **Driver init, statistics** (`D` 2405-2607) | MAC registers, counters | init, `ethernet_api` | order of start-up | RX armed only when the pools exist |
| **Profile** (`eth_emaczero_profile.*`) | counters, a mode | count, reset, set mode | read by a host while written | – |
| **Store-and-forward TX FIFO** (`hardware/rtl/axis_store_forward.v`) | FIFO pointers, frame counter | one clock cycle | commit and retire in one cycle; two reasons to refuse input | the MAC never starves inside a frame; no lock-up; frames whole |
| **RX frame store** (`hardware/rtl/axis_frame_error_drop.v`) | slots, fill state, drain state, `full_count` | one clock cycle | fill and drain meet; RAM latency; error on the last beat; over-long frames | exactly the good frames come out; the MAC is never stalled inside a frame |
| **Other stream stages** (`axis_elastic_fifo.v`, `axis_async_fifo.v`, `axis_rx_stream_stats.v`) | FIFO pointers | one clock cycle | – | frames whole |
| **MAC wrapper** (`emaczero_axi_mii_wrapper.v`) | an AXI-Lite multiplexer | register access | two slaves behind one port | one response per request |
| **Provisioning** (`app/src/provision.c`, `scripts/emacz_config.py`) | address, transaction id, token, queue, mailbox epoch | discover, configure, mailbox poll, ingress | lost and repeated messages, two hosts, failed rollbacks, memory that outlives a reboot | a token is used once; host and board agree on the address |
| **UDP sink** (`app/src/main.c` 650-822, `scripts/read_perf_stats.py`) | counters and `sink_seq` in DDR | account, clear, host read | 64-bit counters are two words; a host reads while interrupt and threads write; memory outlives a reset | no torn read is accepted, no addition lost |
| **TX benchmark** (`app/src/main.c` 343-441) | a window on the 32-bit cycle counter | burst, pace, report | the window is looked at only between waits | it ends when its duration is over |
| **Application start-up, profile socket** (`app/src/main.c`) | – | sequential | – | – |
| **SoC support** (`soc/`, `hardware/rtl/vexriscv/`) | interrupt enables, fatal record, timer | irq control, idle, fatal handler, timer | memory that outlives a reset; 64-bit compare written in halves | first fault kept; no early timer interrupt |
| **Debug taps, scripts, tests, Zephyr patches** | – | – | – | – |

How they interact.  A frame from the wire passes the MAC, the **RX frame store**
and the S2MM DMA engine, which writes it to the buffer of the next descriptor of
the **RX ring** and raises an interrupt.  The interrupt (or the 1 ms poll on the
system work queue, which runs the same function) takes the buffer off the ring
and puts it on `rx_ready_fifo`; the **worker** wakes up, copies the frame or
hands the buffer itself to the network stack, and whoever frees the packet
returns the buffer to `rx_free_fifo` and refills the ring.  A frame to the wire
is copied by `emz_send` into the **TX ring** under a mutex, read by the MM2S
engine, and collected whole by the **store-and-forward FIFO** before the MAC
sees its first byte.  **Provisioning** and the **sink** hang on an interceptor
the driver calls from the poll.

The scheduling facts the models rest on, with their source:

* one CPU, so `k_spin_lock` is an interrupt lock (one
  hart in the boards' device trees);
* the RX worker and the system work queue are cooperative threads: no thread
  preempts them, interrupts do (`EMZ_RX_THREAD_PRIORITY` -1, `D`:107, and Zephyr's
  default for the work queue; the provisioning and sink threads, -3 and -2, are
  cooperative too, `main` and the profile thread are preemptible);
* `CONFIG_NET_TC_RX_COUNT=0` (`app/prj.conf`:34), so `net_recv_data` runs the stack inside the worker,
  and a packet may be freed there or later in another thread;
* the Ethernet driver owns both rings and the RX interrupt
  (`patches/zephyr/0002`, `0003`).

## Modules

| Module | Role |
| --- | --- |
| `EmzRxRing` | direct RX ring, work queue, worker, hand-off, recovery, and the S2MM engine as environment |
| `MCEmzRxRing` | symmetry and the bound for its runs |
| `EmzRxRing_proofs` | theorems about it: types, ring window, ownership |
| `EmzRxFlow_proofs` | theorems on top of them: counters, refill, publication, completions, recovery, the engine's window |
| `EmzTxPromise` | abstract: what the TX path promises its callers |
| `EmzTxRing` | direct TX ring, three entry points, the MM2S engine as environment; implements `EmzTxPromise` |
| `EmzTxRing_proofs` | theorems about it |
| `AxisFrames` | abstract: what a frame buffer between two AXI-Stream ports promises |
| `AxisStoreForward` | the TX FIFO, one step per clock cycle; implements `AxisFrames` |
| `AxisStoreForward_proofs` | theorems about it |
| `AxisFrameErrorDrop` | the RX frame store, one step per clock cycle; implements `AxisFrames` |
| `AxisFrameErrorDrop_proofs` | theorems about it |
| `EmzProvision` | the board's provisioning thread, its queue and mailbox, the configuration tool and a JTAG host |
| `EmzProvision_proofs` | theorems about it |
| `EmzSinkStats` | the sink's counters, their sequence number, and the host that reads them over JTAG |
| `EmzSinkStats_proofs` | theorems about it |
| `EmzDmaPath` | the driver over Zephyr's DMA API, both directions, the DMA device as environment |
| `MCEmzDmaPath` | symmetry for its run |
| `EmzDmaPath_proofs` | theorems about it |
| `EmzTxBench` | the benchmark's time window |

Definitions named `Slip...` are deliberate errors: each is a mistake the code
could plausibly contain (a dropped guard, an off-by-one, a missing reset), and
`PROJECT.json` says which definition it would replace and which property then
fails.  No specification uses one.

## How the modules follow the code

### EmzRxRing

*Contexts.*  `pc[c]` says where each of the contexts is: `isr` (the S2MM
interrupt), `wq` (the work queue: `emz_rx_direct_poll_work_handler` and
`emz_rx_direct_recover_work_handler`), `rxt` (`emz_rx_thread`), `boot`
(`emz_rx_direct_start`), and the threads of `Apps` that free packets.  `CanRun`
is the scheduler: an interrupt over every thread, a cooperative thread over
none.  `hold`, `ret`, `queued`, `completed` are each context's locals: its `rx`
pointer, where the refill returns to, and two booleans that stand for the
counters the code only compares with 0.

*Atomicity.*  A section under `rx_direct_lock` is one step, a `k_fifo` call is
one, and so is each register write.  Everything in between can be interrupted: in
particular post (1086-1113) and tail write (1062-1073) are separate steps, and so
are the two counter updates of a buffer that changes owner (1116 and 1143, 1235 and
1281, 2217 and 2218, 2353 and 2354), both from each other and from the FIFO call beside
them.  Only the first part of a recovery changes the counts in one step, with the
interrupt masked and no thread above it.

*What the owner counters promise.*  `OwnerAccounting`: each of the five is the
population it counts, corrected by exactly the contexts that stand between the FIFO
call and the update; their sum exceeds N by the buffers counted with both owners and
falls short by those counted with neither, never by more than 2 plus the number of
preemptible threads that free; and the stack's never passes its cap.  The code allows for
such transfers too (500-505) and counts only a drift beyond 8 as bad (506).  The sum is
that of one instant: the code reads the five words one after the other (484-490), and what
changes between those reads is not modelled.

*Ring.*  `bdBuf` is `rx_bd_buffer[]`; `armed` and `done` are what the engine and
the driver read of a descriptor, its length and its status; the indices and
counts keep their names.

*Shared functions.*  `Pop`, `PopEmpty`, `Post`, `PostRefused`, `PostCount`,
`PostUncount`, `PutBack`, `UpdateTail` are `emz_rx_direct_refill` and what it calls,
run by every context; `Give` and `PutFree` are `emz_release_rx_buffer`; `PollTake`,
`PollIdle`, `PollOrphan`, `PollUncount`, `PollCount`, `PollReady`, `PollIntercept` are
one turn of `emz_rx_direct_poll`'s loop; `WorkerGet`, `WorkerUncount`, `WorkerCount`,
then `WorkerRelease`, or `WorkerZeroCopy` and `WorkerHandOff`, are one of
`emz_rx_thread`'s; `IsrRead`, `IsrAck` are the interrupt up to the poll; `WqRecover`, then a
refill, `Arm`, `IrqEnable`, `RecoverClear` are `emz_rx_direct_recover`.  The first
part of the recovery is one step: the interrupt is masked and the work queue is
not preempted by a thread.

*Engine.*  `EngineComplete`, `EngineBadDescriptor` and `EngineFault` are the
S2MM engine as the driver's comments describe it (1025-1029, 1042-1044,
1346-1348): it works from its current descriptor through the tail inclusive, then
idles one past it; a bad descriptor or a bus error halts it and raises the error
interrupt.  Interrupt coalescing is left out: the interrupt is raised at once.

*History.*  `unpub` and `reopened` record, for the properties only, whether a
descriptor waits for a tail write and whether a tail was written twice.

### EmzTxRing

The three entry points hold `tx_lock` from reservation to tail write, so the
module keeps the locals of one call.  `Reclaim` is one turn of
`emz_tx_direct_reclaim`; `Reserve`, `PollAgain`, `GiveUp` are the three outcomes of
the bounded polling; `Fill` and `ReadFail` the copy, which may fail half way;
`Program`, `Publish`, `Count` are `emz_setup_dma_tx_direct_transfer`, in the code's
order (it counts the descriptor after it has published it); `ProgramBurst`,
`ProgramEnd` and `Publish` the loop of the benchmark burst, which publishes once.
`wait` is the poll count, with `MaxWait` for 2000 (10000 for a burst).

The refinement maps the abstract queue to what the engine has still to send, in
its order, and an entry's `own` to whether the descriptor points to its own
slot's buffer.  A burst's descriptors all point to the first one's, so the copies
may change under a later call: `EmzTxPromise` states that exactly (`Reuse`).
Since the benchmark sends one constant frame and a packet may follow it, this is
the strongest promise the code keeps.

### AxisStoreForward, AxisFrameErrorDrop

One step is one rising clock edge; every register of the next state is computed
from those of the present one, as the `always` blocks do.  `Clock(ready)` quantifies
over all the source can offer and `ready` is the sink's choice.  In
`AxisFrameErrorDrop` a beat carries `err` (`tuser`) and `last`; `Fill`, `Drain`
and `Count` are the module's three `always` blocks.  Both refine `AxisFrames`: the
queue is the list of complete frames still to leave, `filling` the beats of the
unfinished one, or the fact that it is already refused.  In the FIFO a frame lies
between two ends, told by their pointer values (`Ptr`, `Ends`, `End`, `Start`), which
are one bit wider than an index.

The store-and-forward FIFO needs frames no longer than itself: its header says
so, `SizeAssumption` states it, and without it `ReadyAgain` would be false.

### EmzProvision

*The board.*  `pc` walks through one turn of `provision_thread_fn`: `Get` (a
datagram, or the timeout), `Look` to `WriteAck` (`poll_jtag_mailbox`, one step per
access of the mailbox the host could meet: look, fetch, apply, status,
`ack_epoch`), then `Ignore`, `ServeDiscover` or `ServeConfig`.  `buf`, `mbIp`,
`seen` and `ok` are its locals; `armed` and `lastEpoch` the statics of the poll.
`Ingress` is the interrupt that fills `prov_rx_queue`.

*`apply_config`.*  `Apply` is success; `RemoveFails`, `AddFails` and `MaskFails` are
its error returns, in which each further call (removing the new address, putting
the old one back) may fail or not, except that adding an address that is attached
succeeds.  `attached` is what the interface really has, which the code does not
see; `leak` records that a rollback failed to remove the new address.

*The network.*  `offers` and `acks` hold what was ever sent, `conf` the CONFIG of a
session, `running` the sessions that sent a DISCOVER: anything sent may arrive once,
late, repeatedly or never.  A session is one run of
`emacz_config.py`: its transaction id is fresh, it sends one DISCOVER and one
CONFIG, and a user who tries again starts another session.

*What is assumed.*  A token is `k_cycle_get_32()` mixed with constants and the
transaction id; the model takes it as one no earlier OFFER carried.  The counter is
32 bits wide and restarts at a reset, so a coincidence is possible, and the model
says nothing about it.  The JTAG host follows `provision.h` 28-31: header, then
epoch, then poll `ack_epoch`, then read the status; it may clear `magic` in
between.  At the first boot the mailbox holds no acknowledged request but epoch 0.

*Left out.*  Prefix and gateway are part of the address; NACKs, which the tool
ignores (`exchange` waits for an ACK only), other boards' MACs, and the Ethernet
encoding.

### EmzSinkStats

*Writers.*  `Begin`, `Store`, `StoreRest` and `End` are one update: `sink_stats_begin`,
each 64-bit addition as the two word stores an RV32 core makes, in either order, and
`sink_stats_end`.  Which counters a section adds to is its parameter: `AccountPacket`
adds to two counters, `AccountOther` to the third, which stands for the four the
socket thread alone counts.  `CanRun` and `LockFree` are the interrupt lock: a
section is not interrupted, and a thread between its loads and its stores would be,
if it did not hold it.

*Host.*  `HostReadSeq`, `HostReadWord`, then `HostAccept`, `HostRetry` or `HostGiveUp`
are one attempt of `read_stats`, which reads the block in ascending order, word by
word, between two readings of `sink_seq`.  A burst of the tool is several words; the
bus gives each on its own, so any step may come between two of them.

*Reset.*  `Reboot` stops every writer wherever it is and leaves the words; `Clear` is
`main`'s `memset`, a word a step, `sink_seq` first; the interceptor and the sink
thread exist only behind it (`Running`).

*History.*  `stable` and `total` record the block after the last update and what was
counted; `during`, `moves` count what one attempt met; `torn`, `wiped` record a
`memset` under way, which `sink_seq` (then 0, even) does not announce.

### EmzDmaPath

*Contexts* are as in `EmzRxRing`, with `main` in place of `boot`: `emz_init` does the
first refill in a thread that goes on to free packets.  The interrupt refills only in
the profile mode that drops frames after DMA (`DropAfterDma`).

*Refill.*  `Reserve`, `Get`, `Program`, `Queue`, `Start`, and on the error paths
`Unreserve`, `PutBack`, are the loop of `emz_refill_dma_rx` with
`emz_queue_dma_rx_buffer` between them; each is one lock section, one `k_fifo` call or
one call of the DMA API, and any other context may come between two of them.

*Device.*  `written` is the one descriptor a config or reload wrote and no start has
posted yet, `dq` the posted ones, which complete in order (`RxCallback`,
`TxCallback`): what `docs/performance_plan.md` 579-590 and the driver's use say of
Zephyr's DMA driver.  Any config, reload or start may fail (`faults`).

*Transmission* keeps the progress of the one sender that holds `tx_lock`: the copy, then
the checks of `emz_setup_dma_tx_transfer`, then the start; `TxCallback` comes in
between.

*Crossing refills.*  A refill between reload and start may be met by another one (the
worker's over an application thread in any mode, the interrupt's in the drop mode).  The
second reload overwrites the first address, and the second `dma_start` posts a
descriptor nobody wrote.  The model goes on: the first buffer stays on `rx_dma_fifo`
with no descriptor, `dq` gets a `NoBuf` on which the device stands still, and `crossed`
records it for the two properties that hold only up to there, the exact attribution of
completions and the usable descriptor of `NeverDead`.  Single ownership, the in-flight
count and "a completion finds a buffer" hold behind a crossing too.

*`startFailed`.*  A `dma_start` that fails after its buffer was queued puts a buffer that
is still linked into `rx_dma_fifo` on `rx_free_fifo`, and what the code does then is what
a corrupt list does.  The specification stops there, and only there (see *Observed*
below).

### EmzTxBench

`Burst` is one iteration of the loop of `run_tx_bench` with its pacing wait, in a unit
of time; `Window` is the 32-bit difference the loop condition looks at.

## Runs

| Run | Question | Bounds | Distinct states |
| --- | --- | --- | --- |
| `RxRingIsr` | Interrupt, work queue, worker and one bus error: types, contiguous window, owner counters against their populations in every interleaving of their updates, no completion left unnoticed, engine confined to its descriptors | 3 buffers and descriptors, 2 posted at most, 1 with the stack, 1 fault | 3,170,119 |
| `RxRingApps` | A preemptible thread frees packets too: single ownership, ring full and published at rest | the same, 1 application thread; stops where `reopened` becomes true | 1,781,608 |
| `RxRingLive` | A halted engine runs again, a dry ring is posted to again | 2 buffers, 1 posted, 1 cooperative application, 1 fault | 30,610 |
| `RxRingReopen` (violation) | Does the engine keep to posted descriptors? | 3 buffers, no fault | counterexample of 43 steps |
| `RxRingLostRecovery` (violation) | Is every halt noticed? | 3 buffers, 2 faults | counterexample of 38 steps |
| `TxRing` | Window, engine, bounded calls, and the FIFO promise | 3 slots, 2 frames, bursts of 2 and 3, 1 poll, 1 fault | 566,981 |
| `StoreForward` | No gap inside a frame, no lock-up, frames whole | FIFO of 4, counter to 3, frames of 1 to 4 beats, 2 byte values | 13,123 |
| `FrameErrorDrop` | Exactly the good frames come out, never a stall inside a frame, slots freed | 2 slots of 2 beats, 2 byte values, errors on any beat, frames of any length | 61,461 |
| `Provision` | At most one configuration per session, true ACKs, a known address; a mailbox request is answered, with its own status | 2 sessions, 1 address and a bad one, a queue of 1, 2 OFFERs, 2 mailbox requests, 1 failing configuration, 1 reboot | 1,698,508 |
| `SinkStats` | What the host accepts is one update's block; no addition lost | interrupt and 1 thread, words of 2 values, `sink_seq` of 6, 2 attempts, 2 updates during one, 2 resets | 5,625,448 |
| `GenericDma` | One owner and no foreign write through crossing refills, completions attributed until refills cross, a channel nobody would refill has a descriptor, TX window | 4 buffers, 3 in flight, application, `main`, worker, interrupt, 3 TX slots, 1 failing call, drop mode | 2,617,656 |
| `TxBenchWrap` (violation) | Does the cap keep the window below the counter's wrap? | 0.1 s ticks, the code's limits | counterexample of 4 steps |

Why these bounds are enough to be interesting.

* The ring of 3 wraps, is full at the limit of 2 posted with one slot unused,
  can be dry, and has more buffers than the limit: the cap `MaxInflight` (64 of
  128 in the code) and the buffer count are different conditions. With 3 buffers,
  interrupt, work queue and worker can each have one in hand.  `MaxStack = 1`
  reaches the cap and the copy fallback.
* `BeforeReopening` in `RxRingApps` cuts states behind the error of `RxRingReopen`,
  where the engine is loose on the whole ring; `RxRingIsr` does go on behind it,
  and `RingWindow` and the counters hold there too.
* Three TX slots hold a burst of the whole ring, a burst and a packet, and a wrap;
  `MaxWait = 1` has a poll that succeeds late and one that gives up.
* A FIFO of 4 holds one frame that fills it, or several short ones; the frame
  counter's maximum 3 is below the number of one-beat frames that fit, so both
  reasons to refuse input occur.
* Two slots of two beats: a frame of exactly a slot, one beat more, both slots
  full, and every overlap of filling and draining; data values tell frames apart.
* Two sessions overtake each other between OFFER and CONFIG, and a mailbox request, the
  failing configuration and the reboot come between any two steps.  The queue of 1 is
  full often, and a datagram that is not in the queue can still arrive later, so a
  longer one adds no new order of service.  The second mailbox request meets the status
  and `ack_epoch` of the first, and either may be for a bad address.
* Words of two values carry in every second addition, and `sink_seq` comes round
  within a run; two updates in an attempt are what the assumption of the theorem allows
  for a period of 6.  A reset can fall between any two words, and a second one into the
  clearing after the first.
* Four buffers and a limit of 3 meet the limit and the empty list, alone and together.
  The limit is one more than the preemptible refilling threads, the least
  that `Roomy` allows, so `NeverDead` is checked where it is tightest.

Each property is one TLC can break by a plausible error in the code; the 40
mutants are in `PROJECT.json`.

## Fairness

`RxRingLive` (`Fairness` in `EmzRxRing`): interrupts are taken (weak, on the
handler); a context at work goes on when it may run; the recovery and the worker
get strong fairness because they are enabled again and again between other work:
the system work queue is a FIFO, so the poll that resubmits itself each
millisecond queues behind a waiting recovery, and the worker is the next
cooperative thread when the work queue sleeps.  Applications get strong fairness:
a thread that reads its socket frees what it reads.  No fairness is assumed of the
engine, so no property asks that frames arrive.

`TxRing`: a thread inside the mutex keeps running, and the engine goes on sending
while it is running.  `CallReturns` holds also for a halted engine.

`StoreForward`, `FrameErrorDrop`: the clock runs, and the sink takes an offered
beat some day.  `ReadyAgain` needs that a source inside a frame goes on (strong,
`Feed`): the MM2S engine sends a frame it has begun.

`Provision`: only the provisioning thread is fair.  Nothing is assumed of the
hosts, the network or the JTAG host, so no property asks that a session succeeds; a
reset is bounded, not fair.

`SinkStats`, `GenericDma`: none.  `NeverDead` is a safety property, a state in which
nothing that the driver does could start reception again.

## Findings

Differences between what a comment promises and what the code does, each shown by a
violation run.

1. **A tail written late reopens the ring** (`RxRingReopen`, `D`:1067).  The
   comments at 1025-1026 and 1046-1047 say that CURDESC to TAILDESC always holds
   valid descriptors because index read and register write share one locked section.
   But the post and the tail write are two sections.  A thread (worker, work queue or
   application) posts, the interrupt's own refill publishes that index first, the
   engine completes it and idles one past it, and the thread then writes the same
   tail again: the engine starts over at a slot it does not own and may run round the
   ring.  `WindowOwnedUnlessReopened` shows that this rewrite is the only way.
   The status check in the poll (1193-1215) then asks for a recovery.
2. **A second halt during recovery is lost** (`RxRingLostRecovery`, `D`:1429).
   `irq_enable` (1426) precedes `atomic_clear(&rx_direct_recover_pending)`; an error
   interrupt in between finds the flag set, drops its request, and acknowledges the
   error.  The comment at 1365-1366 says a halted engine would otherwise be down until
   reboot.  `HaltLostOnlyByClear` proves that this is the only step that loses a halt.
3. **The benchmark can outlive its counter** (`TxBenchWrap`, `app/src/main.c`:415).
   The comment at 85 says that the cap of 30 s keeps the 32-bit cycle window below its
   wrap at 42.9 s.  The loop looks at the window only between bursts, and one iteration
   waits `delay_us * 32`, up to 32 s (428-430).  With 0.7 s per packet the second wait
   of 22.4 s ends behind the wrap; the window is small again and the benchmark runs on.

Observed and not counted as findings, because no text promises otherwise or because the
code is outside what the models follow:

* after an MM2S bus error nothing restarts transmission (`EngineFault` of `EmzTxRing`);
* `provision.h`:25 says of `ack_epoch` "board mirrors epoch on success"; the code
  writes it for a refused address and a failed configuration too (`provision.c`:300,
  307), which is what a polling host needs, and `MailboxHonest` shows the status
  beside it is right;
* on the generic path a `dma_start` that fails leaves its buffer on `rx_dma_fifo` while
  the refill puts it on `rx_free_fifo` (`D`:1594-1602), one FIFO node in two lists;
* there, a refill interrupted between `dma_reload` and `dma_start` by another one (the
  worker's over an application thread, or the interrupt's in the profile mode that drops
  frames after DMA) has its descriptor overwritten (`D`:1583-1598).  Its buffer then waits
  on `rx_dma_fifo` for a completion that will be another buffer's, so lengths go to the
  wrong frames, and the channel halts at the descriptor nobody wrote;
* there, the device is refilled only when a buffer is released: frames that wait
  unread leave it without a buffer while the free list has many.  Reading them brings it
  back (`NeverDead`).  With a posting limit as low as the number of threads that refill,
  which `Kconfig` allows (53, 57-59), it may not come back: each thread holds a
  reservation it then gives up.  `NeverDead` excludes that by `Roomy`; the other
  properties of the path hold for every limit;
* the `memset` at start-up clears the sink's block with `sink_seq` even, so a host that
  reads across it may accept a block half cleared (`wiped`);
* `format_acceptance_snapshot` (`main.c`:224) reads the 64-bit counters without the lock;
* `write_overflow` in `axis_frame_error_drop.v` counts a frame whose error flag came
  first as an overflow; its `fill_state == FILL_DROP` in `s_axis_tready` is redundant,
  since `SidesOK` is proved.

## Proofs

All for every value of the constants that meets the named assumptions, which are
only the code's own: sizes at least 1, `NoBuf`/`Junk` not an element, as many
buffers as descriptors, at least one buffer and one posting place on the generic path, bursts no longer than the ring, frames no longer
than the FIFO, finitely many threads.  Nothing is assumed of the engines and the stream
peers: their actions are steps like the others.

| Theorem | States | Argument |
| --- | --- | --- |
| `EmzRxRing_proofs!TypeCorrect` | `TypeOK`: indices inside the ring, unsigned counts never wrap | `RingInv` |
| `EmzRxRing_proofs!WindowCorrect` | `RingWindow` | `RingInv` |
| `EmzRxRing_proofs!OwnershipCorrect` | `OwnedOnce` | inductive relative to `RingInv` |
| `EmzRxFlow_proofs!AccountingCorrect` | `OwnerAccounting` | `Sums` and `OneCoop` on top of `Ctl` |
| `EmzRxFlow_proofs!RefillCorrect` | `RingRefilled` | `RefillOK` on top of `Sums` |
| `EmzRxFlow_proofs!CompletionCorrect`, `PublishCorrect` | `CompletionNoticed`, `PublishedWhenIdle` | `NoticeOK`, `PublishOK` on top of `Ctl` |
| `EmzRxFlow_proofs!EngineWindowCorrect` | `WindowOwnedUnlessReopened` | `TailOK` and `EngineOK` on top of `Ctl` |
| `EmzRxFlow_proofs!SupplyCorrect` | `RingSupplied`: a ring below its limit has a buffer on its way back (safety half of `RingComesBack`) | `RefillOK` |
| `EmzRxFlow_proofs!RequestCorrect`, `HaltLostOnlyByClear` | `RequestServed`, `HaltLostByClear`: the recovery flag never sticks, and a halt is lost in one step of the code only (safety half of `RecoveryRestarts`) | `RecoverOK` on top of `Ctl` |
| `EmzTxRing_proofs!TypeCorrect`, `WindowCorrect`, `EngineCorrect` | `TypeOK`, `TxWindow`, `EngineHasAll` | `TxInv` |
| `EmzTxRing_proofs!PromiseKept` | `KeepsPromise`: the TX ring implements `EmzTxPromise` | `CopyOK`, `ShareOK` on top of `TxInv` |
| `EmzTxRing_proofs!CallBounded` | a call is over after 2 N + MaxWait + 5 steps of its own (safety half of `CallReturns`) | a variant |
| `AxisStoreForward_proofs!TypeCorrect`, `NoUnderrunCorrect` | `TypeOK`, `NoUnderrun` | `FifoInv` |
| `AxisStoreForward_proofs!FramesKept` | `KeepsFrames`: the FIFO implements `AxisFrames` | `FrameInv` on top of `FifoInv` |
| `AxisStoreForward_proofs!NeverStuck` | a stored frame is on offer, and a FIFO that takes no beat has one to give (safety half of `ReadyAgain`) | `FrameInv` |
| `AxisFrameErrorDrop_proofs!TypeCorrect`, `OrderCorrect`, `ReadyCorrect` | `TypeOK`, `SlotsInOrder`, `ReadyInsideFrame` | `StoreInv` |
| `AxisFrameErrorDrop_proofs!OfferCorrect` | `HoldsOffer` | `NoOverrun` on top of `StoreInv` |
| `AxisFrameErrorDrop_proofs!FramesKept` | `KeepsFrames`: the RX frame store implements `AxisFrames` | `ContentInv` on top of `StoreInv` |
| `AxisFrameErrorDrop_proofs!DrainBounded` | a slot is free after 2 Depth + 2 ready cycles (safety half of `SlotFreed`) | a variant |
| `EmzProvision_proofs!AddressCorrect` | `AddressKnown` | inductive with the types of two flags |
| `EmzProvision_proofs!OnceCorrect`, `AckCorrect` | `AppliedOnce`, `AckIsTrue` | `SessionInv` |
| `EmzProvision_proofs!MailboxCorrect` | `MailboxHonest` | `MailInv` |
| `EmzProvision_proofs!AnswerBounded` | a mailbox request is answered within seven steps of the thread unless the board is reset (safety half of `MailboxServed`) | a variant, `MagicOK` and `MailInv` |
| `EmzProvision_proofs!ProvisionTypeCorrect` | `TypeOK` | `OffersBound`, `BoardOK`, `WorldOK` on top of the other invariants |
| `EmzSinkStats_proofs!SinkTypeCorrect`, `HostReadsWhole` | `TypeOK`, `ReadIsWhole` | `SinkInv` |
| `EmzSinkStats_proofs!NoCountLost` | `CountsAgree` | `CountOK` on top of `SinkInv` |
| `EmzDmaPath_proofs!PathTypeCorrect`, `OwnerCorrect`, `AttributionCorrect`, `TxWindowCorrect` | `TypeOK`, `SingleOwner`, `CompletionsAttributed`, `TxWindow` | `PathInv` |
| `EmzDmaPath_proofs!NeverDeadCorrect` | `NeverDead` | `AliveInv` on top of `PathInv` |

* **`RingInv` = types, `HoldOK`, `RingWindow`.**  None of the three is inductive
  alone: `posted` stays at most N only because a full window has no empty refill
  slot; the window stays contiguous only because a context at `post` really holds a
  buffer (`HoldOK` ties the program counter to the pointer).  The proof has one lemma
  per action, and a lemma that a step which leaves the ring alone keeps its half.
* **`OwnedOnce`** needs `HoldOK` to know where a moved buffer was, and `RingWindow` to
  know that a post goes to an empty slot and that a recovery takes every posted buffer.
* **`Ctl` = `RingInv`, `OwnedOnce`, `CtlInv`.**  `CtlInv` says where a context's locals
  are live, and that the engine is in reset only while the work queue or the boot is on
  its way to arm it.  Four invariants rest on it.  `NoticeOK`: a completed descriptor at
  the consume index has its interrupt raised or a context about to poll.  `PublishOK`: an
  unpublished descriptor has a context that will reach the tail write, or the arm.
  `EngineOK`: counted from the consume index, the first *d* descriptors are complete, the
  engine stands on the next, and its tail is a posted one from there on; it may be past
  the window only after a tail was rewritten for an idle engine.  `Sums`: the counters,
  with the number of contexts at each place; one lemma (`NumMove`) says what a single
  move does to such a number.  That the sum's drift is bounded needs `OneCoop` too: at
  most one cooperative thread is at work, so besides the interrupt, it and the preemptible
  threads nobody can stand between two updates.
* **`RefillOK`** rests on `Sums`.  A refused context puts its buffer back without
  looking at the ring again, although a poll may have made room meanwhile.  It need not
  look: it was refused by a ring at its limit, so the buffers waiting to be put back and
  the limit together never exceed N, and as long as the ring is short and a buffer is
  free, somebody else is on the way.  This is the one place where the number of buffers
  being that of the descriptors matters.
* **`RecoverOK` = `RequestServed`, `HaltOK`.**  The pending flag is set exactly while the
  work item is queued or the recovery runs, which needs that the compare-and-swap submits
  once and that a recovery keeps the flag to its end.  The handler acknowledges an error
  only with the flag set, and an error bit means a halted engine.  So a halt stops being
  noticed only where the flag is cleared: finding 2 is the only hole.
* **`TxInv` = types, `TxWindow`, `RoomOK`, `EngineOK`.**  `RoomOK` carries what the
  reservation secured to the step that counts the descriptor, which is why one mutex
  over the whole call is needed.  `EngineOK` says the engine stands exactly behind
  what it has sent: published but unsent descriptors are the last ones of the window.
* **`CopyOK`, `ShareOK`.**  What the call has copied is in the buffers it is about to
  publish, and all descriptors that name a foreign buffer name the same one, so each step
  of the ring is a step of the promise or a stutter; the abstract queue grows at `Publish`
  and shrinks where the engine sends.
* **`FifoInv` = types, and `pending` is the number of frame ends stored.**  The ends are
  counted by pointer value, one bit wider than an index, so an entry keeps its place
  while others come and go.  A beat that leaves and is not its frame's last then has an
  end behind it, and the FIFO cannot be empty in the next cycle.
* **`FrameInv` = `RankOK`, `OpenOK`.**  Each stored end has a rank, the number of ends not
  behind it; the ranks are 1 to `pending`, so the frame of each rank exists and keeps its
  beats while others come and go.  The frame that goes in is all that is stored behind the
  last end, and is no longer than the FIFO.
* **`StoreInv` = types, `SlotsInOrder`, `SidesOK`.**  `SidesOK` is the contract of the
  two sides: a drain runs only while a slot is full, filling goes on only while one is
  free.  With it, storing and finishing in one cycle leaves `full_count` right.
* **`ContentInv` = `NoOverrun`, `FullOK`, `FillOK`, `DrainOK`.**  A full slot holds a whole
  frame, the slot being filled the beats so far, and the drain's registers hold the
  slot's beats in turn: the RAM is never read into an output register that is occupied,
  which is `HoldsOffer` too.
* **`SessionInv`.**  A CONFIG under way is the one its session sent; tokens never
  exceed the number of OFFERs, so a new one differs from every CONFIG that exists; a
  session that was served holds a token that is not the live one.  So the live token
  is, and stays, of a session not yet served.
* **`MailInv` = `EpochOK`, `StatusOK`.**  While the poll is at a request, the host only
  polls, so the epoch read is still the present one and unacknowledged; otherwise the
  static and `ack_epoch` agree, which is why the first poll after a boot may decide on
  `ack_epoch`.  Since the host keeps `magic` up while it waits, that poll finds the
  request, whatever datagram is in hand: the variant behind `AnswerBounded`.
* **`OffersBound`.**  OFFERs given, DISCOVERs queued and one in hand stay within the bound
  on DISCOVERs, which gives tokens and CONFIGs their range; a lemma says what an append
  and a tail do to the number of DISCOVERs in a queue.
* **`SinkInv` = types, `SectionOK`, `BlockOK`, `AttemptOK`.**  The lock and the parity of
  `sink_seq` agree; over an even number the block is the last update's; and since the host
  read it, the number has moved by at most two for each update begun, so within
  `SeqAssumption` an equal number is an unmoved one.  `CountOK` says of a section under
  way what each counter still lacks.
* **`PathInv` = types, `PlaceOK`, `DeviceOK`, `SingleOwner`, `CountOK`, `OrderOK`,
  `TxInv`.**  A context's place says whether it holds a buffer; `rx_dma_inflight` is the
  number of reservations plus the fifo's length, which keeps it from wrapping.
  `DeviceOK` is what survives a crossing: the fifo is as long as the device's queue and
  the starts still to come, and an address the device holds at some place of its queue is
  at that place of the fifo or behind it, or a context is about to append it.  A completion
  takes the head of both, so it never takes from the fifo a buffer the device may still
  fill.  `OrderOK`, fifo and device agree but for the one between reload and start, holds
  until refills cross.
* **`AliveInv`.**  With a limit that exceeds the threads that can hold a reservation
  (`Roomy`), and no failed call: somewhere there is a frame, a posted buffer, a context
  with a buffer, or one about to look for one.  A thread's refill refused at the limit may
  stop, because then a buffer is posted; the interrupt's is not refused at all unless one
  is, because it begins only after it has given a place back.

The recovery and supply theorems, the variants and the offers state the safety half of a
liveness property: that a next step is there, and how far it leads.  That it is taken is
what fairness adds.

Only model-checked: the seven liveness properties themselves (`RecoveryRestarts`,
`RingComesBack`, `CallReturns`, `ReadyAgain`, `FramesLeave`, `SlotFreed`,
`MailboxServed`), because fairness (ENABLED) is beyond the proof system.  `EmzTxBench` has
no theorem: its one run finds a violation.

## Not modelled

* Contents of frames in the RX ring, and the order inside its FIFOs (they are sets):
  so reordering of frames between interrupt and work queue is outside `EmzRxRing`.
* Cache maintenance and memory barriers: steps are sequentially consistent, which the
  uniprocessor and the uncached descriptors give.
* Statistics, except the five owner counters and the sink's; profile counters; debug taps.
* Frame parsing in the interceptor, NACKs and wording of messages.
* Interrupt coalescing (threshold and delay) of the DMA.
* The MAC core (a git submodule not in the tree), the network stack, vendor FIFOs.
* What the generic path does behind a failed `dma_start`, and what the DMA driver reports
  of a channel that halted at an unwritten descriptor: its source is not in the tree.
* That `emz_perf_update_pool_inflight` reads the five owner counters one after the other:
  what it publishes as their sum may be off by the updates between its reads.
* Start-up code and scripts that run once and sequentially.

`PROJECT.json` gives the reason per component.

## Plan

The RX ring came first because it carries the most contexts, then TX, the two frame
buffers on the same path, provisioning, the sink and the generic path.  What is left, in
this order:

1. **Proofs**: how far a recovery is from its end, and a refill from its tail write,
   as variants under the scheduler's priorities; how many steps one attempt of the sink's
   reader takes.
2. **An order-preserving RX model**: interrupt and 1 ms poll, which frames may
   overtake which.
3. **Small hardware**: register multiplexer, timer compare written in halves, elastic
   FIFO's behavioural branch, fatal record across a warm reset.

## Running it

```sh
tlc -workers 2 -config RxRingIsr.cfg MCEmzRxRing.tla    # any row of "Runs"
tlapm EmzRxRing_proofs.tla                              # and the other *_proofs
```
