# TLA+ models of netbench's receiver

These are TLA+ models of the receive side of `src/netbench.cpp`, checked with TLC.
The receive side is a server that accepts TCP connections, parses length-prefixed
requests and replies with the number of bytes each request asks for. It has two
engines:
- the io_uring engine (`IOUringRunner`);
- the epoll engine (`EPollRunner`).

Each engine runs on its own thread. Each module translates one part of the source.
Every definition is listed in `PROJECT.json` "map" with the source lines it models.

## 1. The system: parts, state and how they interact

| Part (source lines) | State it keeps | Operations | Interacts with |
|---|---|---|---|
| Frame parser, `ProtocolParser` (263-302) | `size_buff_have`, `is_reading` (decoded header), `size_buff` (scratch for a split header), `so_far` | `consume(data, n)` returns `{to_write, count}` | called by both engines on every received chunk |
| Workload hook, `runWorkload` | none | burns CPU per request | called after `consume` |
| Statistics, `RxStats` (304-450) | per-second counters, `lastRps_`, idle time | `startWait`, `doneWait`, `doneLoop` | called by both loops |
| Classic buffer provider, `BufferProviderV1` (511-678) | free list `toProvide_` of `Range{start,count}`, `toProvideCount_`, watermark | `returnIndex`, `compact`, `needsToProvide`, `provide` | ring engine: `provideBuffers` (1086-1102) and `processRead` |
| Shared-ring buffer provider, `BufferProviderV2` (680-846) | ring of descriptors (power-of-two size), 16-bit `tailCached_`, a 32-entry stage `indices` | `returnIndex` (stage, then flush 32 into the ring and publish the tail) | the kernel takes descriptors at its head |
| Ring engine, `IOUringRunner` + `BasicSock` + `ListenSock` (859-1505) | per socket: fd or fixed slot, parser, owed reply, `closed_`; runner: `socks_`, `expected`, `acceptFdPool_`, `nextAcceptIdx`, `stopping` | constructor, `addListenSock`, `addAccept`, `get_sqe`, `submit`, `processAccept`, `processRead`, `processCqe` (`kWrite`, `kOther`), `processClose`, `loop`, `stop`, `nextFdIdx` | the kernel through the SQ and CQ; the peers; the shutdown flag |
| Epoll engine, `EPollRunner` + `EPollData` (1509-1745) | per socket: parser, `to_write`, `write_in_epoll`; a write queue | accept drain, read until short, inline or batched send, arming and disarming write interest | the kernel via epoll; the peers |
| Configuration and CLI (74-250, 1760-2060) | config structs | parse (`--server_only`, `--client_only` and `--runs` shape the `tx` and `rx` lists, 1942-1958) | read once at start |
| Orchestration (2060-2269) | receiver threads, each iteration's `should_shutdown`, `globalShouldShutdown`, `results` | `main` (for each tx, for each receiver: start the thread, run the sender, set the flag, join; or, with no tx, start all receivers and join them), `run`, signal handler `intHandler` (67-72), the `to_agg` grouping | sets the flags each engine loop tests; runs the sender, which is outside the source |

### Hard behaviours
- The kernel completes submitted operations in any order and at any time relative to the engine's loop.
- A multishot recv posts many completions for one submission (`F_MORE`).
- Sends complete independently of recvs, and successes may post nothing (`CQE_SKIP_SUCCESS`).
- A full SQ makes `get_sqe` submit in the middle of a handler.
- With fixed files a slot is reserved before the accept is submitted, and it is recycled by an asynchronous close.
- Provided buffers travel between the engine, the free list or stage, and the kernel.
- The shutdown flag is set by another thread at any moment.
- Peers connect, send and close whenever they like.
- epoll reports an accepted socket (`EPOLLIN | EPOLLET`) once per arrival, not while it stays readable; after its first `EPOLL_CTL_MOD` the socket is level-triggered.
- One `epoll_wait` batch mixes accepts, reads, inline sends and sends deferred to after the batch.

### What makes each part correct
- **Parser:** every completed frame is reported once, with its reply size, under any chunking (spec.md 8, "framing round trip").
- **Providers:** every buffer id is in exactly one place (free list or stage, a provide submission, the kernel, a completion). The ring never publishes more entries than it has slots. Compaction publishes maximal runs.
- **Ring engine:**
  - Exactly one recv chain per open socket.
  - Exactly one accept outstanding until stop.
  - Fixed slots are conserved.
  - `socks_` counts the live sockets.
  - No completion is handled for a deleted socket.
  - No `-ENOBUFS` while the pool is big enough.
  - Shutdown ends the loop.
- **Epoll engine:**
  - Write interest is armed exactly while reply bytes are owed.
  - Every owed byte is sent once, and never more than owed.
  - The write queue holds only live sockets.
  - Owed replies are eventually sent.
  - A closed peer is eventually noticed.
- **Statistics:** each line covers exactly its interval (loops, read histogram), and every busy second gets a line.
- **Orchestration:**
  - Results are grouped under their keys in the order they were run.
  - The process ends after the last benchmark, or after a SIGINT.
  - A SIGINT stops the benchmark.
  - `--runs n` repeats the matrix n times.

## 2. Modules

| Module | Models | State (VARIABLES) ↔ code | Actions ↔ code |
|---|---|---|---|
| `FrameParser` | `ProtocolParser::consume`, fed by `BasicSock::didRead` / `EPollRunner::doRead` | `parser` = the four parser fields; `owed` = accumulated `ConsumeResults`; `frames`, `pos` = what the peer sent and how much arrived | `Recv`: one recv of 1..`MaxChunk` bytes fed to `Consume`, the whole `while (n > 0)` loop as the RECURSIVE `ConsumeLoop` |
| `BufferProviderV1` | the classic pool | `toProvide`, `toProvideCount`; `sq` (queued provides), `kernel`, `inflight` | `KernelRecv`, `ReturnBuffer` (`returnIndex` + `provideBuffers(false)`), `SubmitLoop` |
| `BufferProviderV2` | the shared ring | `staged` (= `indices[0..cachedIndices)`), `ring`, `tail`, the kernel's `head`, `inflight` | `KernelRecv` (takes the descriptor at head), `ReturnBuffer` (`returnIndex`) |
| `BufferProviders` | the provider a runner holds, chosen by `provide_buffers` (lines 1844-1845, 858-868) | `version` (= `kUseBufferProviderVersion`) and both providers' variables, `inflight` shared | `Init` picks the version; `Next` is the chosen provider's `Next`, the other provider's state unchanged. |
| `RingEngine` | `IOUringRunner<BasicSock<...>>`, composing the two provider modules by `INSTANCE` | `sq` (queued submissions, `expected`), `kops` (bag of kernel operations), `cq` (the CQ ring), `ovf` (the kernel's overflow list), `seen` (drained entries whose slots wait for `io_uring_cq_advance`); per connection `peer`, `sent`, `sock` (none/open/closing = `closed_`/freed), `fd` (fixed slot); provider state; `socks`, `pool` (= `acceptFdPool_`), `nextAcceptIdx`, `stopping`, `shutdown`, `phase` (top/wait/check/drain/exited/dead = `die()`) | engine: `LoopTop`, `WaitTimeout`, `CheckShutdown`, `LoopExit`, `EndDrain`, `ProcessAccept`, `ProcessReadData`, `ProcessReadNoBuffer`, `ProcessReadEof`, `ProcessSend`, `ProcessClose`; environment: `PeerConnect`, `PeerClose`, `RequestShutdown`, `KernelAccept`, `KernelRecvData`, `KernelRecvNoBuffer`, `KernelRecvEof`, `KernelSend`, `KernelClose` |

| `EpollEngine` | `EPollRunner` + `EPollData` | per connection: `peer`, `backlog`, `inbytes`/`inTot` (bytes the peer sent), `sndq` (unread replies in the send buffer); `ed` (none/live/freed = `sockets_`), `to_write`, `armed` (= `write_in_epoll`), `interest` (the epoll registration), `edge` (a pending edge-triggered wakeup); `owed`/`sentTot` (observation only); `socks`, `phase`, `batch` (= `events[]`), `cur`, `wq` (= `write_queue`), `shutdown` | engine: `LoopExit`, `EpollWait`, `AcceptEvent` (`doAccept`), `SocketEvent` (`doSocket`), `RecvData`/`RecvAgain`/`RecvEof` (the recvs of `doRead`), `EndDispatch`, `FlushOne`, `EndFlush`; environment: `PeerConnect`, `PeerSend`, `PeerClose`, `PeerRead`, `RequestShutdown` |
| `Orchestration` | `main`, `run`, `intHandler`, `NullRunner`, and the part of `parse` that builds the `tx` and `rx` lists | `runs`, `txs` (= `cfg.tx`), `rxs` (= `receiver_factories`), chosen in `Init` from the command line; `pc`, `k` (main's position and loop index); `shutdown` (the live iteration's `should_shutdown`), `global`, `signals`, `dead` (`die()` in the handler); `thr` (each receiver thread: none/running/stopping/exited); `sent`, `results` | main: `StartReceiver`, `SenderDone`, `JoinReceiver`, `Aggregate` (tx mode), `StartAll`, `JoinNext` (no tx); threads: `ShutdownCheck` (the loop test on both flags: epoll leaves, io_uring `stop()`s then breaks), `RingDrained` (the io_uring loop ends with no sockets after stop), `NullReturns`; user: `Signal`. `ToAgg` is the `find_if` loop as the RECURSIVE `AggLoop`, `Aggregated` the print filter |
| `MCProcess` | bundles `RxStats` and `Orchestration` into one TLC run; they share no state | `part` and both modules' variables | `Init` picks one part; `Next` moves only that one |
| `RxStats` | `RxStats` | `now`, `lastStats`, `waitStarted`, `idle`, `loops`, `reads` (= `reads_.size()`), `requests`, `lastRequests`, `lastRps`; `last` (the numbers the last `doLog` printed or skipped); `step` (where the engine loop is) | `StartWait`, `DoneWait`, `DoneLoop` (with `doLog`) |

`MCFrameParser`, `BufferProviders`, `MCRingEngine`, `MCEpollEngine`, `MCProcess`,
`MCOrchestration` and `MCRxStats` are the modules TLC checks. The last two serve only the reproduction cfgs. The `.cfg` files give the constants.

### How the ring engine corresponds to the code
- **Handlers:** each handler is one atomic step, because the engine is single-threaded. Every state change a handler makes is in its action:
  - the buffer return and `provideBuffers(false)` in `ProcessReadData`;
  - the `accept4` drain and the re-armed accept in `ProcessAccept`;
  - the `die()` outcomes.
- **Submissions:** a handler queues its submissions through `Queue`, which models `get_sqe()`: when the SQ is full it submits first.
- **Submit errors (`BusyOnOverflow`, `spinning`):**
  - When the CQ overflow flag is set, liburing's `io_uring_submit` adds `IORING_ENTER_GETEVENTS`, so every `Submit` first flushes the overflow list.
  - With `BusyOnOverflow`, a kernel that cannot flush the whole list fails the enter with `-EBUSY` (io_uring_enter(2)).
  - In `submit()` (1332-1346), `expected -= got` then grows `expected`, and the loop retries forever. Nothing frees CQ slots while the engine is inside a handler. The model sets `spinning`, and the engine takes no more steps.
  - `submitAndWait1` dies on `-EBUSY` (phase `dead`).
  - The ASSUME requires `CqCount >= SqeCount`, as `io_uring_setup` does.
- **`LoopTop`:** one pass of the loop head (1393-1420):
  1. read `was_overflow` (the overflow list is not empty), then `provideBuffers(false)`;
  2. if it was set, `flushOverflow()`: overflowed completions move into the ring, oldest first, while it has room;
  3. else if anything is queued, submit it and wait (the enter also flushes the overflow list);
  4. else wait for one completion (phase `wait`): it is handled at once and its slot freed (`io_uring_cqe_seen`), or the wait times out (`WaitTimeout`). The 1 s / 100 ms timeout means the wait always returns.
- **`CheckShutdown`:** `stop()` the first time, `break` the second (1422-1432).
- **Draining:** the CQ is then drained one completion per step. Drained entries keep their ring slots (`seen`) until `EndDrain`'s `io_uring_cq_advance`. The kernel may post more completions during the drain, as it can while `io_uring_for_each_cqe` walks the ring.
- **The CQ:** `CqCount` entries (`cqe_count`, line 213). The kernel posts a completion to the overflow list when the ring is full or the list is not empty, so order is kept. Provide submissions carry `IOSQE_CQE_SKIP_SUCCESS` (line 605), so a successful provide posts no completion; `Submit` hands its buffers straight to the kernel.
- **Kernel and peers:** they are the environment.
  - Submitted operations complete in any order.
  - A recv takes a buffer the way each provider hands them out: V1 any provided id, V2 the descriptor at the ring head.
  - A send can fail only after its peer closed.
  - Kernel-side steps are written from the io_uring semantics and are marked `spec_modelled` in the map.

### How the epoll engine corresponds to the code
- **Loop:** one `epoll_wait` (`EpollWait`) fixes the batch: up to `max_events` ready fds, in any order, each with the events epoll reports for it at that moment. Then one step per event (`AcceptEvent`, `SocketEvent`), one per `recv` of `doRead`, and one per `write_queue` entry (`FlushOne`). Peers act between any two steps.
- **`doRead`:** each `recv` is its own step, because bytes and the FIN can arrive between two recvs. A recv takes `min(inbytes, RcvSize)` bytes; the loop goes on only if it filled the buffer. The parser's owed reply for a recv is a free choice from `Replies` (`FrameParser` checks the parser).
- **`doWrite`** is one step: the send loop as the RECURSIVE `SendLoop` (including the `std::min<uint32_t>` cast, with `Word` for 2^32) followed by the arm/disarm `EPOLL_CTL_MOD` (`WritePolicy`). Both MODs drop `EPOLLET`, so `interest` becomes `"in"` or `"inout"`.
- **epoll:** an `"in_et"` socket is reported only if an arrival queued a wakeup (`edge`) since it was last returned, and `EPOLL_CTL_ADD` queues one if the socket is already readable. `"in"`/`"inout"` sockets are reported while readable or writable. A peer that closed makes the socket readable (EOF) and writable, and sends to it fail.

### How RxStats corresponds to the code
The engine loop calls `startWait`, waits, calls `doneWait`, handles events and calls `doneLoop`; each call is one action. A wait lasts a time from `WaitTimes` (0 stands for any wait under `kEpsilon`). `doneLoop` adds the loop's requests and, when a second or more has passed, does all of `doLog`: the print test `requests > lastRequests_ && lastRps_`, `reads_.clear()` inside it, the resets, and `lastRps_ = rps` truncated to an integer.

### How Orchestration corresponds to the code
- **Command line:** `Init` picks the `--tx` list, the `--rx` list, a mode (both, `--server_only`, `--client_only`) and `--runs`. It applies `parse`'s lines 1942-1958 to them. In client-only mode the receivers are `NullRunner`s, one per given port (2140-2173).
- **main, tx mode:** one step per statement group of the loop body (2178-2198):
  - `StartReceiver`: build the runner, make a fresh `should_shutdown`, start the thread;
  - `SenderDone`: `runSender` returns (the sender is outside the source), then `should_shutdown = true`;
  - `JoinReceiver`: join, then store the result under its key.
- **Aggregation:** `Aggregate` is the step after the last join. The result printing and the aggregation loops only print, so the step changes nothing but `pc`. The grouping they print is `ToAgg(results)`, filtered by `Aggregated`.
- **main, no tx:** `StartAll` starts every receiver thread on one `should_shutdown`, which nothing sets; `JoinNext` joins them in order.
- **Receiver threads:** `run()` calls `start()` (empty for every runner) and `loop()`. The loop is abstracted to its shutdown test, `should_shutdown || globalShouldShutdown`:
  - epoll leaves at the test (1696);
  - io_uring `stop()`s at the first test and breaks at the second (1422-1432);
  - after `stop()`, io_uring also leaves once no socket is left (`RingDrained`, 1393);
  - `NullRunner::loop` returns at once.
  `RingEngine` and `EpollEngine` check these exits in detail. A loop iteration that finds both flags false changes no state seen here, so it is a stutter.
- **`intHandler`:** the first SIGINT sets `globalShouldShutdown`; the second calls `die()`, and the process ends (`dead`).

## 3. Runs

| Run | cfg | Expect | What it shows |
|---|---|---|---|
| `parser_lockstep` | `FrameParser_lockstep.cfg` | pass | `FramingRoundTrip`: a peer that waits for each reply gets exactly its frames and reply bytes reported, whatever the chunking, including headers split at any offset. |
| `parser_multiframe` | `FrameParser_multiframe.cfg` | violation | When one recv holds the end of one frame and the start of the next, `consume` reads the next header past the end of the chunk (`data += n`, line 285). |
| `providers` | `BufferProviders.cfg` | pass | Both providers. V1: `PoolConservation` and `PublishesMaximalRuns`, with the sort path of `compact` reached. V2: `RingConservation`, no overrun of the ring and each id in exactly one place over three laps of the ring. |
| `ring_v1` | `RingEngine_v1.cfg` | pass | `OneRecvChain`, `SocksMatchLive` and `BufferExclusive`, with classic buffers, plain fds, the `accept4` drain, send completions posted and an SQ of 2 (submits inside handlers) and a CQ of 2, so completions overflow and `flushOverflow` runs. A second mutant drops the overflow entries that do not fit at a flush; `OneRecvChain` catches it. |
| `ring_fixed` | `RingEngine_fixed.cfg` | pass | `OneRecvChain`, `OneAcceptOutstanding`, `FixedSlotConservation` and `BufferExclusive`, with the shared ring, multishot recv and fixed files; `-ENOBUFS` and `die()` are reachable here. |
| `ring_shutdown` | `RingEngine_shutdown.cfg` | pass | `ShutdownTerminates`: after the shutdown flag is set the thread leaves `loop()`, whatever the peer does. The run uses `BusyOnOverflow`: with one peer and a CQ of 2, no enter inside a handler ever finds an overflow it cannot flush. It uses classic buffers without `compact`'s sort path (`CompactOn` FALSE), which keeps the liveness check under a minute; `ring_v1` checks the sort path. |
| `ring_fixed_socks` | `RingEngine_fixed_socks.cfg` | violation | With fixed files `processClose` deletes the socket without `delSock()` (line 1231), so `socks_` never returns to 0. |
| `ring_buffer0_leak` | `RingEngine_buffer0_leak.cfg` | violation | `recycleBufferIdx > 0` (line 1238): buffer 0 never comes back. |
| `ring_send_uaf` | `RingEngine_send_uaf.cfg` | violation | A failed send completes after EOF deleted the socket, and `kWrite` reads the deleted socket (line 1303). |
| `epoll` | `EpollEngine.cfg` | pass | With `batch_send`, 2 peers, short reads and sends, and batches cut by `max_events`: `WriteInterestTracksOwed`, `ReplyAccounting`, `WriteQueueLive`, and `RepliesDelivered` (owed replies are eventually sent to peers that keep reading). |
| `epoll_eof_lost` | `EpollEngine_eof_lost.cfg` | violation | A peer's last bytes and FIN arrive before the read: `doRead` stops at the short read (line 1659) and edge-triggered epoll never reports the socket again, so it is never closed. |
| `process` | `Process.cfg` | pass | `MCProcess`, which runs each of its two parts on its own. RxStats: its type invariant, over waits, busy loops and flushes (its two correctness properties fail; see the table below). Orchestration, over server, client-only and tx modes, `--runs` 1 and 2 and up to two SIGINTs: `AggregationMatchesReference` (the `find_if` grouping equals a reference grouping by first appearance, and exactly the repeated keys are printed); `ProcessExits`, after the last benchmark in tx mode, or after a SIGINT in any mode. |

More disagreements have a cfg of their own but no run in `PROJECT.json`. Each one makes
TLC violate the named property; `tlc -config <cfg> <MC module>` reproduces it:

| cfg | Property | What TLC shows |
|---|---|---|
| `FrameParser_zerolen.cfg` | `FramingRoundTrip` | A request with length 0 is never reported (line 284): length 0 also means "no header yet". |
| `RingEngine_v2_starve.cfg` | `NoBufferStarvation` | With as many ring buffers as the stage holds, one connection runs the ring dry, gets `-ENOBUFS` and the engine dies (line 801). The same model with one more buffer never starves. |
| `EpollEngine_trunc.cfg` | `ReplyAccounting` | `std::min<uint32_t>(to_write, res)` (line 1599), with 2^32 scaled down to 4: at a multiple of 2^32 every send subtracts 0, and the engine sends more than it owes. |
| `RxStats_silent.cfg` | `BusyIntervalsReported` | A busy interval prints nothing when `lastRps_` is 0 (line 391): always the first second, and any second after one under 1 request/s. |
| `RingEngine_busy.cfg` | `ShutdownTerminates` | On kernels that return `-EBUSY` (`BusyOnOverflow`), consider a CQ that is full of drained entries not yet advanced. A peer closes; its send fails and that completion goes to the overflow list. The read handler drained just before it then calls `get_sqe()` on a full SQ, which submits with the overflow flag set. The enter fails, and `submit()` (line 1344) spins forever inside the drain. The SQ and CQ of 1 stand for a CQ that many peers' completions fill; the default CQ is 128 × the SQ. |
| `Orchestration_interrupt.cfg` | `NoBenchmarkAfterInterrupt` | A SIGINT during a tx run sets `globalShouldShutdown`, and main's loop (2178-2199) never reads it. main goes on to start the next receiver and sender. That receiver stops at its first check while its sender runs for `--time` seconds, and the result is stored and aggregated. Only a second SIGINT ends the process early, through `die()`. |
| `Orchestration_runs.cfg` | `MatrixRunsTimes` | `--runs 2` appends a copy of both `cfg.rx` and `cfg.tx` (1952-1958). main's nested loop then benchmarks every (tx, receiver) pair 4 times, not the 2 that "repeat the full matrix N times" (spec.md 6) promises. |
| `RxStats_histogram.cfg` | `ReadHistogramPerInterval` | `reads_` is cleared only when a line prints (line 414), so the next line's read histogram also covers the silent interval's loops. |

Every property of a passing run has a mutant in `PROJECT.json`: a plausible bug in one mapped definition that TLC then catches.

### Bounds and why they are enough
- **Parser.**
  - Lengths {1,2} and replies {0,1,3} over two frames, chunks of 1..8 bytes: every header split offset 1..7 happens, including splits across both the length and the reply word.
  - Bytes past the chunk and uninitialised scratch bytes take one value from a small set. This is a subset of what the undefined read can see, and it is enough to expose the divergences.
  - `so_far` is a 32-bit counter in the code. Frames here are far below 2^32, so it is kept unbounded (TLC's own integers are 32-bit).
- **V1.** 6 buffers with watermark 3: returns out of order produce three or more ranges, so `compact` takes the sort path. Provides are republished.
- **V2.**
  - The stage size is a parameter. The `providers` run uses 4 with 6 buffers (an 8-slot ring) and 24 recvs, so a flush happens with entries still published and the head laps the ring three times.
  - `RingEngine_v2_starve.cfg` uses the code's stage of 32 with 32 buffers.
  - The 16-bit tail wrap itself is not reached. The ring size divides 2^16, so slot arithmetic is the same across the wrap.
- **Engine.**
  - Two peers with two data completions each; one peer for the liveness run and the violation runs.
  - 3 buffers with watermark 1, or a V2 stage of 2: buffers run short, stage flushes happen (buffer 0 is never returned, so 3 is the least that fills a stage of 2), and the kernel can run out.
  - A CQ of 2 entries in the passing runs: the ring fills, completions wait on the overflow list, and all three loop branches are taken. The violation runs use 8, which their traces never fill.
  - The two passing safety runs declare `SYMMETRY ConnSymmetry`: the peers are interchangeable model values and the engine never picks one by name. The liveness run does not use symmetry.
  - Three fixed slots for two peers, so the pool stays non-empty and a die on exhaustion needs a bug.
  - An SQ of 2 entries, so handlers that queue provides plus a send plus a recv overflow it.

- **Epoll engine.**
  - Two peers sending 2 bytes each with a 2-byte recv buffer: a recv fills the buffer and the next one finds nothing or the FIN, or a recv of 1 byte stops short.
  - A 1-byte send buffer: sends block and write interest is armed and disarmed.
  - `max_events` 2 with 3 fds: batches are cut and edge-triggered wakeups wait for a later loop.
  - Reply sizes {0, 2}: some reads owe nothing, and a reply is larger than the send buffer.
  - The run is in `batch_send` mode, which has both send paths: the flush of `write_queue` and the `EPOLLOUT` path. Inline sends (the default) appear in the violation runs.
  - `Word` (2^32) is 2^30 in the passing runs. That is above any reachable `to_write`, as for real-sized replies. `EpollEngine_trunc.cfg` uses 4 to make the wrap reachable.
- **Orchestration.**
  - `--tx t1 --tx t2` (an empty list arises only from `--server_only`; `--tx` needs at least one token), `--rx io_uring --rx epoll`, one client-only port, and `--runs` 1 or 2. With 2, each list doubles, main runs 16 benchmarks, and each key repeats 4 times. With 1, no key repeats, so the print filter's `<= 1` is exercised both ways.
  - Up to two SIGINTs, at any point: before, during and between benchmarks, and the second one's `die()`.
  - In the `process` run, the RxStats part keeps Orchestration at one initial state (server-only, `--runs 1`), and the Orchestration part keeps RxStats at its initial state. The run therefore checks each part's own states, not their product.
- **RxStats.** Waits of 0, 400 ms and 1 s, up to 3 zero-time loops per interval, and 3.2 s of clock. Intervals flush after 1 to 3 waits, may last up to 2 s, and can have a rate under 1 request/s.

### Fairness
- Only the receiver thread is fair: `WF_vars(Engine)`. The thread is always runnable, because every wait has a timeout (1 s, then 100 ms after stop), so a pending step of the loop is eventually taken.
- Peers and the kernel get no fairness. A peer may stay connected forever, and a submitted recv need not complete. This is why `ShutdownTerminates` depends on the second shutdown check rather than on connections draining.
- `EpollEngine` has `WF_vars(Engine)` for the same reason: `epoll_wait` has a 1 s timeout. It also has `WF_vars(PeerRead(c))`: the benchmark's sender reads every reply it waits for. `RepliesDelivered` depends on this; without it, a peer that never reads would hold a reply forever. There is no fairness for peers sending or closing.
- `Orchestration` has `WF` on main and on the receiver threads.
  - main blocks only in `runSender`, which returns after `--time` seconds, and in `join`.
  - Every engine wait has a timeout, so a thread that has a flag to see reaches its test.
  - One `WF` covers all receiver steps. A thread has at most two receiver steps, and no step disables another thread's, so this gives each thread its steps as per-thread fairness would.
  - The user (`Signal`) and the peers that let an io_uring loop drain (`RingDrained`) get no fairness.
- `FrameParser` has `WF` on `Recv` only to rule out stuttering before the stream ends.

## 4. Abstractions and what is not modelled
- **Data.** Bytes are small integers in `FrameParser`. In `RingEngine` a recv's bytes are abstracted to "this chunk completed requests that owe a reply" (a free choice per completion). The parser module checks that question on its own.
- **Ring engine error paths not modelled:**
  - Submit errors other than `-EBUSY` under overflow (`-ENOMEM`, argument errors). Overflowed completions stay on the overflow list, as on kernels with `IORING_FEAT_NODROP`.
  - Failed provide completions (line 1100): only a kernel resource or argument error fails a provide.
  - Accept errors.
  - `recvmsg` header parsing: a successful multishot `recvmsg` result always carries the header, so `io_uring_recvmsg_validate` does not fail on kernel output, and `recvmsg` otherwise differs from `recv` only in the syscall.
- **Kernel feature probing, ring setup flags, `register_ring`, `defer_taskrun`:** setup only.
- **Epoll engine:**
  - `accept4` and `epoll_ctl` failures other than `EAGAIN` throw out of `loop()` and are not modelled.
  - `recvmsg` and `recv` differ only in the syscall.
  - A send to a closed peer fails at once. In reality the first send may still succeed.
  - `doWrite`'s send loop is one step, with no peer read inside it.
  - `kAccept6` is the same as `kAccept4`.
- **RxStats:** bytes and overflows are counted like requests and loops and are only printed. The CPU times from `times()` and the `getReadStats` percentiles are output formatting.
- **Orchestration, not modelled:**
  - `pickPort`, `mkServerSock` and the control server: socket I/O.
  - The log lines and `aggregateResults`' statistics: output formatting.
  - `run()`'s `InterruptedException` handler: nothing under `src/` throws it.
  - A `die()` inside a receiver thread: it ends the process like the handler's.
- **Configuration, not modelled:** option parsing other than the `tx`/`rx` list shaping. It fills configuration structs whose values are the constants of these models.
- **`runWorkload`:** CPU only.
- **The sender (`sender.h`, `control.h`):** outside the source. It is modelled as peers that follow the wire format.

## 5. Plan (in order of importance; done items marked)
1. **Done:** `FrameParser`, because every engine depends on correct framing.
2. **Done:** `BufferProviderV1` and `BufferProviderV2`, the buffer pools whose conservation the ring engine relies on.
3. **Done:** `RingEngine`, composing both providers by `INSTANCE`: accept, recv (single-shot and multishot), send, close, fixed files, SQ overflow and shutdown.
4. **Done:** the loop head's three branches, the CQ with its overflow list and `flushOverflow` in `RingEngine`. **Done:** the `-EBUSY` submit error and the spin it causes. Left out, with reasons in section 4: other submit errors, failed provides and accept errors.
5. **Done:** `EpollEngine`: accept drain, read until short, inline and batched writes, write-interest arm/disarm (lines 1583-1621), and the write queue's stale-pointer check (1721-1724). Properties: write interest armed iff bytes are owed; every owed reply eventually sent, under fairness of the epoll wait.
8. Check `EpollEngine` in inline-send mode in a passing run too (a third peer or larger `MaxIn` for both modes needs a faster machine), and model the engines feeding `RxStats` together.
6. **Next:** an abstract specification of a connection's service: frames in → replies out, in order (spec.md 5, "replies for frame n before frame n+1"). Refined by `RingEngine` composed with `FrameParser`'s results through a refinement mapping (`INSTANCE ... WITH`), checked as a PROPERTY.
7. **Done:** `RxStats`: the per-interval reset and the `lastRps_` suppression (lines 391, 427).
9. **Done:** `Orchestration`: main's benchmark loop, server mode, the receiver threads' exit on either flag, `intHandler`, the `to_agg` grouping, and `parse`'s list shaping. It found two disagreements with spec.md 6: a SIGINT does not stop the benchmark, and `--runs n` runs each pair n² times. **Next:** a listed violation run for each of them, when the run budget allows.
