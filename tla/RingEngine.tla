----------------------------- MODULE RingEngine -----------------------------
(***************************************************************************)
(* IOUringRunner<BasicSock<Flags>> (src/netbench.cpp:1049-1505): one       *)
(* receiver thread driving an io_uring.  The engine queues submissions     *)
(* (accept, recv, send, close, provide-buffers) in the SQ, submits them    *)
(* and waits, then drains the CQ, handling each completion by the tag in   *)
(* its user_data.  The kernel completes submitted operations in any order; *)
(* the peers connect, send and close when they like.                       *)
(*                                                                         *)
(* Data is abstracted: a recv completion carries a buffer id and whether   *)
(* more completions follow (IORING_CQE_F_MORE); whether the bytes finished *)
(* a request that owes a reply is the parser's business (FrameParser) and  *)
(* is a free choice here.  One listening socket, as makeIoUringRx adds.    *)
(***************************************************************************)
EXTENDS Integers, Sequences, SequencesExt, BagsExt

CONSTANTS
    Conns,           \* the peers' connections (model values)
    NoConn,          \* placeholder connection of accept/provide entries
    Provider,        \* kUseBufferProviderVersion: 0, 1 or 2
    NumBuffers,      \* provided_buffer_count
    LowWatermark,    \* provided_buffer_low_watermark (V1)
    CompactOn,       \* provided_buffer_compact (V1)
    StageSize,       \* BufferProviderV2's indices.size()
    FixedFiles,      \* fixed_files: direct accept into registered slots
    FixedFileCount,  \* fixed_file_count
    MultiShot,       \* multishot_recv
    SkipSuccess,     \* cqe_skip_success_flag set on sends
    NonblockAccept,  \* supports_nonblock_accept
    SqeCount,        \* SQ ring entries
    CqCount,         \* CQ ring entries (cqe_count, else twice sqe_count)
    MaxData,         \* data completions each peer's bytes can produce
    BusyOnOverflow   \* the kernel fails an enter with -EBUSY when
                     \* GETEVENTS cannot flush its whole overflow list

ASSUME /\ Provider \in {0, 1, 2} /\ NoConn \notin Conns
       /\ MultiShot => Provider > 0      \* multishot recv needs buffer select
       /\ SqeCount \in Nat \ {0} /\ CqCount \in Nat \ {0} /\ MaxData \in Nat
       /\ BusyOnOverflow \in BOOLEAN
       /\ CqCount >= SqeCount               \* else io_uring_setup fails (EINVAL)

V1 == INSTANCE BufferProviderV1 WITH Count <- NumBuffers,
        toProvide <- << >>, toProvideCount <- 0, sq <- << >>, kernel <- {},
        inflight <- {}
V2 == INSTANCE BufferProviderV2 WITH Count <- NumBuffers, MaxInflight <- 1,
        MaxRecvs <- 0, staged <- << >>, ring <- << >>, tail <- 0, head <- 0,
        inflight <- {}, recvs <- 0

Bids == IF Provider = 0 THEN {} ELSE 0..(NumBuffers - 1)
NoRange == [start |-> 0, count |-> 0]

\* Submission and completion entries; `c` is the socket the user_data tags.
Sqe(op, c, i, r) == [op |-> op, c |-> c, idx |-> i, r |-> r]
AcceptSqe(i) == Sqe("accept", NoConn, i, NoRange)
ReadSqe(c) == Sqe("read", c, -1, NoRange)
SendSqe(c) == Sqe("send", c, -1, NoRange)
CloseSqe(c) == Sqe("close", c, -1, NoRange)
ProvideSqe(r) == Sqe("provide", NoConn, -1, r)
Cqe(op, c, res, bid, more) == [op |-> op, c |-> c, res |-> res, bid |-> bid, more |-> more]

VARIABLES
    sq,             \* submissions queued since the last submit (`expected`)
    kops,           \* bag of submitted operations the kernel has not finished
    kbufs,          \* V1: buffer ids provided to the kernel
    khead,          \* V2: the kernel's head in the buffer ring
    cq,             \* completions in the CQ ring, not yet handled
    ovf,            \* completions in the kernel's overflow list (CQ ring full)
    seen,           \* entries handled in this drain, not yet io_uring_cq_advance'd
    peer,           \* peer[c]: "idle", "backlog" (in the listen queue), "open", "closed"
    sent,           \* data completions produced for c so far
    sock,           \* the engine's TSock for c: "none", "open", "closing" (closed_), "freed"
    fd,             \* fixed-file slot of c's socket (-1 without fixed files)
    free, freeCount,        \* V1 toProvide_ and toProvideCount_
    staged, ring, tail,     \* V2 indices/cachedIndices, ring_->bufs, tailCached_
    socks,          \* RunnerBase::socks_
    pool,           \* acceptFdPool_, back = Last
    nextAcceptIdx,  \* ListenSock::nextAcceptIdx
    stopping,       \* stopping
    shutdown,       \* should_shutdown / globalShouldShutdown
    phase,          \* "top" of loop, "drain" of the CQ, "exited", "dead" (die())
    spinning        \* submit() retries a failing io_uring_submit for ever

kernVars == <<kops, kbufs, khead, ovf>>
connVars == <<peer, sent, sock, fd>>
provVars == <<free, freeCount, staged, ring, tail>>
engVars == <<socks, pool, nextAcceptIdx, stopping, phase, seen, spinning>>
vars == <<sq, cq, shutdown, kernVars, connVars, provVars, engVars>>

-----------------------------------------------------------------------------
(***************************************************************************)
(* The SQ and the CQ.  Submitting hands every queued entry to the kernel: *)
(* a provide-buffers entry runs at once, adding its range to the kernel's  *)
(* pool and posting a completion (user_data NULL); the other entries       *)
(* become pending kernel operations.  The kernel posts a completion into   *)
(* the CQ ring while the ring has room and no earlier completion waits in  *)
(* its overflow list, and appends it to the overflow list otherwise.       *)
(* st = [sq, kops, kbufs, cq, ovf, room, busy], room = free CQ ring slots; *)
(* busy: submit() is stuck in its retry loop.                             *)
(***************************************************************************)
Post(st, e) == IF st.ovf # << >> \/ st.room = 0
               THEN [st EXCEPT !.ovf = Append(@, e)]
               ELSE [st EXCEPT !.cq = Append(@, e), !.room = @ - 1]

\* Mutation: the flush keeps what fits in the ring and drops the rest.
FlushOverflowDrop(st) ==
    LET n == IF st.room < Len(st.ovf) THEN st.room ELSE Len(st.ovf)
    IN [st EXCEPT !.cq = @ \o SubSeq(st.ovf, 1, n), !.ovf = << >>, !.room = @ - n]

\* An io_uring_enter with IORING_ENTER_GETEVENTS (flushOverflow(), the
\* submit-and-wait, the wait) first moves overflowed completions, oldest
\* first, into the ring while it has room.
FlushOverflow(st) ==
    LET n == IF st.room < Len(st.ovf) THEN st.room ELSE Len(st.ovf)
    IN [st EXCEPT !.cq = @ \o SubSeq(st.ovf, 1, n),
                  !.ovf = SubSeq(@, n + 1, Len(@)), !.room = @ - n]

(***************************************************************************)
(* submit() (1332-1346): io_uring_submit.  liburing adds                   *)
(* IORING_ENTER_GETEVENTS while the kernel flags a CQ overflow, so the     *)
(* enter first flushes the overflow list.  If that cannot empty the list  *)
(* and the kernel fails the enter with -EBUSY, `expected -= got` grows     *)
(* `expected` and the while loop retries for ever: nothing frees CQ slots *)
(* while the thread is inside submit().  A provide carries                *)
(* IOSQE_CQE_SKIP_SUCCESS (605), so a successful one posts no completion. *)
(***************************************************************************)
Submit(st) ==
    LET f == IF st.ovf # << >> THEN FlushOverflow(st) ELSE st
        prov == SelectSeq(f.sq, LAMBDA e : e.op = "provide")
        ops == SelectSeq(f.sq, LAMBDA e : e.op # "provide")
    IN IF BusyOnOverflow /\ f.ovf # << >> THEN [f EXCEPT !.busy = TRUE]
       ELSE [f EXCEPT !.sq = << >>, !.kops = f.kops (+) ToBag(ops),
             !.kbufs = f.kbufs \cup UNION {V1!RangeBids(prov[i].r) : i \in DOMAIN prov}]

(* Queue appends entries as get_sqe() hands them out; when the SQ is full  *)
(* get_sqe() first calls submit() (1138-1149).                             *)
\* Mutation: get_sqe() without the submit when the SQ is full.
QueueNoSubmit(st, es) == FoldLeft(LAMBDA s, e : [s EXCEPT !.sq = Append(@, e)], st, es)

Queue(st, es) ==
    FoldLeft(LAMBDA s, e : IF s.busy THEN s
                           ELSE LET t == IF Len(s.sq) = SqeCount THEN Submit(s) ELSE s
                                IN IF t.busy THEN t ELSE [t EXCEPT !.sq = Append(@, e)],
             st, es)

CqRoom == CqCount - Len(cq) - seen
SqState == [sq |-> sq, kops |-> kops, kbufs |-> kbufs, cq |-> cq, ovf |-> ovf,
            room |-> CqRoom, busy |-> FALSE]

\* Assign the SQ, the kernel pool and the CQ from a queue/submit result.
SetSq(st) == /\ sq' = st.sq /\ kops' = st.kops /\ kbufs' = st.kbufs
             /\ cq' = st.cq /\ ovf' = st.ovf /\ spinning' = st.busy

\* The kernel posts completion e.
KernelPost(e) == LET st == Post(SqState, e) IN cq' = st.cq /\ ovf' = st.ovf

\* provideBuffers(force) (1086-1102): only V1 has anything to provide.
ProvideBuffers(force) ==
    IF Provider = 1 THEN V1!ProvideAll(free, freeCount, force)
    ELSE [free |-> free, count |-> freeCount, sqes |-> << >>]
ProvideSqes(rs) == [i \in DOMAIN rs |-> ProvideSqe(rs[i])]

-----------------------------------------------------------------------------
(* Engine-side helpers, one per piece of a handler. *)

\* Mutation: the fixed slot stays reserved after the accept completes.
ClaimAcceptIdxKeep(nai) == nai
\* processAccept: used_fd = nextAcceptIdx; nextAcceptIdx = -1 (1179-1180)
ClaimAcceptIdx(nai) == -1

\* addAccept with fixed files (1125-1131) and nextFdIdx() (1459-1466):
\* die if an accept already holds a slot or the pool is empty, else pop.
AddAcceptFixed(nai, pl) ==
    IF nai >= 0 \/ pl = << >> THEN [die |-> TRUE, nai |-> nai, pool |-> pl]
    ELSE [die |-> FALSE, nai |-> Last(pl), pool |-> Front(pl)]

\* Mutation: re-arm the recv after every completion.
ReArmAlways(more) == TRUE
\* Mutation: the F_MORE test inverted.
ReArmInverted(more) == MultiShot /\ more
\* if (!sock->isMultiShotRecv() || !(cqe->flags & IORING_CQE_F_MORE)) (1250)
ReArm(more) == ~MultiShot \/ ~more

\* if (res.recycleBufferIdx > 0) (1238): id 0 is never handed back.
Recycles(bid) == bid > 0

\* returnIndex + provideBuffers(false) of processRead (1238-1241).
Recycle(bid) ==
    IF ~Recycles(bid) \/ Provider = 0
    THEN [free |-> free, count |-> freeCount, staged |-> staged, ring |-> ring,
          tail |-> tail, sqes |-> << >>]
    ELSE IF Provider = 1
    THEN LET p == V1!ProvideAll(V1!ReturnIndex(free, bid), freeCount + 1, FALSE)
         IN [free |-> p.free, count |-> p.count, staged |-> staged, ring |-> ring,
             tail |-> tail, sqes |-> ProvideSqes(p.sqes)]
    ELSE LET s == V2!ReturnIndexV2([staged |-> staged, ring |-> ring, tail |-> tail], bid)
         IN [free |-> free, count |-> freeCount, staged |-> s.staged, ring |-> s.ring,
             tail |-> s.tail, sqes |-> << >>]

\* Mutation: the socket is deleted without delSock().
ReleaseSockKeepCount(c) == /\ sock' = [sock EXCEPT ![c] = "freed"]
                           /\ socks' = socks
\* doClose(); delete sock; delSock() (1280-1282)
ReleaseSock(c) == /\ sock' = [sock EXCEPT ![c] = "freed"]
                  /\ socks' = socks - 1

\* Mutation: the pool does not get the slot back.
RecycleSlotNone(pl, i) == pl
\* processClose: acceptFdPool_.push_back(sock->fd()) (1223-1226)
RecycleSlot(pl, i) == IF FixedFiles THEN Append(pl, i) ELSE pl

\* Mutation: the second shutdown check does not give up.
ShutdownCheckNoBreak ==
    IF shutdown THEN stopping' = TRUE /\ phase' = "drain"
    ELSE UNCHANGED stopping /\ phase' = "drain"
\* The check after the wait (1422-1432): stop() the first time, leave the
\* loop ("we gave it a good try") the second time.
ShutdownCheck ==
    IF shutdown /\ stopping THEN phase' = "exited" /\ UNCHANGED stopping
    ELSE IF shutdown THEN stopping' = TRUE /\ phase' = "drain"
    ELSE UNCHANGED stopping /\ phase' = "drain"
-----------------------------------------------------------------------------
(***************************************************************************)
(* The runner's constructor and addListenSock (1051-1069, 1109-1113): V1   *)
(* provides the whole pool with force and submits; V2 publishes every      *)
(* buffer in its ring; fixed files fill acceptFdPool_ with slots n-1..0;   *)
(* the first accept is queued.                                             *)
(***************************************************************************)
InitPool == [i \in 1..(IF FixedFiles THEN FixedFileCount ELSE 0) |-> FixedFileCount - i]
InitAccept == IF FixedFiles THEN AddAcceptFixed(-1, InitPool)
              ELSE [die |-> FALSE, nai |-> -1, pool |-> InitPool]

Init ==
    LET p == IF Provider = 1
             THEN V1!ProvideAll(<< V1!MkRange(0, NumBuffers) >>, NumBuffers, TRUE)
             ELSE [free |-> << >>, count |-> 0, sqes |-> << >>]
        st == Submit(Queue([sq |-> << >>, kops |-> EmptyBag, kbufs |-> {},
                            cq |-> << >>, ovf |-> << >>, room |-> CqCount, busy |-> FALSE],
                           ProvideSqes(p.sqes)))
        st2 == Queue(st, << AcceptSqe(InitAccept.nai) >>)
    IN /\ sq = st2.sq /\ kops = st2.kops /\ kbufs = st2.kbufs
       /\ cq = st2.cq /\ ovf = st2.ovf /\ seen = 0
       /\ khead = 0
       /\ peer = [c \in Conns |-> "idle"] /\ sent = [c \in Conns |-> 0]
       /\ sock = [c \in Conns |-> "none"] /\ fd = [c \in Conns |-> -1]
       /\ free = p.free /\ freeCount = p.count
       /\ staged = << >>
       /\ ring = IF Provider = 2 THEN V2!InitRing ELSE << >>
       /\ tail = IF Provider = 2 THEN NumBuffers ELSE 0
       /\ socks = 0 /\ pool = InitAccept.pool /\ nextAcceptIdx = InitAccept.nai
       /\ stopping = FALSE /\ shutdown = FALSE /\ phase = "top" /\ spinning = FALSE

-----------------------------------------------------------------------------
(* The environment: peers and the kernel. *)

PeerConnect(c) == /\ peer[c] = "idle"
                  /\ peer' = [peer EXCEPT ![c] = "backlog"]
                  /\ UNCHANGED <<sq, cq, shutdown, kernVars, sent, sock, fd, provVars, engVars>>

PeerClose(c) == /\ peer[c] = "open"
                /\ peer' = [peer EXCEPT ![c] = "closed"]
                /\ UNCHANGED <<sq, cq, shutdown, kernVars, sent, sock, fd, provVars, engVars>>

\* SIGINT/SIGTERM or the run's end sets the shutdown flag.
RequestShutdown == /\ ~shutdown /\ shutdown' = TRUE
                   /\ UNCHANGED <<sq, cq, kernVars, connVars, provVars, engVars>>

\* The pending accept takes a connection from the listen queue.
KernelAccept == \E c \in Conns, a \in BagToSet(kops) :
    /\ a.op = "accept" /\ peer[c] = "backlog"
    /\ kops' = BagRemove(kops, a)
    /\ peer' = [peer EXCEPT ![c] = "open"]
    /\ KernelPost(Cqe("accept", c, "ok", -1, FALSE))
    /\ UNCHANGED <<sq, shutdown, kbufs, khead, sent, sock, fd, provVars, engVars>>

\* Buffer ids the kernel would select for a recv now (-1: no provider).
KernelOffers == CASE Provider = 0 -> {-1}
                  [] Provider = 1 -> kbufs
                  [] Provider = 2 -> IF khead = tail THEN {} ELSE {ring[V2!Slot(khead)]}

TakeBuffer(b) == /\ kbufs' = kbufs \ {b}
                 /\ khead' = IF Provider = 2 THEN (khead + 1) % V2!U16 ELSE khead

\* A recv (single or multishot) completes with data in buffer b; a
\* multishot recv stays armed while the completion carries F_MORE.
KernelRecvData(c) == \E b \in KernelOffers, more \in {FALSE, MultiShot} :
    /\ ReadSqe(c) \in BagToSet(kops) /\ peer[c] = "open" /\ sent[c] < MaxData
    /\ TakeBuffer(b)
    /\ kops' = IF more THEN kops ELSE BagRemove(kops, ReadSqe(c))
    /\ sent' = [sent EXCEPT ![c] = @ + 1]
    /\ KernelPost(Cqe("read", c, "data", b, more))
    /\ UNCHANGED <<sq, shutdown, peer, sock, fd, provVars, engVars>>

\* Data arrives and the buffer group is empty: -ENOBUFS, the recv ends.
KernelRecvNoBuffer(c) ==
    /\ ReadSqe(c) \in BagToSet(kops) /\ peer[c] = "open" /\ sent[c] < MaxData
    /\ Provider > 0 /\ KernelOffers = {}
    /\ kops' = BagRemove(kops, ReadSqe(c))
    /\ KernelPost(Cqe("read", c, "enobufs", -1, FALSE))
    /\ UNCHANGED <<sq, shutdown, kbufs, khead, connVars, provVars, engVars>>

\* The peer has closed: the recv completes with 0 (or -ECONNRESET).
KernelRecvEof(c) ==
    /\ ReadSqe(c) \in BagToSet(kops) /\ peer[c] = "closed"
    /\ kops' = BagRemove(kops, ReadSqe(c))
    /\ KernelPost(Cqe("read", c, "eof", -1, FALSE))
    /\ UNCHANGED <<sq, shutdown, kbufs, khead, connVars, provVars, engVars>>

\* A send finishes; it can fail once the peer has gone.  A success posts no
\* completion when IOSQE_CQE_SKIP_SUCCESS is set.
KernelSend(c) == \E fail \in {FALSE, peer[c] = "closed"} :
    /\ SendSqe(c) \in BagToSet(kops)
    /\ kops' = BagRemove(kops, SendSqe(c))
    /\ IF fail THEN KernelPost(Cqe("send", c, "err", -1, FALSE))
       ELSE IF SkipSuccess THEN UNCHANGED <<cq, ovf>>
       ELSE KernelPost(Cqe("send", c, "ok", -1, FALSE))
    /\ UNCHANGED <<sq, shutdown, kbufs, khead, connVars, provVars, engVars>>

\* A close (close_direct with fixed files) finishes.
KernelClose(c) ==
    /\ CloseSqe(c) \in BagToSet(kops)
    /\ kops' = BagRemove(kops, CloseSqe(c))
    /\ KernelPost(Cqe("close", c, "ok", -1, FALSE))
    /\ UNCHANGED <<sq, shutdown, kbufs, khead, connVars, provVars, engVars>>
-----------------------------------------------------------------------------
(***************************************************************************)
(* The receiver thread, loop() (1382-1450).  LoopTop is one pass of the    *)
(* loop head: read the CQ overflow flag, provideBuffers(false), then       *)
(* flushOverflow() if the CQ had overflowed, else submit-and-wait if       *)
(* anything is queued, else wait for one completion and handle it.  The    *)
(* shutdown check follows, then the CQ is drained one completion a step.   *)
(* The 1 s (after stop 100 ms) timeout means every wait returns.           *)
(***************************************************************************)
\* while (socks() || !stopping) fails: the loop ends.
LoopExit == /\ phase = "top" /\ ~(socks > 0 \/ ~stopping)
            /\ phase' = "exited"
            /\ UNCHANGED <<sq, cq, shutdown, kernVars, connVars, provVars,
                           socks, pool, nextAcceptIdx, stopping, seen, spinning>>

\* `expected` counts the entries queued since the last submit: Len(sq).
\* submitAndWait1 dies on an error other than -ETIME/-EINTR, -EBUSY included.
LoopTop ==
    LET wasOverflow == ovf # << >>
        p == ProvideBuffers(FALSE)
        st == Queue(SqState, ProvideSqes(p.sqes))
        sw == Submit(st)
    IN /\ phase = "top" /\ (socks > 0 \/ ~stopping)
       /\ free' = p.free /\ freeCount' = p.count
       /\ CASE st.busy         -> SetSq(st) /\ UNCHANGED phase
            [] wasOverflow     -> SetSq(FlushOverflow(st)) /\ phase' = "check"
            [] st.sq # << >> -> SetSq(FlushOverflow([sw EXCEPT !.busy = FALSE]))
                                 /\ phase' = IF sw.busy THEN "dead" ELSE "check"
            [] OTHER           -> SetSq(st) /\ phase' = "wait"
       /\ UNCHANGED <<shutdown, khead, connVars, staged, ring, tail, socks, pool,
                      nextAcceptIdx, stopping, seen>>

\* io_uring_wait_cqe_timeout returned without a completion.
WaitTimeout == /\ phase = "wait" /\ cq = << >>
               /\ phase' = "check"
               /\ UNCHANGED <<sq, cq, shutdown, kernVars, connVars, provVars,
                              socks, pool, nextAcceptIdx, stopping, seen, spinning>>

\* The shutdown check after the wait (1422-1432).
CheckShutdown == /\ phase = "check" /\ ShutdownCheck
                 /\ UNCHANGED <<sq, cq, shutdown, kernVars, connVars, provVars,
                                socks, pool, nextAcceptIdx, seen, spinning>>

\* io_uring_for_each_cqe reached the tail; io_uring_cq_advance frees the
\* slots of the entries handled.
EndDrain == /\ phase = "drain" /\ cq = << >>
            /\ phase' = "top" /\ seen' = 0
            /\ UNCHANGED <<sq, cq, shutdown, kernVars, connVars, provVars,
                           socks, pool, nextAcceptIdx, stopping, spinning>>

(***************************************************************************)
(* processCqe (1287-1330) on the completion at the CQ head, in the drain   *)
(* or as the one completion of the wait.  The drain's entry keeps its ring *)
(* slot until the advance; the wait's is freed at once (cqe_seen).  HState *)
(* is the SQ/CQ state the handler starts from; Handled(die) ends it.       *)
(***************************************************************************)
Cur == Head(cq)
Handling(op) == phase \in {"wait", "drain"} /\ cq # << >> /\ Cur.op = op
HState == [SqState EXCEPT !.cq = Tail(cq),
                          !.room = IF phase = "wait" THEN @ + 1 ELSE @]
Handled(die) == /\ seen' = IF phase = "drain" THEN seen + 1 ELSE seen
                /\ phase' = CASE die -> "dead"
                              [] phase = "wait" -> "check"
                              [] OTHER -> phase

(***************************************************************************)
(* processAccept (1166-1218): a new socket with a recv armed; unless       *)
(* stopping, with nonblocking accept and no fixed files accept4() drains   *)
(* the listen queue into more sockets, and the accept is re-armed (a fixed *)
(* slot taken from the pool first).                                        *)
(***************************************************************************)
ProcessAccept ==
    LET c == Cur.c
        drain == IF ~stopping /\ NonblockAccept /\ ~FixedFiles
                 THEN {x \in Conns : peer[x] = "backlog"} ELSE {}
        new == {c} \cup drain
        reads == [i \in 1..Cardinality(new) |-> ReadSqe(SetToSeq(new)[i])]
        nai == IF FixedFiles THEN ClaimAcceptIdx(nextAcceptIdx) ELSE -1
        acc == IF FixedFiles THEN AddAcceptFixed(nai, pool)
               ELSE [die |-> FALSE, nai |-> -1, pool |-> pool]
    IN /\ Handling("accept")
       /\ sock' = [x \in Conns |-> IF x \in new THEN "open" ELSE sock[x]]
       /\ fd' = IF FixedFiles THEN [fd EXCEPT ![c] = nextAcceptIdx] ELSE fd
       /\ peer' = [x \in Conns |-> IF x \in drain THEN "open" ELSE peer[x]]
       /\ socks' = socks + Cardinality(new)
       /\ IF stopping
          THEN /\ SetSq(Queue(HState, reads))
               /\ nextAcceptIdx' = nai /\ UNCHANGED pool /\ Handled(FALSE)
          ELSE /\ SetSq(Queue(HState, reads \o (IF acc.die THEN << >>
                                                 ELSE << AcceptSqe(acc.nai) >>)))
               /\ nextAcceptIdx' = acc.nai /\ pool' = acc.pool /\ Handled(acc.die)
       /\ UNCHANGED <<shutdown, khead, sent, provVars, stopping>>

(***************************************************************************)
(* processRead (1234-1285) on a completion with data: hand the buffer back *)
(* (and V1 provideBuffers), queue a send if the bytes finished requests    *)
(* that owe a reply, re-arm the recv unless a multishot recv is still on.  *)
(***************************************************************************)
ProcessReadData ==
    LET r == Recycle(Cur.bid) IN
    /\ Handling("read") /\ Cur.res = "data"
    /\ \E owes \in BOOLEAN :
         SetSq(Queue(HState, r.sqes \o (IF owes THEN << SendSqe(Cur.c) >> ELSE << >>)
                                \o (IF ReArm(Cur.more) THEN << ReadSqe(Cur.c) >> ELSE << >>)))
    /\ free' = r.free /\ freeCount' = r.count
    /\ staged' = r.staged /\ ring' = r.ring /\ tail' = r.tail
    /\ Handled(FALSE)
    /\ UNCHANGED <<shutdown, khead, connVars, socks, pool, nextAcceptIdx, stopping>>

\* -ENOBUFS: die("not enough buffers ...") (1254-1262).
ProcessReadNoBuffer ==
    /\ Handling("read") /\ Cur.res = "enobufs"
    /\ SetSq(HState) /\ Handled(TRUE)
    /\ UNCHANGED <<shutdown, khead, connVars, provVars, socks, pool,
                   nextAcceptIdx, stopping>>

\* End of stream or error: close_direct with fixed files, else close and
\* delete the socket now (1275-1283).
ProcessReadEof ==
    LET c == Cur.c IN
    /\ Handling("read") /\ Cur.res = "eof"
    /\ IF FixedFiles
       THEN /\ SetSq(Queue(HState, << CloseSqe(c) >>))
            /\ sock' = [sock EXCEPT ![c] = "closing"] /\ UNCHANGED socks
       ELSE /\ ReleaseSock(c) /\ SetSq(HState)
    /\ Handled(FALSE)
    /\ UNCHANGED <<shutdown, khead, peer, sent, fd, provVars, pool, nextAcceptIdx,
                   stopping>>

\* kWrite (1296-1313): a failed send only logs, after reading sock->closing().
ProcessSend ==
    /\ Handling("send")
    /\ SetSq(HState) /\ Handled(FALSE)
    /\ UNCHANGED <<shutdown, khead, connVars, provVars, socks, pool,
                   nextAcceptIdx, stopping>>

\* kOther on a closing socket: processClose (1220-1232) recycles the slot and
\* deletes the socket; socks_ is left alone.
ProcessClose ==
    LET c == Cur.c IN
    /\ Handling("close")
    /\ pool' = RecycleSlot(pool, fd[c])
    /\ sock' = [sock EXCEPT ![c] = "freed"]
    /\ SetSq(HState) /\ Handled(FALSE)
    /\ UNCHANGED <<shutdown, khead, peer, sent, fd, provVars, socks,
                   nextAcceptIdx, stopping>>

\* The thread has returned from loop() or the process has died.
Terminated == (phase \in {"exited", "dead"} \/ spinning) /\ UNCHANGED vars

Engine == /\ ~spinning
          /\ \/ LoopExit \/ LoopTop \/ WaitTimeout \/ CheckShutdown \/ EndDrain
             \/ ProcessAccept \/ ProcessReadData \/ ProcessReadNoBuffer
             \/ ProcessReadEof \/ ProcessSend \/ ProcessClose

Environment == RequestShutdown \/ KernelAccept
               \/ \E c \in Conns : \/ PeerConnect(c) \/ PeerClose(c)
                                   \/ KernelRecvData(c) \/ KernelRecvNoBuffer(c)
                                   \/ KernelRecvEof(c) \/ KernelSend(c) \/ KernelClose(c)

Next == Engine \/ Environment \/ Terminated

\* The receiver thread is always runnable (its waits time out); the peers
\* and the kernel owe nothing.
Spec == Init /\ [][Next]_vars /\ WF_vars(Engine)
-----------------------------------------------------------------------------
Running == phase \in {"top", "wait", "check", "drain"}
Slots == 0..(FixedFileCount - 1)

TypeOK ==
    /\ sq \in Seq([op : {"accept", "read", "send", "close", "provide"},
                   c : Conns \cup {NoConn}, idx : Int, r : [start : Int, count : Int]])
    /\ Len(sq) <= SqeCount /\ seen \in Nat /\ Len(cq) + seen <= CqCount
    /\ IsABag(kops) /\ kbufs \subseteq Bids
    /\ peer \in [Conns -> {"idle", "backlog", "open", "closed"}]
    /\ sent \in [Conns -> 0..MaxData]
    /\ sock \in [Conns -> {"none", "open", "closing", "freed"}]
    /\ socks \in Nat /\ stopping \in BOOLEAN /\ shutdown \in BOOLEAN
    /\ phase \in {"top", "wait", "check", "drain", "exited", "dead"}
    /\ spinning \in BOOLEAN

\* Entries anywhere in the SQ, the kernel or the CQ matching P.
CountSq(P(_)) == Len(SelectSeq(sq, P))
CountK(P(_)) == BagCardinality([e \in {x \in BagToSet(kops) : P(x)} |-> kops[e]])
CountCq(P(_)) == Len(SelectSeq(cq \o ovf, P))

(* One recv per socket (the comment at 1297-1299: "we only ever have one   *)
(* read outstanding at once", which makes deleting the socket in kRead     *)
(* safe): while the engine runs, an open socket has exactly one recv chain *)
(* (a queued recv, an armed one in the kernel, or a final completion not   *)
(* yet handled) and a socket being closed or deleted has none.  Multishot  *)
(* re-arming on F_MORE, -ENOBUFS and the close paths must all keep this.   *)
OneRecvChain ==
    Running =>
      \A c \in Conns :
        LET n == CountSq(LAMBDA e : e = ReadSqe(c)) + CountK(LAMBDA e : e = ReadSqe(c))
                 + CountCq(LAMBDA e : e.op = "read" /\ e.c = c /\ ~e.more)
        IN n = IF sock[c] = "open" THEN 1 ELSE 0

AcceptsOutstanding == CountSq(LAMBDA e : e.op = "accept")
                      + CountK(LAMBDA e : e.op = "accept")
                      + CountCq(LAMBDA e : e.op = "accept")

(* One accept at a time (addAccept's "only allowed one accept at a time"): *)
(* until stop() there is exactly one accept in flight, never more after,   *)
(* and with fixed files a slot is reserved in nextAcceptIdx exactly while  *)
(* an accept is queued, in the kernel or completed and not yet handled.    *)
OneAcceptOutstanding ==
    /\ AcceptsOutstanding <= 1
    /\ ~stopping => AcceptsOutstanding = 1
    /\ FixedFiles /\ Running => (nextAcceptIdx >= 0 <=> AcceptsOutstanding = 1)

\* Holders of fixed slot i: the pool, the pending accept, a live socket.
SlotHolders(i) == Cardinality({k \in DOMAIN pool : pool[k] = i})
                  + (IF nextAcceptIdx = i THEN 1 ELSE 0)
                  + Cardinality({c \in Conns : sock[c] \in {"open", "closing"} /\ fd[c] = i})

(* Fixed-slot conservation: every registered file slot is held by exactly *)
(* one of acceptFdPool_, the pending accept and a socket not yet deleted;  *)
(* the slot a close_direct frees returns to the pool and no slot is ever   *)
(* given to two sockets.                                                   *)
FixedSlotConservation == FixedFiles => \A i \in Slots : SlotHolders(i) = 1

(* socks_ counts the sockets the runner owns: the sockets created and not  *)
(* deleted.  The loop's `while (socks() || !stopping)` relies on it        *)
(* reaching 0 when the last connection is gone.                            *)
SocksMatchLive == socks = Cardinality({c \in Conns : sock[c] \in {"open", "closing"}})

\* Places a provided buffer id can be.
BufferHolders(b) ==
    Cardinality({i \in DOMAIN free : b \in V1!RangeBids(free[i])})
    + Cardinality({i \in DOMAIN sq : sq[i].op = "provide" /\ b \in V1!RangeBids(sq[i].r)})
    + (IF b \in kbufs THEN 1 ELSE 0)
    + (IF Provider = 2
       THEN Cardinality({k \in 0..(V2!Published(khead, tail) - 1) :
                           ring[V2!Slot(khead + k)] = b})
       ELSE 0)
    + Cardinality({i \in DOMAIN staged : staged[i] = b})
    + Cardinality({i \in DOMAIN (cq \o ovf) : (cq \o ovf)[i].op = "read"
                                             /\ (cq \o ovf)[i].bid = b})

(* No buffer is in two places: a buffer the kernel fills is never also in  *)
(* the free list, a provide submission, the V2 stage or ring, or another   *)
(* completion, so no two recvs write the same memory.                      *)
BufferExclusive == \A b \in Bids : BufferHolders(b) <= 1

(* Buffer conservation (spec.md 4.4-4.5): every provided buffer is in      *)
(* exactly one place, so the pool never shrinks while the engine runs.     *)
BufferConservation == Running => \A b \in Bids : BufferHolders(b) = 1

(* The pool keeps up: the kernel never has to fail a recv with -ENOBUFS,   *)
(* which processRead turns into die().                                     *)
NoBufferStarvation == \A e \in ToSet(cq \o ovf) : e.res # "enobufs"

\* A completion whose handling dereferences its socket.
DerefsSock(e) == e.op \in {"read", "close"} \/ (e.op = "send" /\ e.res = "err")

(* No use after free: no completion the engine will handle (and whose     *)
(* handler reads the TSock) tags a socket that has been deleted.           *)
NoUseAfterFree ==
    Running => \A e \in ToSet(cq \o ovf) : DerefsSock(e) => sock[e.c] # "freed"

(* Shutdown terminates: once the shutdown flag is set the receiver thread  *)
(* leaves loop() (or dies), whatever the peers do.                         *)
ShutdownTerminates == shutdown ~> phase \in {"exited", "dead"}
=============================================================================
