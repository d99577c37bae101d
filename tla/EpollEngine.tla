---------------------------- MODULE EpollEngine ----------------------------
(***************************************************************************)
(* EPollRunner (src/netbench.cpp:1513-1745): the readiness engine.  One    *)
(* thread waits on an epoll set holding the listening socket (level read   *)
(* interest) and every accepted socket (EPOLLIN | EPOLLET), then handles   *)
(* the returned events in order: the listener drains accept4; a socket is  *)
(* read with recv until a short read, the parser's owed reply is added to  *)
(* to_write, and the reply is sent inline, queued for after the batch      *)
(* (batch_send), or left to a later EPOLLOUT.  A short send arms write     *)
(* interest with EPOLL_CTL_MOD; draining to_write disarms it.              *)
(*                                                                         *)
(* The peers and the kernel act between any two steps.  Bytes are counted *)
(* not stored: a recv takes up to RcvSize bytes, and how much reply the    *)
(* parser owes for them is a free choice from Replies (FrameParser models  *)
(* the parser).  A peer's unread replies sit in sndq, at most SndBuf.      *)
(***************************************************************************)
EXTENDS Integers, Sequences, SequencesExt

CONSTANTS
    Conns,       \* the peers' connections (model values)
    Listener,    \* the listening socket's EPollData
    RcvSize,     \* rcvbuff.size() (recv_size)
    SndBuf,      \* room in a socket's send buffer before send() is EAGAIN
    Replies,     \* reply bytes the parser may report for one recv
    MaxIn,       \* bytes each peer sends in all
    MaxEvents,   \* max_events: epoll_wait's batch limit
    BatchSend,   \* batch_send
    Word         \* 2^32, the range of the std::min<uint32_t> in doWrite

ASSUME /\ Listener \notin Conns
       /\ RcvSize \in Nat \ {0} /\ SndBuf \in Nat \ {0} /\ MaxEvents \in Nat \ {0}
       /\ Replies \subseteq Nat /\ MaxIn \in Nat /\ Word \in Nat \ {0}

VARIABLES
    peer,       \* peer[c]: "idle", "open", "closed" (the peer's end)
    backlog,    \* connections in the listen queue, not yet accepted
    inbytes,    \* bytes received for c and not yet read by the engine
    inTot,      \* bytes the peer has sent in all
    sndq,       \* reply bytes in c's send buffer the peer has not read
    ed,         \* the EPollData of c: "none", "live", "freed" (sockets_)
    to_write,   \* ed->to_write
    armed,      \* ed->write_in_epoll
    interest,   \* c's registration: "none", "in_et" (EPOLLIN|EPOLLET),
                \* "in" (EPOLLIN), "inout" (EPOLLIN|EPOLLOUT)
    edge,       \* an edge-triggered wakeup for c is on the ready list
    owed,       \* reply bytes the parser has reported for c in all
    sentTot,    \* reply bytes send() has accepted for c in all
    socks,      \* RunnerBase::socks_
    phase,      \* "top" of the loop, "dispatch" of events, "read" (doRead
                \* loop), "flush" of write_queue, "exited"
    batch,      \* events[] not yet handled: records [fd, ev]
    cur,        \* the event whose socket doRead is reading
    wq,         \* write_queue
    shutdown    \* should_shutdown / globalShouldShutdown

peerVars == <<peer, backlog, inbytes, inTot, sndq>>
connVars == <<ed, to_write, armed, interest, edge, owed, sentTot>>
vars == <<peerVars, connVars, socks, phase, batch, cur, wq, shutdown>>

-----------------------------------------------------------------------------
(* Readiness as epoll computes it from the socket. *)
Readable(c) == inbytes[c] > 0 \/ peer[c] = "closed"     \* data, EOF or reset
Writable(c) == sndq[c] < SndBuf \/ peer[c] = "closed"

\* The events epoll_wait reports for c under its current registration.
EventsOf(c) ==
    LET in == IF interest[c] = "in_et" THEN edge[c] /\ Readable(c)
              ELSE interest[c] \in {"in", "inout"} /\ Readable(c)
        out == interest[c] = "inout" /\ Writable(c)
    IN {e \in {"IN", "OUT"} : (e = "IN" /\ in) \/ (e = "OUT" /\ out)}

ReadyFds == {c \in Conns : EventsOf(c) # {}}
            \cup (IF backlog # {} THEN {Listener} ELSE {})

\* The parts of one socket that doWrite reads and writes.
W(c) == [tw |-> to_write[c], q |-> sndq[c], sent |-> sentTot[c],
         armed |-> armed[c], interest |-> interest[c]]

SetW(c, w) == /\ to_write' = [to_write EXCEPT ![c] = w.tw]
              /\ sndq' = [sndq EXCEPT ![c] = w.q]
              /\ sentTot' = [sentTot EXCEPT ![c] = w.sent]
              /\ armed' = [armed EXCEPT ![c] = w.armed]
              /\ interest' = [interest EXCEPT ![c] = w.interest]

(***************************************************************************)
(* doWrite's send loop (1586-1601): send min(to_write, rcvbuff.size())     *)
(* bytes until to_write is 0 or send() would block; a failed send (the     *)
(* peer is gone) drops what is owed; a successful one subtracts            *)
(* std::min<uint32_t>(to_write, res), to_write cast to 32 bits.            *)
(***************************************************************************)
RECURSIVE SendLoop(_, _)
SendLoop(w, gone) ==
    IF w.tw = 0 THEN w
    ELSE IF gone THEN [w EXCEPT !.tw = 0]
    ELSE IF w.q = SndBuf THEN w                          \* EAGAIN
    ELSE LET res == Min({w.tw, RcvSize, SndBuf - w.q})
         IN SendLoop([w EXCEPT !.tw = @ - Min({@ % Word, res}),
                               !.q = @ + res, !.sent = @ + res], gone)

\* Mutation: a short send never arms EPOLLOUT.
WritePolicyNoArm(w) ==
    IF w.armed /\ w.tw = 0 THEN [w EXCEPT !.armed = FALSE, !.interest = "in"]
    ELSE w
\* Mutation: write interest armed with the mask EPOLLIN only.
WritePolicyMaskIn(w) ==
    IF w.armed /\ w.tw = 0 THEN [w EXCEPT !.armed = FALSE, !.interest = "in"]
    ELSE IF ~w.armed /\ w.tw > 0 THEN [w EXCEPT !.armed = TRUE, !.interest = "in"]
    ELSE w

(***************************************************************************)
(* doWrite's re-registration (1603-1620): disarm when drained, arm when    *)
(* owed.  Both EPOLL_CTL_MODs leave EPOLLET out of the new mask.           *)
(***************************************************************************)
WritePolicy(w) ==
    IF w.armed /\ w.tw = 0 THEN [w EXCEPT !.armed = FALSE, !.interest = "in"]
    ELSE IF ~w.armed /\ w.tw > 0 THEN [w EXCEPT !.armed = TRUE, !.interest = "inout"]
    ELSE w

DoWrite(w, gone) == WritePolicy(SendLoop(w, gone))

\* Mutation: `ed->to_write = consumed.to_write`, forgetting what was owed.
AddOwedAssign(tw, r) == r
\* doRead: ed->to_write += consumed.to_write (1657)
AddOwed(tw, r) == tw + r

\* Mutation: newSock() once per doAccept, not once per accepted socket.
NewSocksOnce(n, k) == n + 1
\* doAccept's loop calls newSock() for each socket it accepts (1686).
NewSocks(n, k) == n + k

\* Mutation: doSocket ignores doRead's result and goes on to the write.
ReadReturnsIgnored(res) == FALSE
\* doSocket: `if (doRead(ed)) return;` (1570-1574)
ReadReturns(res) == res # 0

(***************************************************************************)
(* doSocket's write decision after the read (1576-1580): write now on      *)
(* EPOLLOUT or when replies are owed without batch_send, else queue the    *)
(* socket when replies are owed.  Returns the new doWrite state and        *)
(* whether the socket joins write_queue.                                   *)
(***************************************************************************)
WriteDecision(c, ev, w) ==
    IF "OUT" \in ev \/ (w.tw > 0 /\ ~BatchSend)
    THEN [w |-> DoWrite(w, peer[c] = "closed"), enq |-> FALSE]
    ELSE [w |-> w, enq |-> w.tw > 0]

-----------------------------------------------------------------------------
Init == /\ peer = [c \in Conns |-> "idle"] /\ backlog = {}
        /\ inbytes = [c \in Conns |-> 0] /\ inTot = [c \in Conns |-> 0]
        /\ sndq = [c \in Conns |-> 0]
        /\ ed = [c \in Conns |-> "none"] /\ to_write = [c \in Conns |-> 0]
        /\ armed = [c \in Conns |-> FALSE] /\ interest = [c \in Conns |-> "none"]
        /\ edge = [c \in Conns |-> FALSE]
        /\ owed = [c \in Conns |-> 0] /\ sentTot = [c \in Conns |-> 0]
        /\ socks = 0 /\ phase = "top" /\ batch = << >>
        /\ cur = [fd |-> Listener, ev |-> {}] /\ wq = << >> /\ shutdown = FALSE

(* The environment: peers connect, send, close and read their replies.     *)
(* Any arrival on a socket registered with EPOLLET queues a wakeup.        *)
Wakeup(c) == [edge EXCEPT ![c] = @ \/ interest[c] = "in_et"]

PeerConnect(c) == /\ peer[c] = "idle"
                  /\ peer' = [peer EXCEPT ![c] = "open"] /\ backlog' = backlog \cup {c}
                  /\ UNCHANGED <<inbytes, inTot, sndq, connVars, socks, phase, batch, cur, wq, shutdown>>

PeerSend(c) == \E n \in 1..RcvSize :
                  /\ peer[c] = "open" /\ inTot[c] + n <= MaxIn
                  /\ inbytes' = [inbytes EXCEPT ![c] = @ + n]
                  /\ inTot' = [inTot EXCEPT ![c] = @ + n]
                  /\ edge' = Wakeup(c)
                  /\ UNCHANGED <<peer, backlog, sndq, ed, to_write, armed, interest, owed, sentTot>>
                  /\ UNCHANGED <<socks, phase, batch, cur, wq, shutdown>>

PeerClose(c) == /\ peer[c] = "open"
                /\ peer' = [peer EXCEPT ![c] = "closed"] /\ edge' = Wakeup(c)
                /\ UNCHANGED <<backlog, inbytes, inTot, sndq, ed, to_write, armed, interest, owed, sentTot>>
                /\ UNCHANGED <<socks, phase, batch, cur, wq, shutdown>>

PeerRead(c) == /\ peer[c] = "open" /\ sndq[c] > 0
               /\ sndq' = [sndq EXCEPT ![c] = 0]
               /\ UNCHANGED <<peer, backlog, inbytes, inTot, connVars, socks, phase, batch, cur, wq, shutdown>>

\* The signal handler or the main thread sets the shutdown flag (67-72).
RequestShutdown == /\ ~shutdown /\ shutdown' = TRUE
                   /\ UNCHANGED <<peerVars, connVars, socks, phase, batch, cur, wq>>

-----------------------------------------------------------------------------
(* loop() (1692-1734): the while test, then one epoll_wait. *)
LoopExit == /\ phase = "top" /\ shutdown /\ phase' = "exited"
            /\ UNCHANGED <<peerVars, connVars, socks, batch, cur, wq, shutdown>>

(* epoll_wait returns up to max_events ready fds in some order and takes   *)
(* the returned edge-triggered items (and unready ones) off the ready      *)
(* list.  No ready fd is the 1 s timeout: an empty batch.                  *)
EpollWait ==
    /\ phase = "top" /\ ~shutdown
    /\ \E S \in kSubset(Min({MaxEvents, Cardinality(ReadyFds)}), ReadyFds) :
       \E o \in SetToSeqs(S) :
          /\ batch' = [i \in DOMAIN o |->
                         [fd |-> o[i], ev |-> IF o[i] = Listener THEN {"IN"} ELSE EventsOf(o[i])]]
          /\ edge' = [c \in Conns |-> edge[c] /\ c \notin S /\ Readable(c)]
    /\ phase' = "dispatch"
    /\ UNCHANGED <<peerVars, ed, to_write, armed, interest, owed, sentTot, socks, cur, wq, shutdown>>

(* doAccept (1663-1688): accept4 until EAGAIN; each socket is added with   *)
(* EPOLLIN | EPOLLET, and EPOLL_CTL_ADD reports it at once if readable.    *)
AcceptEvent ==
    /\ phase = "dispatch" /\ batch # << >> /\ Head(batch).fd = Listener
    /\ ed' = [c \in Conns |-> IF c \in backlog THEN "live" ELSE ed[c]]
    /\ interest' = [c \in Conns |-> IF c \in backlog THEN "in_et" ELSE interest[c]]
    /\ edge' = [c \in Conns |-> IF c \in backlog THEN Readable(c) ELSE edge[c]]
    /\ socks' = NewSocks(socks, Cardinality(backlog))
    /\ backlog' = {} /\ batch' = Tail(batch)
    /\ UNCHANGED <<peer, inbytes, inTot, sndq, to_write, armed, owed, sentTot, phase, cur, wq, shutdown>>

\* doSocket (1565-1581) on a socket event: EPOLLIN starts doRead.
SocketEvent ==
    /\ phase = "dispatch" /\ batch # << >> /\ Head(batch).fd \in Conns
    /\ LET e == Head(batch) IN
       IF "IN" \in e.ev
       THEN /\ phase' = "read" /\ cur' = e
            /\ UNCHANGED <<connVars, sndq, wq>>
       ELSE LET d == WriteDecision(e.fd, e.ev, W(e.fd)) IN
            /\ SetW(e.fd, d.w)
            /\ wq' = IF d.enq THEN Append(wq, e.fd) ELSE wq
            /\ UNCHANGED <<ed, edge, owed, phase, cur>>
    /\ batch' = Tail(batch)
    /\ UNCHANGED <<peer, backlog, inbytes, inTot, socks, shutdown>>

\* The end of doRead returning 0, then doSocket's write decision.
EndRead(c, w) == LET d == WriteDecision(c, cur.ev, w) IN
                 /\ SetW(c, d.w)
                 /\ wq' = IF d.enq THEN Append(wq, c) ELSE wq
                 /\ phase' = "dispatch"

(* doRead (1623-1661): recv, feed the parser, add its owed reply to        *)
(* to_write; repeat while recv filled the whole buffer.                    *)
RecvData == LET c == cur.fd IN
    /\ phase = "read" /\ inbytes[c] > 0
    /\ \E r \in Replies :
       LET n == Min({inbytes[c], RcvSize})
           w == [W(c) EXCEPT !.tw = AddOwed(@, r)]
       IN /\ inbytes' = [inbytes EXCEPT ![c] = @ - n]
          /\ owed' = [owed EXCEPT ![c] = @ + r]
          /\ IF n = RcvSize
             THEN /\ to_write' = [to_write EXCEPT ![c] = w.tw]
                  /\ UNCHANGED <<sndq, sentTot, armed, interest, wq, phase>>
             ELSE EndRead(c, w)
    /\ UNCHANGED <<peer, backlog, inTot, ed, edge, socks, batch, cur, shutdown>>

\* recv returns EAGAIN: doRead returns 0.
RecvAgain == LET c == cur.fd IN
    /\ phase = "read" /\ inbytes[c] = 0 /\ peer[c] = "open"
    /\ EndRead(c, W(c))
    /\ UNCHANGED <<peer, backlog, inbytes, inTot, ed, edge, owed, socks, batch, cur, shutdown>>

(* recv returns 0 (EOF) or an error: EPOLL_CTL_DEL, delSock(), close,      *)
(* erase from sockets_, delete, return -1 (1630-1648).                     *)
RecvEof == LET c == cur.fd IN
    /\ phase = "read" /\ inbytes[c] = 0 /\ peer[c] = "closed"
    /\ ed' = [ed EXCEPT ![c] = "freed"] /\ edge' = [edge EXCEPT ![c] = FALSE]
    /\ socks' = socks - 1
    /\ IF ReadReturns(-1)
       THEN /\ interest' = [interest EXCEPT ![c] = "none"] /\ phase' = "dispatch"
            /\ UNCHANGED <<sndq, to_write, armed, sentTot, wq>>
       ELSE EndRead(c, [W(c) EXCEPT !.interest = "none"])
    /\ UNCHANGED <<peer, backlog, inbytes, inTot, owed, batch, cur, shutdown>>

EndDispatch == /\ phase = "dispatch" /\ batch = << >> /\ phase' = "flush"
               /\ UNCHANGED <<peerVars, connVars, socks, batch, cur, wq, shutdown>>

(* The write_queue drain (1721-1727): skip sockets no longer in sockets_   *)
(* or with nothing owed, doWrite the rest, then clear the queue.           *)
FlushOne == LET c == Head(wq) IN
    /\ phase = "flush" /\ wq # << >>
    /\ IF ed[c] = "live" /\ to_write[c] > 0
       THEN SetW(c, DoWrite(W(c), peer[c] = "closed"))
       ELSE UNCHANGED <<to_write, sndq, sentTot, armed, interest>>
    /\ wq' = Tail(wq)
    /\ UNCHANGED <<peer, backlog, inbytes, inTot, ed, edge, owed, socks, phase, batch, cur, shutdown>>

EndFlush == /\ phase = "flush" /\ wq = << >> /\ phase' = "top"
            /\ UNCHANGED <<peerVars, connVars, socks, batch, cur, wq, shutdown>>

Terminated == phase = "exited" /\ UNCHANGED vars

Engine == \/ LoopExit \/ EpollWait \/ AcceptEvent \/ SocketEvent \/ EndDispatch
          \/ RecvData \/ RecvAgain \/ RecvEof \/ FlushOne \/ EndFlush

Environment == \/ \E c \in Conns : PeerConnect(c) \/ PeerSend(c) \/ PeerClose(c) \/ PeerRead(c)
               \/ RequestShutdown

Next == Engine \/ Environment \/ Terminated

(* The engine thread never blocks for long (epoll_wait has a 1 s timeout) *)
(* so it keeps taking steps; a peer that is owed replies keeps reading.    *)
Spec == /\ Init /\ [][Next]_vars /\ WF_vars(Engine)
        /\ \A c \in Conns : WF_vars(PeerRead(c))

-----------------------------------------------------------------------------
TypeOK ==
    /\ peer \in [Conns -> {"idle", "open", "closed"}] /\ backlog \subseteq Conns
    /\ inbytes \in [Conns -> 0..MaxIn] /\ inTot \in [Conns -> 0..MaxIn]
    /\ sndq \in [Conns -> 0..SndBuf]
    /\ ed \in [Conns -> {"none", "live", "freed"}]
    /\ to_write \in [Conns -> Nat] /\ armed \in [Conns -> BOOLEAN]
    /\ interest \in [Conns -> {"none", "in_et", "in", "inout"}]
    /\ edge \in [Conns -> BOOLEAN]
    /\ owed \in [Conns -> Nat] /\ sentTot \in [Conns -> Nat]
    /\ socks \in 0..Cardinality(Conns)
    /\ phase \in {"top", "dispatch", "read", "flush", "exited"}
    /\ batch \in Seq([fd : Conns \cup {Listener}, ev : SUBSET {"IN", "OUT"}])
    /\ wq \in Seq(Conns) /\ shutdown \in BOOLEAN

(* Write interest tracks the owed reply (spec.md 4.7, scenario 6): each    *)
(* time the loop is about to call epoll_wait, a live socket has            *)
(* write_in_epoll set exactly when it still owes reply bytes, and then its *)
(* registration includes EPOLLOUT.  A short send that does not arm, or a   *)
(* drained socket left armed, breaks it; so does arming with a wrong mask. *)
WriteInterestTracksOwed ==
    phase = "top" =>
        \A c \in Conns : ed[c] = "live" =>
            /\ armed[c] <=> to_write[c] > 0
            /\ armed[c] <=> interest[c] = "inout"

(* Reply accounting (spec.md 8, reply size equality): the engine never     *)
(* sends a peer more reply bytes than the parser said it owes, and while   *)
(* the peer is connected the bytes sent plus ed->to_write are exactly the  *)
(* bytes owed, over any interleaving of reads, inline and queued writes.   *)
ReplyAccounting ==
    \A c \in Conns :
        /\ sentTot[c] <= owed[c]
        /\ ed[c] = "live" /\ peer[c] = "open" => sentTot[c] + to_write[c] = owed[c]

(* The write queue holds only live sockets: a socket that doRead closed    *)
(* and deleted is never queued, so the sockets_.count(ed) test of the      *)
(* drain (1722) never meets a freed EPollData.                             *)
WriteQueueLive == \A i \in DOMAIN wq : ed[wq[i]] = "live"

(* Replies are delivered: a live socket that owes reply bytes to a peer    *)
(* that keeps reading eventually owes none (or is closed, or the engine    *)
(* has stopped).  A short send must leave a wakeup that resumes it.        *)
RepliesDelivered ==
    \A c \in Conns :
        (ed[c] = "live" /\ to_write[c] > 0)
            ~> (to_write[c] = 0 \/ ed[c] # "live" \/ phase = "exited")

(* A closed connection is noticed (spec.md 4.7: on EOF, deregister, close, *)
(* free): once a peer closes, the engine eventually reads the EOF and      *)
(* frees the socket, unless it stops first.                                *)
PeerCloseNoticed ==
    \A c \in Conns : peer[c] = "closed" ~> (ed[c] = "freed" \/ phase = "exited")

=============================================================================
