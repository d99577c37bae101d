------------------------------ MODULE RxStats ------------------------------
(***************************************************************************)
(* RxStats (src/netbench.cpp:304-450), the statistics recorder each engine *)
(* loop feeds: startWait/doneWait bracket the blocking wait and add it to  *)
(* idle_ when it is over 100 us; doneLoop counts the loop, records the     *)
(* loop's reads, and once a second has passed since the last flush calls   *)
(* doLog, which prints a line (only if requests grew and the previous      *)
(* rate, lastRps_, is non-zero) and resets the per-interval counters.      *)
(*                                                                         *)
(* Time is in milliseconds; a wait shorter than kEpsilon is a wait of 0.   *)
(* Bytes and overflows are counted like requests and loops and are only    *)
(* printed, so they are left out; the line is kept as the numbers that     *)
(* the properties compare.                                                 *)
(***************************************************************************)
EXTENDS Integers

CONSTANTS
    CountReads,   \* print_read_stats: keep reads_ for the histogram
    WaitTimes,    \* how long one wait may block (ms); 0 is under kEpsilon
    MaxReqs,      \* requests one loop may complete
    MaxLoops,     \* bound on the loops of an interval that take no time
    MaxTime       \* bound on the clock (ms)

ASSUME WaitTimes \subseteq Nat /\ 0 \in WaitTimes
       /\ MaxReqs \in Nat /\ MaxLoops \in Nat /\ MaxTime \in Nat

Second == 1000

VARIABLES
    now,           \* steady_clock::now()
    lastStats,     \* lastStats_
    waitStarted,   \* waitStarted_
    idle,          \* idle_
    loops,         \* loops_
    reads,         \* reads_.size()
    requests,      \* the engine's requestsRx_
    lastRequests,  \* lastRequests_
    lastRps,       \* lastRps_ (size_t)
    step,          \* where the engine loop is: "wait", "waiting", "work"
    last           \* the last doLog: did it print, was the interval busy,
                   \* and the loops and reads the line covers

vars == <<now, lastStats, waitStarted, idle, loops, reads, requests,
          lastRequests, lastRps, step, last>>

NoLog == [printed |-> FALSE, busy |-> FALSE, loops |-> 0, reads |-> 0]

\* The constructor (306-315): started_ = lastStats_ = now, all counters 0.
Init == /\ now = 0 /\ lastStats = 0 /\ waitStarted = 0 /\ idle = 0
        /\ loops = 0 /\ reads = 0 /\ requests = 0 /\ lastRequests = 0
        /\ lastRps = 0 /\ step = "wait" /\ last = NoLog

\* startWait (316-318), called just before epoll_wait or io_uring's wait.
StartWait == /\ step = "wait" /\ waitStarted' = now /\ step' = "waiting"
             /\ UNCHANGED <<now, lastStats, idle, loops, reads, requests,
                            lastRequests, lastRps, last>>

\* doneWait (320-327): the wait took d; add it to idle_ if over kEpsilon.
DoneWait == /\ step = "waiting"
            /\ \E d \in WaitTimes :
                  /\ now + d <= MaxTime /\ (d > 0 \/ loops < MaxLoops)
                  /\ now' = now + d
                  /\ idle' = IF now + d > waitStarted THEN idle + d ELSE idle
            /\ step' = "work"
            /\ UNCHANGED <<lastStats, waitStarted, loops, reads, requests,
                           lastRequests, lastRps, last>>

\* Mutation: the rate computed from lastRequests_ - requests.
RateSwapped(req, lastReq, millis) == ((lastReq - req) * Second) \div millis
\* rps = ((requests - lastRequests_) * 1000.0) / millis, as stored in the
\* size_t lastRps_: the double truncated toward zero (387, 427).
Rate(req, lastReq, millis) == ((req - lastReq) * Second) \div millis

\* idle_ = steady_clock::duration{0} (421)
ResetIdle(i) == 0

(***************************************************************************)
(* doneLoop (329-350) after the loop handled k requests in r reads (the    *)
(* engine's didRead/finishedRequests, 467-473): ++loops_, push r onto      *)
(* reads_, and doLog (379-428) once a second or more has passed: print if  *)
(* requests grew and lastRps_ != 0, clearing reads_ only then; reset the   *)
(* per-interval counters; remember requests, now and the rate.            *)
(***************************************************************************)
DoneLoop ==
    /\ step = "work"
    /\ \E k \in 0..MaxReqs :
       LET req == requests + k
           lp == loops + 1
           rd == IF CountReads THEN reads + 1 ELSE reads
           millis == now - lastStats
           printed == req > lastRequests /\ lastRps # 0
       IN /\ requests' = req
          /\ IF millis >= Second
             THEN /\ last' = [printed |-> printed, busy |-> req > lastRequests,
                              loops |-> lp, reads |-> rd]
                  /\ loops' = 0 /\ idle' = ResetIdle(idle)
                  /\ reads' = IF printed /\ CountReads THEN 0 ELSE rd
                  /\ lastRequests' = req /\ lastStats' = now
                  /\ lastRps' = Rate(req, lastRequests, millis)
             ELSE /\ loops' = lp /\ reads' = rd
                  /\ UNCHANGED <<idle, lastRequests, lastStats, lastRps, last>>
    /\ step' = "wait"
    /\ UNCHANGED <<now, waitStarted>>

\* The clock and the loop bound are reached: the run ends.
Done == /\ step = "waiting" /\ loops >= MaxLoops
        /\ \A d \in WaitTimes \ {0} : now + d > MaxTime
        /\ UNCHANGED vars

Next == StartWait \/ DoneWait \/ DoneLoop \/ Done

Spec == Init /\ [][Next]_vars

-----------------------------------------------------------------------------
TypeOK == /\ now \in 0..MaxTime /\ lastStats \in 0..MaxTime
          /\ waitStarted \in 0..MaxTime /\ idle \in Nat
          /\ loops \in Nat /\ reads \in Nat
          /\ requests \in Nat /\ lastRequests \in Nat /\ lastRps \in Nat
          /\ step \in {"wait", "waiting", "work"}
          /\ last \in [printed : BOOLEAN, busy : BOOLEAN, loops : Nat, reads : Nat]

(* Every interval that completed requests is reported (spec.md 4.3: every  *)
(* >= 1 s a summary line is emitted): the last doLog of an interval whose  *)
(* request count grew printed its line.                                    *)
BusyIntervalsReported == last.busy => last.printed

(* The read histogram covers the printed interval (spec.md 4.3: counters   *)
(* reset per flush): a printed line's reads-per-loop figures come from     *)
(* exactly the loops the line counts.                                      *)
ReadHistogramPerInterval == last.printed /\ CountReads => last.reads = last.loops

=============================================================================
