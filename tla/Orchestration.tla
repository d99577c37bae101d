---------------------------- MODULE Orchestration ----------------------------
(***************************************************************************)
(* The process around the engines (src/netbench.cpp): main's loop over     *)
(* cfg.tx x receivers (2175-2202), the receiver threads running run()      *)
(* (1776-1790), the SIGINT handler (67-72), the join of every thread, and  *)
(* the aggregation of the results by key (2209-2229).  In no-sender mode   *)
(* (2236-2266) every receiver runs at once on one should_shutdown that      *)
(* nothing sets, so only a signal ends them.                               *)
(*                                                                         *)
(* A receiver's loop is abstracted to how it reacts to the two shutdown    *)
(* flags, which the engine modules check in detail: EPollRunner::loop      *)
(* leaves at its loop test, IOUringRunner::loop stop()s at the first check *)
(* and breaks at the second (or leaves once no socket is left), and        *)
(* NullRunner::loop returns at once.  A SendResults is the index of the    *)
(* iteration that produced it, so the grouping can be checked; the key is  *)
(* the pair (tx, receiver name) the code joins into one string.            *)
(***************************************************************************)
EXTENDS Integers, FiniteSets, SequencesExt

CONSTANTS
    TxArgs,      \* --tx lists the command line may give: sequences of scenarios
    RxArgs,      \* --rx lists: sequences of [name, kind], kind "ring" or "epoll"
    UsePorts,    \* the receivers --client_only makes of its ports: [name, "null"]
    RunCounts,   \* --runs values
    MaxSignals   \* SIGINTs the user may send

ASSUME RunCounts \subseteq Nat \ {0} /\ MaxSignals \in Nat

Modes == {"both", "server_only", "client_only"}

VARIABLES
    runs,      \* --runs
    txs,       \* cfg.tx
    rxs,       \* receiver_factories
    pc,        \* where main is
    k,         \* the iteration (tx mode) or the thread being joined
    shutdown,  \* the should_shutdown the live receivers point to
    global,    \* globalShouldShutdown
    signals,   \* SIGINTs delivered so far
    dead,      \* die() in intHandler ended the process
    thr,       \* each receiver thread: "none", "running", "stopping", "exited"
    sent,      \* what runSender returned in this iteration
    results    \* results: <<key, SendResults>> in order

vars == <<runs, txs, rxs, pc, k, shutdown, global, signals, dead, thr, sent,
          results>>

\* parse (1942-1958): --server_only clears tx, --client_only clears rx, and
\* --runs n appends n - 1 more copies of each list to itself.
Repeat(s, n) == [i \in 1..Len(s) * n |-> s[((i - 1) % Len(s)) + 1]]
ParsedTx(tx, mode, n) == Repeat(IF mode = "server_only" THEN << >> ELSE tx, n)
ParsedRx(rx, mode, n) == Repeat(IF mode = "client_only" THEN << >> ELSE rx, n)

\* main (2135-2172): a factory per cfg.rx entry, or per port in client_only.
Factories(rx, mode, n) == IF mode = "client_only" THEN UsePorts
                          ELSE ParsedRx(rx, mode, n)

TxMode == Len(txs) > 0

\* The iterations of main's nested loop: for tx, for receiver factory.
Plan == [i \in 1..Len(txs) * Len(rxs) |->
            <<((i - 1) \div Len(rxs)) + 1, ((i - 1) % Len(rxs)) + 1>>]

\* One receiver thread per iteration in tx mode, one per factory otherwise.
Threads == IF TxMode THEN DOMAIN Plan ELSE DOMAIN rxs
MaxRuns == Max(RunCounts)
MaxThreads == 1..(Max({Len(t) : t \in TxArgs} \cup {1}) * MaxRuns *
                  Max({Len(r) * MaxRuns : r \in RxArgs} \cup {Len(UsePorts)}))

RxOf(i) == IF TxMode THEN rxs[Plan[i][2]] ELSE rxs[i]

\* strcat("tx:", tx, " rx:", rcv.name, " ", rcv.rxCfg)
Key(i) == <<txs[Plan[i][1]], rxs[Plan[i][2]].name>>

Init == /\ runs \in RunCounts
        /\ \E tx \in TxArgs, rx \in RxArgs, mode \in Modes :
              /\ txs = ParsedTx(tx, mode, runs)
              /\ rxs = Factories(rx, mode, runs)
        /\ pc = IF TxMode THEN "start" ELSE "startAll"
        /\ k = 1 /\ shutdown = FALSE /\ global = FALSE
        /\ signals = 0 /\ dead = FALSE
        /\ thr = [i \in MaxThreads |-> "none"]
        /\ sent = 0 /\ results = << >>

-----------------------------------------------------------------------------
(* main, tx mode (2178-2202).  r() builds the runner, a fresh              *)
(* should_shutdown is made and the thread started; runSender returns after *)
(* --time seconds; should_shutdown = true; join; the result is stored.     *)
StartReceiver == /\ pc = "start"
                 /\ shutdown' = FALSE
                 /\ thr' = [thr EXCEPT ![k] = "running"]
                 /\ pc' = "send"
                 /\ UNCHANGED <<runs, txs, rxs, k, global, signals, dead, sent,
                                results>>

SenderDone == /\ pc = "send"
              /\ sent' = k
              /\ shutdown' = TRUE
              /\ pc' = "join"
              /\ UNCHANGED <<runs, txs, rxs, k, global, signals, dead, thr, results>>

JoinReceiver == /\ pc = "join" /\ thr[k] = "exited"
                /\ results' = Append(results, <<Key(k), sent>>)
                /\ k' = k + 1
                /\ pc' = IF k = Len(Plan) THEN "aggregate" ELSE "start"
                /\ UNCHANGED <<runs, txs, rxs, shutdown, global, signals, dead, thr,
                               sent>>

\* Mutation: no find_if; every result opens a group of its own.
AddResultAlwaysNew(agg, r) == Append(agg, <<r[1], <<r[2]>>>>)

\* find_if over to_agg: the first group with the result's key.
AddResult(agg, r) ==
    LET i == SelectInSeq(agg, LAMBDA g : g[1] = r[1])
    IN IF i = 0 THEN Append(agg, <<r[1], <<r[2]>>>>)
       ELSE [agg EXCEPT ![i][2] = Append(@, r[2])]

\* The loop building to_agg in insertion order of results (2209-2219).
RECURSIVE AggLoop(_, _)
AggLoop(agg, res) == IF res = << >> THEN agg
                     ELSE AggLoop(AddResult(agg, Head(res)), Tail(res))
ToAgg(res) == AggLoop(<< >>, res)

\* The groups printed as "aggregated": those of more than one result (2221-2224).
Aggregated(agg) == SelectSeq(agg, LAMBDA g : Len(g[2]) > 1)

\* The aggregation loops only print: to_agg is ToAgg(results).
Aggregate == /\ pc = "aggregate"
             /\ pc' = "done"
             /\ UNCHANGED <<runs, txs, rxs, k, shutdown, global, signals, dead,
                            thr, sent, results>>

(* main, no-sender mode (2236-2262): start every receiver thread, then     *)
(* join them in order.                                                     *)
StartAll == /\ pc = "startAll"
            /\ thr' = [i \in MaxThreads |-> IF i \in Threads THEN "running"
                                                             ELSE "none"]
            /\ pc' = "joinAll"
            /\ UNCHANGED <<runs, txs, rxs, k, shutdown, global, signals, dead, sent,
                           results>>

JoinNext == /\ pc = "joinAll" /\ thr[k] = "exited"
            /\ k' = k + 1
            /\ pc' = IF k = Len(rxs) THEN "done" ELSE "joinAll"
            /\ UNCHANGED <<runs, txs, rxs, shutdown, global, signals, dead, thr, sent,
                           results>>

Main == StartReceiver \/ SenderDone \/ JoinReceiver \/ Aggregate
        \/ StartAll \/ JoinNext

-----------------------------------------------------------------------------
\* Mutation: the loop tests only its own should_shutdown.
ShutdownSeenLocal == shutdown

\* The loop's shutdown test: should_shutdown->load() || globalShouldShutdown.
ShutdownSeen == shutdown \/ global

(* A receiver thread's loop meeting the test true (1422-1432, 1696):       *)
(* epoll leaves the loop; io_uring stop()s the first time and breaks the   *)
(* second.                                                                 *)
ShutdownCheck(i) ==
    /\ thr[i] \in {"running", "stopping"} /\ RxOf(i).kind # "null"
    /\ ShutdownSeen
    /\ thr' = [thr EXCEPT ![i] = IF RxOf(i).kind = "ring" /\ @ = "running"
                                 THEN "stopping" ELSE "exited"]
    /\ UNCHANGED <<runs, txs, rxs, pc, k, shutdown, global, signals, dead, sent,
                   results>>

\* After stop() the io_uring loop also ends once socks() is 0 (1393).
RingDrained(i) ==
    /\ thr[i] = "stopping"
    /\ thr' = [thr EXCEPT ![i] = "exited"]
    /\ UNCHANGED <<runs, txs, rxs, pc, k, shutdown, global, signals, dead, sent,
                   results>>

\* NullRunner::loop returns at once (504).
NullReturns(i) ==
    /\ thr[i] = "running" /\ RxOf(i).kind = "null"
    /\ thr' = [thr EXCEPT ![i] = "exited"]
    /\ UNCHANGED <<runs, txs, rxs, pc, k, shutdown, global, signals, dead, sent,
                   results>>

Receiver(i) == ShutdownCheck(i) \/ NullReturns(i)

\* intHandler (67-72): the first SIGINT sets the flag, the second dies.
Signal == /\ signals < MaxSignals
          /\ signals' = signals + 1
          /\ IF global THEN dead' = TRUE /\ UNCHANGED global
                       ELSE global' = TRUE /\ UNCHANGED dead
          /\ UNCHANGED <<runs, txs, rxs, pc, k, shutdown, thr, sent, results>>

\* main returned, or die() exited the process.
Exited == pc = "done" \/ dead

Finished == Exited /\ UNCHANGED vars

Next == \/ ~dead /\ (Main \/ Signal \/ \E i \in MaxThreads :
                                          Receiver(i) \/ RingDrained(i))
        \/ Finished

(* main and the receiver threads are always runnable: runSender returns   *)
(* after --time seconds and every engine wait has a timeout.  Peers        *)
(* (RingDrained) and the user (Signal) get no fairness.  A thread has at   *)
(* most two receiver steps and no step disables another thread's, so one  *)
(* WF over all receivers gives every thread its steps, as WF per thread    *)
(* would.                                                                  *)
Spec == /\ Init /\ [][Next]_vars
        /\ WF_vars(~dead /\ Main)
        /\ WF_vars(~dead /\ \E i \in MaxThreads : Receiver(i))

-----------------------------------------------------------------------------
TxValues == UNION {Range(t) : t \in TxArgs}
RxNames == UNION {{r.name : r \in Range(l)} : l \in RxArgs \cup {UsePorts}}

TypeOK == /\ runs \in RunCounts /\ txs \in Seq(TxValues)
          /\ rxs \in Seq([name : RxNames, kind : {"ring", "epoll", "null"}])
          /\ pc \in {"start", "send", "join", "aggregate", "startAll",
                     "joinAll", "done"}
          /\ k \in 1..(Cardinality(MaxThreads) + 1)
          /\ shutdown \in BOOLEAN /\ global \in BOOLEAN /\ dead \in BOOLEAN
          /\ signals \in 0..MaxSignals
          /\ thr \in [MaxThreads -> {"none", "running", "stopping", "exited"}]
          /\ sent \in {0} \cup MaxThreads
          /\ results \in Seq((TxValues \X RxNames) \X MaxThreads)

\* The reference grouping: the distinct keys in order of first appearance,
\* each with the results of that key in the order they were stored.
FirstAt(res, key) == Min({i \in DOMAIN res : res[i][1] = key})
KeysInOrder(res) ==
    LET firsts == SelectSeq([i \in DOMAIN res |-> i],
                            LAMBDA i : FirstAt(res, res[i][1]) = i)
    IN [j \in DOMAIN firsts |-> res[firsts[j]][1]]
RefGroups(res) ==
    LET keys == KeysInOrder(res)
    IN [j \in DOMAIN keys |->
        LET key == keys[j]
            sel == SelectSeq(res, LAMBDA r : r[1] = key)
        IN <<key, [m \in DOMAIN sel |-> sel[m][2]]>>]
RepeatedKeys(res) == {res[i][1] : i \in {i \in DOMAIN res :
                          \E j \in DOMAIN res : j # i /\ res[j][1] = res[i][1]}}

(* The aggregation of main (2209-2229) groups every stored result under    *)
(* its key, the groups in order of first appearance and each group in the  *)
(* order the runs happened, and prints exactly the keys that were run more *)
(* than once (a tx listed twice, or two receivers with the same name).     *)
AggregationMatchesReference ==
    pc = "done" /\ TxMode =>
        LET toAgg == ToAgg(results)
        IN /\ toAgg = RefGroups(results)
           /\ {Aggregated(toAgg)[j][1] : j \in DOMAIN Aggregated(toAgg)}
              = RepeatedKeys(results)

(* The process ends: in tx mode after the last benchmark, and in either    *)
(* mode once SIGINT has set globalShouldShutdown, since every receiver     *)
(* loop tests that flag (1422, 1696) and main then joins them all.         *)
ProcessExits == (TxMode \/ global) ~> Exited

(* --runs N repeats the full matrix N times (spec.md 6): with distinct     *)
(* --tx and --rx entries, every (tx, receiver) key is benchmarked exactly   *)
(* N times before the results are aggregated.                              *)
MatrixRunsTimes ==
    pc = "done" /\ TxMode =>
        \A i \in DOMAIN results :
            Cardinality({j \in DOMAIN results : results[j][1] = results[i][1]})
            = runs

(* SIGINT ends the benchmark (spec.md 4.8: the signal shuts the engines    *)
(* down): once globalShouldShutdown is set, main starts no further         *)
(* receiver and sender, whose receiver would stop at its first check while *)
(* its sender still runs and its result is stored and aggregated.          *)
NoBenchmarkAfterInterrupt == [][pc = "start" /\ pc' = "send" => ~global]_vars

=============================================================================
