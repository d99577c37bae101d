------------------------------ MODULE MCProcess ------------------------------
(***************************************************************************)
(* One TLC run for two components that share no state: the statistics     *)
(* recorder of a receiver loop (RxStats) and the process around the        *)
(* engines (Orchestration).  Init picks one of them and only that one      *)
(* moves; the other stays in a fixed initial state, so the states checked  *)
(* are those of each component on its own.                                 *)
(***************************************************************************)
EXTENDS Naturals

CONSTANTS
    CountReads, WaitTimes, MaxReqs, MaxLoops, MaxTime,  \* RxStats
    TxArgs, RxArgs, UsePorts, RunCounts, MaxSignals,    \* Orchestration
    t1, t2, n1, n2, n3

VARIABLES
    part,
    now, lastStats, waitStarted, idle, loops, reads, requests,
    lastRequests, lastRps, step, last,
    runs, txs, rxs, pc, k, shutdown, global, signals, dead, thr, sent, results

S == INSTANCE RxStats
O == INSTANCE Orchestration

svars == <<now, lastStats, waitStarted, idle, loops, reads, requests,
           lastRequests, lastRps, step, last>>
ovars == <<runs, txs, rxs, pc, k, shutdown, global, signals, dead, thr, sent,
           results>>
vars == <<part, svars, ovars>>

\* --tx t1 --tx t2 (--server_only empties it), --rx io_uring --rx epoll,
\* one port n3 for --client_only (a NullRunner), and --runs 1 or 2.
MCTxArgs == {<<t1, t2>>}
MCRxArgs == {<<[name |-> n1, kind |-> "ring"], [name |-> n2, kind |-> "epoll"]>>}
MCUsePorts == <<[name |-> n3, kind |-> "null"]>>

Init == /\ part \in {"stats", "main"}
        /\ S!Init /\ O!Init
        /\ part = "stats" => runs = 1 /\ txs = << >>

Next == \/ part = "stats" /\ S!Next /\ UNCHANGED <<part, ovars>>
        \/ part = "main" /\ O!Next /\ UNCHANGED <<part, svars>>

Spec == /\ Init /\ [][Next]_vars
        /\ WF_vars(part = "main" /\ ~dead /\ O!Main /\ UNCHANGED <<part, svars>>)
        /\ WF_vars(part = "main" /\ ~dead /\ \E i \in O!MaxThreads : O!Receiver(i)
                   /\ UNCHANGED <<part, svars>>)

-----------------------------------------------------------------------------
TypeOK == part \in {"stats", "main"} /\ S!TypeOK /\ O!TypeOK

(* main's aggregation (2209-2229) groups every stored result under its     *)
(* key, in order of first appearance and of the runs, and prints exactly   *)
(* the keys run more than once.                                            *)
AggregationMatchesReference == O!AggregationMatchesReference

(* The process ends: after the last benchmark in tx mode, and in either    *)
(* mode once SIGINT has set globalShouldShutdown.                          *)
ProcessExits == (part = "main" /\ (O!TxMode \/ global)) ~> O!Exited
=============================================================================
