--------------------------- MODULE MCOrchestration ---------------------------
(* Model-checking instance of Orchestration: --tx t1 --tx t2 (an empty tx *)
(* list comes only from --server_only), --rx io_uring --rx epoll, one     *)
(* port n3 for --client_only, and --runs 1 or 2; with 2 every key repeats *)
(* and is aggregated.                                                     *)
EXTENDS Orchestration

CONSTANTS t1, t2, n1, n2, n3

MCTxArgs == {<<t1, t2>>}
MCRxArgs == {<<[name |-> n1, kind |-> "ring"], [name |-> n2, kind |-> "epoll"]>>}
MCUsePorts == <<[name |-> n3, kind |-> "null"]>>
=============================================================================
