\* --runs 2 with one --tx list and two receivers: parse repeats both
\* lists, so main's nested loop runs every (tx, receiver) pair 4 times.
CONSTANTS
    t1 = t1
    t2 = t2
    n1 = n1
    n2 = n2
    n3 = n3
    TxArgs <- MCTxArgs
    RxArgs <- MCRxArgs
    UsePorts <- MCUsePorts
    RunCounts = {2}
    MaxSignals = 1
SPECIFICATION Spec
INVARIANT MatrixRunsTimes
