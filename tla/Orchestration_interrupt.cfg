\* One SIGINT during a run of several benchmarks: main never reads
\* globalShouldShutdown, so it starts every remaining receiver and sender;
\* each receiver stops at its first check while its sender still runs, and
\* the result is stored and aggregated.
CONSTANTS
    t1 = t1
    t2 = t2
    n1 = n1
    n2 = n2
    n3 = n3
    TxArgs <- MCTxArgs
    RxArgs <- MCRxArgs
    UsePorts <- MCUsePorts
    RunCounts = {1}
    MaxSignals = 1
SPECIFICATION Spec
PROPERTY NoBenchmarkAfterInterrupt
