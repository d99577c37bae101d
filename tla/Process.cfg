\* RxStats: print_read_stats on; waits of 0 (under kEpsilon), 400 ms and
\* 1 s, up to 2 requests a loop, 3 zero-time loops an interval, 3.2 s of
\* clock.  Orchestration: the command lines of MCProcess (three modes, --runs
\* 1 or 2) and up to two SIGINTs, so the second one's die() is reached.
CONSTANTS
    CountReads = TRUE
    WaitTimes = {0, 400, 1000}
    MaxReqs = 2
    MaxLoops = 3
    MaxTime = 3200
    t1 = t1
    t2 = t2
    n1 = n1
    n2 = n2
    n3 = n3
    TxArgs <- MCTxArgs
    RxArgs <- MCRxArgs
    UsePorts <- MCUsePorts
    RunCounts = {1, 2}
    MaxSignals = 2
SPECIFICATION Spec
INVARIANT TypeOK
INVARIANT AggregationMatchesReference
PROPERTY ProcessExits
