\* print_read_stats on.  Waits of 0 (under kEpsilon), 400 ms and 1 s, up
\* to 2 requests a loop, 3 zero-time loops an interval, 3.2 s of clock: so
\* intervals flush after 1, 2 or 3 waits, some idle, some busy, some with
\* a rate under 1 request per second.
CONSTANTS
    CountReads = TRUE
    WaitTimes = {0, 400, 1000}
    MaxReqs = 2
    MaxLoops = 3
    MaxTime = 3200
SPECIFICATION Spec
INVARIANT ReadHistogramPerInterval
