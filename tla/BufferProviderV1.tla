-------------------------- MODULE BufferProviderV1 --------------------------
(***************************************************************************)
(* BufferProviderV1 (src/netbench.cpp:511-678), the classic "provide       *)
(* buffers" pool: buffer ids 0..Count-1, a free list toProvide_ of Range   *)
(* {start, count} kept in a vector (modelled as a sequence, back = Last),  *)
(* toProvideCount_, and provide() which turns the back range into an       *)
(* IORING_OP_PROVIDE_BUFFERS submission.                                   *)
(*                                                                         *)
(* The standalone specification puts the pool between the kernel, which   *)
(* takes provided buffers for recv completions, and the engine, which      *)
(* hands buffers back (returnIndex) and republishes them                   *)
(* (IOUringRunner::provideBuffers, 1086-1102) into submissions that reach  *)
(* the kernel at the next submit.                                          *)
(***************************************************************************)
EXTENDS Integers, Sequences, SequencesExt

CONSTANTS
    Count,          \* provided_buffer_count
    LowWatermark,   \* provided_buffer_low_watermark
    CompactOn       \* provided_buffer_compact

ASSUME Count \in Nat \ {0} /\ LowWatermark \in Int /\ CompactOn \in BOOLEAN

Bids == 0..(Count - 1)
MkRange(s, c) == [start |-> s, count |-> c]
Ranges == [start : Bids, count : 1..Count]
\* Mutation: a provide submission covering one id too many.
RangeBidsInclusive(r) == r.start..(r.start + r.count)
RangeBids(r) == r.start..(r.start + r.count - 1)
RangeTotal(s) == FoldLeft(LAMBDA acc, r : acc + r.count, 0, s)

\* Mutation: growing downwards without moving start.
MergeIdxKeepStart(r, idx) ==
    IF idx = r.start - 1 THEN [ok |-> TRUE, r |-> MkRange(r.start, r.count + 1)]
    ELSE IF idx = r.start + r.count THEN [ok |-> TRUE, r |-> MkRange(r.start, r.count + 1)]
    ELSE [ok |-> FALSE, r |-> r]

(***************************************************************************)
(* Range::merge(uint16_t idx), 643-654: grow the range by an adjacent id.  *)
(* Returns [ok, r].                                                        *)
(***************************************************************************)
MergeIdx(r, idx) ==
    IF idx = r.start - 1 THEN [ok |-> TRUE, r |-> MkRange(idx, r.count + 1)]
    ELSE IF idx = r.start + r.count THEN [ok |-> TRUE, r |-> MkRange(r.start, r.count + 1)]
    ELSE [ok |-> FALSE, r |-> r]

\* Range::merge(Range const&), 656-667: absorb an adjacent range.
MergeRange(a, b) ==
    IF a.start + a.count = b.start THEN [ok |-> TRUE, r |-> MkRange(a.start, a.count + b.count)]
    ELSE IF b.start + b.count = a.start THEN [ok |-> TRUE, r |-> MkRange(b.start, a.count + b.count)]
    ELSE [ok |-> FALSE, r |-> a]

(***************************************************************************)
(* returnIndex(i), 583-599: merge into the back range, else into the one   *)
(* before it (then try to join those two), else push a new range.  The     *)
(* caller also increments toProvideCount_.                                 *)
(***************************************************************************)
ReturnIndex(tp, i) ==
    LET n == Len(tp) IN
    IF n = 0 THEN << MkRange(i, 1) >>
    ELSE IF MergeIdx(tp[n], i).ok THEN [tp EXCEPT ![n] = MergeIdx(tp[n], i).r]
    ELSE IF n >= 2 /\ MergeIdx(tp[n - 1], i).ok
         THEN LET prev == MergeIdx(tp[n - 1], i).r
                  join == MergeRange(prev, tp[n])
              IN IF join.ok THEN Append(SubSeq(tp, 1, n - 2), join.r)
                 ELSE [tp EXCEPT ![n - 1] = prev]
    ELSE Append(tp, MkRange(i, 1))

(***************************************************************************)
(* compact(), 551-581: two ranges are joined directly; more are sorted by  *)
(* `sortable` (start in the high 16 bits, count in the low 16 on a         *)
(* little-endian host) and folded, joining each into the last kept range.  *)
(***************************************************************************)
Sortable(r) == r.start * 65536 + r.count
\* Mutation: the key with the halves swapped (count in the high bits).
SortByCount(tp) == SortSeq(tp, LAMBDA a, b : a.count * 65536 + a.start
                                            < b.count * 65536 + b.start)
SortByKey(tp) == SortSeq(tp, LAMBDA a, b : Sortable(a) < Sortable(b))

Coalesce(sorted) ==
    LET Join(out, p) == LET m == MergeRange(out[Len(out)], p)
                        IN IF m.ok THEN [out EXCEPT ![Len(out)] = m.r]
                           ELSE Append(out, p)
    IN FoldLeft(Join, << sorted[1] >>, Tail(sorted))

Compact(tp) ==
    IF Len(tp) <= 1 THEN tp
    ELSE IF Len(tp) = 2
         THEN IF MergeRange(tp[1], tp[2]).ok THEN << MergeRange(tp[1], tp[2]).r >> ELSE tp
    ELSE Coalesce(SortByKey(tp))

\* needsToProvide(), 545-547
NeedsToProvide(cnt) == cnt > LowWatermark

\* Mutation: provide() without popping the range it publishes.
ProvideAllKeepFree(tp, cnt, force) ==
    IF ~(force \/ NeedsToProvide(cnt))
    THEN [free |-> tp, count |-> cnt, sqes |-> << >>]
    ELSE LET c == IF CompactOn THEN Compact(tp) ELSE tp
         IN [free |-> c, count |-> cnt - RangeTotal(c), sqes |-> Reverse(c)]

(***************************************************************************)
(* provideBuffers(force), 1086-1102, on the pool: if forced or needed,     *)
(* compact when configured, then provide() every range from the back,      *)
(* each becoming one submission.  Returns the new free list, count and the *)
(* submissions in the order they are queued.                               *)
(***************************************************************************)
ProvideAll(tp, cnt, force) ==
    IF ~(force \/ NeedsToProvide(cnt))
    THEN [free |-> tp, count |-> cnt, sqes |-> << >>]
    ELSE LET c == IF CompactOn THEN Compact(tp) ELSE tp
         IN [free |-> << >>, count |-> cnt - RangeTotal(c),
             sqes |-> Reverse(c)]

-----------------------------------------------------------------------------
VARIABLES
    toProvide,       \* toProvide_, the free list
    toProvideCount,  \* toProvideCount_
    sq,              \* provide submissions queued, not yet submitted
    kernel,          \* buffer ids the kernel holds for buffer-select recvs
    inflight         \* buffer ids delivered in completions not yet handled

vars == <<toProvide, toProvideCount, sq, kernel, inflight>>

\* The constructor (515-527) puts one range [0, Count) on the free list; the
\* runner's constructor (1058-1062) publishes it with force and submits.
Init ==
    LET p == ProvideAll(<< MkRange(0, Count) >>, Count, TRUE)
    IN /\ toProvide = p.free
       /\ toProvideCount = p.count
       /\ sq = << >>
       /\ kernel = UNION {RangeBids(r) : r \in ToSet(p.sqes)}
       /\ inflight = {}

\* The kernel completes a buffer-select recv into buffer b.
KernelRecv == \E b \in kernel : /\ kernel' = kernel \ {b}
                                /\ inflight' = inflight \cup {b}
                                /\ UNCHANGED <<toProvide, toProvideCount, sq>>

\* processRead hands the completion's buffer back: returnIndex, then
\* provideBuffers(false) (1238-1241).
ReturnBuffer == \E b \in inflight :
    LET p == ProvideAll(ReturnIndex(toProvide, b), toProvideCount + 1, FALSE)
    IN /\ inflight' = inflight \ {b}
       /\ toProvide' = p.free
       /\ toProvideCount' = p.count
       /\ sq' = sq \o p.sqes
       /\ UNCHANGED kernel

\* Top of the event loop: provideBuffers(false), then the submit hands all
\* queued provide submissions to the kernel (1397, 1405).
SubmitLoop ==
    LET p == ProvideAll(toProvide, toProvideCount, FALSE)
        all == sq \o p.sqes
    IN /\ toProvide' = p.free
       /\ toProvideCount' = p.count
       /\ sq' = << >>
       /\ kernel' = kernel \cup UNION {RangeBids(all[i]) : i \in DOMAIN all}
       /\ UNCHANGED inflight

Next == KernelRecv \/ ReturnBuffer \/ SubmitLoop

Spec == Init /\ [][Next]_vars

-----------------------------------------------------------------------------
TypeOK == /\ toProvide \in Seq(Ranges)
          /\ toProvideCount \in 0..Count
          /\ sq \in Seq(Ranges)
          /\ kernel \subseteq Bids /\ inflight \subseteq Bids

\* Where buffer b is: one entry per range, submission or holder that has it.
Holders(b) ==
    LET InSeq(s) == {i \in DOMAIN s : b \in RangeBids(s[i])} IN
      {<<"free", i>> : i \in InSeq(toProvide)} \cup {<<"sq", i>> : i \in InSeq(sq)}
      \cup (IF b \in kernel THEN {<<"kernel", 0>>} ELSE {})
      \cup (IF b \in inflight THEN {<<"inflight", 0>>} ELSE {})

(* Pool conservation (spec.md 4.4, 8): every buffer id is owned by exactly *)
(* one of a free-list range, a queued provide submission, the kernel or an *)
(* unhandled completion, and toProvideCount_ is the number of free ids.    *)
(* Broken by a returnIndex merge that overlaps or loses an id, or by       *)
(* provide() miscounting.                                                  *)
PoolConservation ==
    /\ \A b \in Bids : Cardinality(Holders(b)) = 1
    /\ toProvideCount = RangeTotal(toProvide)

(* A publish after compaction is minimal: the provide submissions queued by *)
(* one provideBuffers() call with compaction cover pairwise non-adjacent   *)
(* runs, so no two of them could have been one submission.                 *)
PublishesMaximalRuns ==
    [][CompactOn /\ Len(sq') > Len(sq) /\ kernel' = kernel =>
        LET new == SubSeq(sq', Len(sq) + 1, Len(sq'))
        IN \A i, j \in DOMAIN new : i # j => ~MergeRange(new[i], new[j]).ok]_vars
=============================================================================
