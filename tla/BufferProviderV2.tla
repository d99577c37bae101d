-------------------------- MODULE BufferProviderV2 --------------------------
(***************************************************************************)
(* BufferProviderV2 (src/netbench.cpp:680-846), the shared ring of        *)
(* provided buffers: a ring of ringSize_ descriptors (the smallest power   *)
(* of two >= count) mapped between user and kernel.  The program writes   *)
(* descriptors at tailCached_ & ringMask_ and publishes the uint16 tail    *)
(* with a store-release; the kernel takes descriptors from its head.       *)
(* Returned ids are staged in indices[32] and written to the ring only     *)
(* when the stage is full.                                                 *)
(***************************************************************************)
EXTENDS Integers, Sequences, SequencesExt

CONSTANTS
    Count,        \* provided_buffer_count
    StageSize,    \* indices.size(), 32 in the code
    MaxInflight,  \* most buffers the engine holds at once
    MaxRecvs      \* bound on the recvs the kernel completes

ASSUME /\ Count \in Nat \ {0} /\ Count < 65535
       /\ StageSize \in Nat \ {0} /\ MaxInflight \in Nat \ {0}

Bids == 0..(Count - 1)
U16 == 65536                       \* width of tailCached_ and ring->tail

\* The constructor's `while (ringSize_ < count_) ringSize_ *= 2` (690-694).
RingSizeFor(n) == LET RECURSIVE Grow(_)
                      Grow(s) == IF s < n THEN Grow(2 * s) ELSE s
                  IN Grow(1)
RingSize == RingSizeFor(Count)
RingMask == RingSize - 1           \* io_uring_buf_ring_mask(ringSize_)
Slot(t) == t % RingSize            \* tail & ringMask_ for a power of two

\* Mutation: the flush that forgets `cachedIndices = 0`.
ReturnIndexNoReset(st, i) ==
    LET staged == Append(st.staged, i) IN
    IF Len(staged) < StageSize THEN [st EXCEPT !.staged = staged]
    ELSE [staged |-> staged,
          ring |-> [s \in DOMAIN st.ring |->
                      IF \E k \in 1..StageSize : Slot(st.tail + k - 1) = s
                      THEN LET k == CHOOSE k \in 1..StageSize : Slot(st.tail + k - 1) = s
                           IN staged[k]
                      ELSE st.ring[s]],
          tail |-> (st.tail + StageSize) % U16]

(***************************************************************************)
(* returnIndex(i), 798-810: stage i; when the stage is full, populate one  *)
(* descriptor per staged id at successive tail slots, then publish the     *)
(* advanced tail.  st = [staged, ring, tail].                              *)
(***************************************************************************)
ReturnIndexV2(st, i) ==
    LET staged == Append(st.staged, i) IN
    IF Len(staged) < StageSize THEN [st EXCEPT !.staged = staged]
    ELSE [staged |-> << >>,
          ring |-> [s \in DOMAIN st.ring |->
                      IF \E k \in 1..StageSize : Slot(st.tail + k - 1) = s
                      THEN LET k == CHOOSE k \in 1..StageSize : Slot(st.tail + k - 1) = s
                           IN staged[k]
                      ELSE st.ring[s]],
          tail |-> (st.tail + StageSize) % U16]

\* Mutation: the constructor fills every ring slot, not just count of them.
InitRingAll == [s \in 0..(RingSize - 1) |-> s]

\* The constructor (736-748): descriptor i holds buffer i, tail = count.
InitRing == [s \in 0..(RingSize - 1) |-> IF s < Count THEN s ELSE 0]

\* Ring positions the kernel may still take: [head, tail) modulo 2^16.
Published(head, tail) == (tail - head + U16) % U16

-----------------------------------------------------------------------------
VARIABLES
    staged,     \* indices[0 .. cachedIndices-1]
    ring,       \* ring_->bufs[s].bid for each slot s
    tail,       \* tailCached_ (= the published ring_->tail)
    head,       \* the kernel's consumer index
    inflight,   \* buffer ids the engine has received and not yet returned
    recvs       \* recvs completed so far (bounded by MaxRecvs)

vars == <<staged, ring, tail, head, inflight, recvs>>

Init == /\ staged = << >>
        /\ ring = InitRing
        /\ tail = Count
        /\ head = 0
        /\ inflight = {}
        /\ recvs = 0

\* The kernel takes the descriptor at its head for a buffer-select recv.
KernelRecv == /\ head # tail
              /\ Cardinality(inflight) < MaxInflight /\ recvs < MaxRecvs
              /\ recvs' = recvs + 1
              /\ inflight' = inflight \cup {ring[Slot(head)]}
              /\ head' = (head + 1) % U16
              /\ UNCHANGED <<staged, ring, tail>>

\* The engine hands a buffer back (processRead -> returnIndex, 1238-1239).
ReturnBuffer == \E b \in inflight :
    LET st == ReturnIndexV2([staged |-> staged, ring |-> ring, tail |-> tail], b)
    IN /\ inflight' = inflight \ {b}
       /\ staged' = st.staged /\ ring' = st.ring /\ tail' = st.tail
       /\ UNCHANGED <<head, recvs>>

\* All recvs have been made and every buffer handed back.
Finished == recvs = MaxRecvs /\ inflight = {} /\ UNCHANGED vars

Next == KernelRecv \/ ReturnBuffer \/ Finished

Spec == Init /\ [][Next]_vars

-----------------------------------------------------------------------------
TypeOK == /\ staged \in Seq(Bids)
          /\ ring \in [0..(RingSize - 1) -> Bids]
          /\ tail \in 0..(U16 - 1) /\ head \in 0..(U16 - 1)
          /\ inflight \subseteq Bids

\* How many places hold buffer b: ring positions in [head, tail), stage
\* entries and the engine.
HolderCount(b) ==
    Cardinality({k \in 0..(Published(head, tail) - 1) : ring[Slot(head + k)] = b})
    + Cardinality({k \in DOMAIN staged : staged[k] = b})
    + (IF b \in inflight THEN 1 ELSE 0)

(* Ring conservation (spec.md 4.5): the kernel never sees more published   *)
(* descriptors than the ring has slots, and every buffer id is in exactly  *)
(* one place: a published ring slot, the stage, or the engine.  A flush    *)
(* that reuses stage entries or a ring too small for the pool breaks it.   *)
RingConservation ==
    /\ Published(head, tail) <= RingSize
    /\ \A b \in Bids : HolderCount(b) = 1

=============================================================================
