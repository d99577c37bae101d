--------------------------- MODULE BufferProviders ---------------------------
(***************************************************************************)
(* The provider an io_uring runner holds.  provide_buffers picks it at    *)
(* start-up (src/netbench.cpp:1844-1845): 1 sets kUseBufferProviderFlag,   *)
(* 2 kUseBufferProviderV2Flag, and BasicSock's TBufferProvider is          *)
(* BufferProviderV2 for version 2 and BufferProviderV1 otherwise (858-868). *)
(* Both providers are instantiated over their own variables (the engine's  *)
(* set of handed-out buffers, inflight, is shared); Init picks a version   *)
(* and from then on only that provider moves, as in the code, where the    *)
(* choice is a template argument fixed for the runner's lifetime.          *)
(***************************************************************************)
EXTENDS Integers, SequencesExt

CONSTANTS
    Versions,      \* provide_buffers values checked: a subset of {1, 2}
    Count,         \* provided_buffer_count (both providers)
    LowWatermark,  \* provided_buffer_low_watermark (V1)
    CompactOn,     \* provided_buffer_compact (V1)
    StageSize,     \* indices.size() (V2)
    MaxInflight,   \* most buffers the engine holds at once (V2)
    MaxRecvs       \* bound on the recvs the kernel completes (V2)

ASSUME Versions \subseteq {1, 2}

VARIABLES
    version,                               \* kUseBufferProviderVersion
    toProvide, toProvideCount, sq, kernel, \* BufferProviderV1
    staged, ring, tail, head, recvs,       \* BufferProviderV2
    inflight                               \* buffers the engine holds

V1 == INSTANCE BufferProviderV1
V2 == INSTANCE BufferProviderV2

v1vars == <<toProvide, toProvideCount, sq, kernel>>
v2vars == <<staged, ring, tail, head, recvs>>
vars == <<version, v1vars, v2vars, inflight>>

\* The flags computed from provide_buffers select one provider for good.
Init == /\ version \in Versions
        /\ V1!Init /\ V2!Init

\* Only the selected provider's operations happen.
Next == \/ version = 1 /\ V1!Next /\ UNCHANGED <<version, v2vars>>
        \/ version = 2 /\ V2!Next /\ UNCHANGED <<version, v1vars>>

Spec == Init /\ [][Next]_vars

-----------------------------------------------------------------------------
TypeOK == version \in Versions /\ V1!TypeOK /\ V2!TypeOK

(* Pool conservation of the V1 free list (spec.md 4.4, 8): every buffer id *)
(* is in exactly one free range, queued provide, the kernel or an          *)
(* unhandled completion, and toProvideCount_ counts the free ids; broken by *)
(* a returnIndex merge that overlaps or loses an id.                       *)
PoolConservation == version = 1 => V1!PoolConservation

(* One provideBuffers() call with compaction queues pairwise non-adjacent  *)
(* runs of the V1 free list: no two of its provides could have been one.   *)
PublishesMaximalRuns == V1!PublishesMaximalRuns

(* Ring conservation of V2 (spec.md 4.5): at most ringSize_ descriptors are *)
(* published, and every buffer id is in exactly one of a published slot,   *)
(* the stage or the engine, across laps of the 16-bit head and tail.       *)
RingConservation == version = 2 => V2!RingConservation
=============================================================================
