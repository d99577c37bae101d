---------------------------- MODULE FrameParser ----------------------------
(***************************************************************************)
(* ProtocolParser::consume (src/netbench.cpp:263-302), the request framing *)
(* decoder both receive engines feed every received chunk to.              *)
(*                                                                         *)
(* A request is an 8-byte header, two little-endian uint32 words           *)
(* <<length, reply_size>>, then `length` payload bytes.  The parser keeps  *)
(* size_buff_have, is_reading (the decoded header, is_reading[0] # 0 means *)
(* "header known"), size_buff (scratch for a header split over recvs) and  *)
(* so_far (bytes of the current frame seen).  Bytes are modelled as small  *)
(* integers; a chunk is a sequence of them.  consume() reads memory by     *)
(* pointer; `mem` is the received chunk followed by whatever bytes lie     *)
(* beyond it in the receive buffer, which the code can read (see Residual) *)
(* and whose value the program does not control.                           *)
(***************************************************************************)
EXTENDS Integers, Sequences, FiniteSets, SequencesExt

CONSTANTS
    Lens,          \* payload lengths a request may have
    Replies,       \* reply sizes a request may ask for
    NumFrames,     \* how many requests the peer sends
    MaxChunk,      \* most bytes one recv() returns
    PayloadByte,   \* the value of every payload byte
    JunkBytes,     \* values bytes past the end of a received chunk may have
    UninitBytes,   \* values an uninitialised size_buff byte may have
    LockStep       \* TRUE: the peer never sends past the frame being answered

ASSUME /\ MaxChunk \in Nat \ {0}
       /\ Lens \subseteq Nat /\ Replies \subseteq Nat /\ NumFrames \in Nat

VARIABLES frames,   \* the requests the peer sends, <<[len, reply], ...>>
          parser,   \* the ProtocolParser record
          pos,      \* bytes of Stream delivered so far
          owed      \* accumulated ConsumeResults [to_write, count]

vars == <<frames, parser, pos, owed>>

HeaderSize == 8          \* sizeof(is_reading)

\* memcpy of a little-endian uint32 from four bytes
Word(b0, b1, b2, b3) == b0 + 256 * b1 + 65536 * b2 + 16777216 * b3
WordBytes(v) == << v % 256, (v \div 256) % 256,
                   (v \div 65536) % 256, (v \div 16777216) % 256 >>

\* memcpy(&is_reading, p, 8): the two header words read from bytes f[o..o+7]
DecodeHeader(f, o) == << Word(f[o], f[o+1], f[o+2], f[o+3]),
                         Word(f[o+4], f[o+5], f[o+6], f[o+7]) >>

\* The wire image of one request, and of the whole request stream.
Encode(fr) == WordBytes(fr.len) \o WordBytes(fr.reply)
                \o [i \in 1..fr.len |-> PayloadByte]
Stream == FlattenSeq([i \in DOMAIN frames |-> Encode(frames[i])])

\* Offset in Stream just after frame k.
FrameEnd(k) == LET RECURSIVE E(_)
                   E(j) == IF j = 0 THEN 0 ELSE E(j - 1) + HeaderSize + frames[j].len
               IN E(k)

EmptyParser(sb) == [size_buff_have |-> 0, is_reading |-> <<0, 0>>,
                    size_buff |-> sb, so_far |-> 0]

(***************************************************************************)
(* One pass of the while (n > 0) loop body.  ps is the parser, mem the     *)
(* memory at and after `data`, p the 1-based position of `data` in mem.    *)
(***************************************************************************)
\* Mutation: the in-place header read without the empty-scratch test.
FastPathIgnoresScratch(ps, n) == n >= HeaderSize

\* likely(n >= sizeof(is_reading) && size_buff_have == 0): header in place
FastPath(ps, n) == n >= HeaderSize /\ ps.size_buff_have = 0

\* Mutation: the slow path copies all n bytes, not just what the header lacks.
SlowAddUnclamped(ps, n) == n

\* the slow path: append min(n, 8 - have) bytes to size_buff
SlowAdd(ps, n) == IF n < HeaderSize - ps.size_buff_have
                  THEN n ELSE HeaderSize - ps.size_buff_have

HeaderStep(ps, mem, p, n) ==
    IF ps.is_reading[1] # 0 THEN ps
    ELSE IF FastPath(ps, n)
    THEN [ps EXCEPT !.size_buff_have = HeaderSize,
                    !.is_reading = DecodeHeader(mem, p)]
    ELSE LET have == ps.size_buff_have
             add  == SlowAdd(ps, n)
             sb   == [i \in 0..7 |-> IF have <= i /\ i < have + add
                                     THEN mem[p + i - have] ELSE ps.size_buff[i]]
         IN [ps EXCEPT !.size_buff_have = have + add,
                       !.size_buff = sb,
                       !.is_reading = IF have + add >= HeaderSize
                                      THEN DecodeHeader([i \in 1..8 |-> sb[i - 1]], 1)
                                      ELSE ps.is_reading]

\* Mutation: a frame completes only once a byte past its end has arrived.
FrameDoneLate(ps) == ps.is_reading[1] # 0
                     /\ ps.so_far > ps.is_reading[1] + HeaderSize

\* is_reading[0] && so_far >= is_reading[0] + sizeof(is_reading)
FrameDone(ps) == ps.is_reading[1] # 0
                 /\ ps.so_far >= ps.is_reading[1] + HeaderSize

\* after a completed frame: data += n; n = so_far - (length + 8)
Advance(p, n) == p + n
Residual(ps) == ps.so_far - (ps.is_reading[1] + HeaderSize)

RECURSIVE ConsumeLoop(_, _, _, _, _)
ConsumeLoop(ps, mem, p, n, acc) ==
    IF n = 0 THEN [parser |-> ps, result |-> acc]
    ELSE LET ps1 == HeaderStep([ps EXCEPT !.so_far = @ + n], mem, p, n)
         IN IF FrameDone(ps1)
            THEN ConsumeLoop(EmptyParser(ps1.size_buff), mem, Advance(p, n), Residual(ps1),
                             [to_write |-> acc.to_write + ps1.is_reading[2],
                              count |-> acc.count + 1])
            ELSE [parser |-> ps1, result |-> acc]

\* consume(data, n): mem = chunk \o the bytes after it
Consume(ps, chunk, junk) ==
    ConsumeLoop(ps, chunk \o junk, 1, Len(chunk), [to_write |-> 0, count |-> 0])

-----------------------------------------------------------------------------
(***************************************************************************)
(* A connection's receive side: the peer's byte stream arrives in chunks   *)
(* of 1..MaxChunk bytes, each fed to consume(), whose result is added to   *)
(* the connection's owed reply (BasicSock::didRead, do_send += consumed,   *)
(* src/netbench.cpp:1008-1012; EPollRunner::doRead, 1653-1657).            *)
(***************************************************************************)
Init == /\ frames \in [1..NumFrames -> [len : Lens, reply : Replies]]
        /\ parser \in {EmptyParser(sb) : sb \in [0..7 -> UninitBytes]}
        /\ pos = 0
        /\ owed = [to_write |-> 0, count |-> 0]

\* Bytes a recv may return: a peer in lock step stops at the end of the
\* frame it is waiting for an answer to.
ChunkSizes == {k \in 1..MaxChunk :
                 /\ pos + k <= Len(Stream)
                 /\ LockStep => \E j \in DOMAIN frames :
                                   pos < FrameEnd(j) /\ pos + k <= FrameEnd(j)
                                   /\ \A i \in 1..(j - 1) : FrameEnd(i) <= pos}

Recv == \E k \in ChunkSizes, b \in JunkBytes :
          LET junk == [i \in 1..(2 * k + HeaderSize) |-> b]
              r == Consume(parser, SubSeq(Stream, pos + 1, pos + k), junk)
          IN /\ parser' = r.parser
             /\ pos' = pos + k
             /\ UNCHANGED frames
             /\ owed' = [to_write |-> owed.to_write + r.result.to_write,
                         count |-> owed.count + r.result.count]

\* the peer has sent everything
Done == pos = Len(Stream) /\ UNCHANGED vars

Next == Recv \/ Done

Spec == Init /\ [][Next]_vars /\ WF_vars(Recv)

-----------------------------------------------------------------------------
TypeOK == /\ parser.size_buff_have \in 0..HeaderSize
          /\ parser.so_far \in Nat
          /\ pos \in 0..Len(Stream)
          /\ owed.count \in Nat /\ owed.to_write \in Nat

\* frames wholly contained in the first n bytes of the stream.
Completed(n) == {j \in DOMAIN frames : FrameEnd(j) <= n}
RepliesOf(S) == MapThenSumSet(LAMBDA j : frames[j].reply, S)

(* Framing round trip: after any chunking of the stream, the requests the  *)
(* parser has reported are exactly the frames whose last byte has arrived, *)
(* and the reply bytes owed are the sum of their reply_size words; this is *)
(* what consume()'s header reassembly and residual handling must achieve.  *)
FramingRoundTrip == /\ owed.count = Cardinality(Completed(pos))
                    /\ owed.to_write = RepliesOf(Completed(pos))

=============================================================================
