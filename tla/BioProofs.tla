----------------------------- MODULE BioProofs -----------------------------
(***************************************************************************)
(* Proofs about module Bio: the list of chunks is one unbroken run of the  *)
(* bytes appended, len counts its unread part, and the operations are      *)
(* those of module ByteQueue, for every chunk capacity and all sizes.      *)
(***************************************************************************)
EXTENDS Bio, SeqFacts, TLAPS

\* The run of k positions from p.
RunFrom(p, k) == [i \in 1 .. k |-> p + i - 1]

\* Two runs that follow each other make one run.
LEMMA RunConcat ==
  ASSUME NEW p \in Int, NEW a \in Nat, NEW b \in Nat
  PROVE  RunFrom(p, a) \o RunFrom(p + a, b) = RunFrom(p, a + b)
BY DEF RunFrom

\* A run of no bytes is the empty sequence.
LEMMA RunEmpty == ASSUME NEW p \in Int PROVE RunFrom(p, 0) = << >>
BY DEF RunFrom

\* No chunk reaches beyond the last byte appended.
Bounded == \A i \in 1 .. Len(buffers) : buffers[i].lo + buffers[i].len <= wpos

\* What the running operation has done so far.
PeekPos == IF at > Len(buffers) THEN wpos ELSE buffers[at].lo + skip
Progress ==
  /\ pc # "idle" => n \in Sizes
  /\ pc \in {"write", "read", "consume"} => done <= n
  /\ pc \in {"write", "consume", "reset"} => buf = << >>
  /\ pc = "write" => done <= len
  /\ pc = "read" => buf = RunFrom(rpos - done, done)
  /\ pc = "peek" => /\ at <= Len(buffers) + 1
                    /\ skip = IF at = 1 THEN offset ELSE 0
                    /\ done = BMIN(n, PeekPos - rpos)
                    /\ buf = RunFrom(rpos, done)

IInv == TypeOK /\ Contiguous /\ OffsetInside /\ LenExact /\ Bounded /\ Progress

\* Taking the part of a chunk of c bytes that is still wanted of m, when x bytes
\* came before it.
LEMMA MinStep ==
  ASSUME NEW m \in Nat, NEW x \in Nat, NEW c \in Nat
  PROVE  /\ BMIN(c, m - BMIN(m, x)) \in Nat
         /\ BMIN(m, x) + BMIN(c, m - BMIN(m, x)) = BMIN(m, x + c)
         /\ BMIN(c, m - BMIN(m, x)) # 0 => BMIN(m, x) = x
         /\ BMIN(m, x) <= m /\ BMIN(m, 0) = 0
BY DEF BMIN

-----------------------------------------------------------------------------
(* Lists of chunks. *)

\* What the type of the list says about its chunks.
LEMMA ChunkFacts ==
  ASSUME TypeOK
  PROVE  /\ Len(buffers) \in Nat
         /\ \A i \in 1 .. Len(buffers) :
              /\ buffers[i] \in Chunk
              /\ buffers[i].lo \in Nat /\ buffers[i].len \in Nat \ {0}
              /\ buffers[i].len <= Capacity
         /\ buffers = << >> <=> Len(buffers) = 0
<1>1. buffers \in Seq(Chunk)
  BY DEF TypeOK
<1>2. /\ Len(buffers) \in Nat
      /\ \A i \in 1 .. Len(buffers) : buffers[i] \in Chunk
      /\ buffers = << >> <=> Len(buffers) = 0
  BY <1>1
<1>3. \A c \in Chunk : c.lo \in Nat /\ c.len \in Nat \ {0} /\ c.len <= Capacity
  BY BioAssumption DEF BioAssumption, Chunk
<1>. QED
  BY <1>2, <1>3

\* The types of the numbers, and of the list, without the rest of TypeOK.
LEMMA Numbers ==
  ASSUME TypeOK
  PROVE  /\ offset \in Nat /\ len \in Nat /\ wpos \in Nat /\ n \in Nat
         /\ done \in Nat /\ at \in Nat \ {0} /\ skip \in Nat
         /\ buffers \in Seq(Chunk) /\ buf \in Seq(Nat)
BY DEF TypeOK

\* The position of the first unread byte is a natural number.
LEMMA RposType == ASSUME TypeOK PROVE rpos \in Nat
BY ChunkFacts, SMTT(20) DEF TypeOK, rpos

-----------------------------------------------------------------------------
(* One lemma per action: it preserves the invariant. *)

\* bio_new leaves an empty list.
LEMMA InitInv == Init => IInv
BY DEF Init, IInv, TypeOK, Contiguous, OffsetInside, LenExact, Bounded, Progress,
       rpos, Moved, Running, Chunk

\* Entering an operation resets its locals and touches no chunk.
LEMMA CallInv ==
  ASSUME IInv, NEW p \in Running, NEW k \in Sizes, Call(p, k)
  PROVE  IInv'
<1>0. /\ TypeOK /\ Contiguous /\ OffsetInside /\ LenExact /\ Bounded
      /\ pc = "idle" /\ UNCHANGED <<bio, last>>
      /\ pc' = p /\ n' = k /\ done' = 0 /\ at' = 1 /\ skip' = offset /\ buf' = << >>
  BY DEF IInv, Call
<1>1. TypeOK'
  BY <1>0, BioAssumption DEF TypeOK, bio, last, BioAssumption
<1>2. Contiguous' /\ Bounded'
  BY <1>0 DEF Contiguous, Bounded, bio
<1>3. OffsetInside'
  BY <1>0 DEF OffsetInside, bio
<1>4. LenExact'
  BY <1>0 DEF LenExact, rpos, Moved, bio, TypeOK
<1>5. rpos' \in Nat /\ n' \in Nat
  <2>1. rpos' = rpos
    BY <1>0 DEF rpos, bio
  <2>. QED
    BY <1>0, <2>1, RposType, BioAssumption DEF BioAssumption
<1>6. PeekPos' = rpos'
  BY <1>0, ChunkFacts DEF PeekPos, rpos, bio
<1>7. buf' = RunFrom(rpos' - done', done') /\ buf' = RunFrom(rpos', done')
  BY <1>0, <1>5, RunEmpty
<1>8. Progress'
  <2>1. done' = BMIN(n', PeekPos' - rpos')
    <3>1. PeekPos' - rpos' = 0
      <4>1. \A x, y : x = y /\ y \in Nat => x - y = 0
        OBVIOUS
      <4>. QED
        BY <1>5, <1>6, <4>1
    <3>2. done' = 0
      BY <1>0
    <3>. QED
      BY <1>5, <3>1, <3>2, MinStep
  <2>2. at' <= Len(buffers') + 1
    BY <1>0, ChunkFacts DEF bio
  <2>. QED
    BY <1>0, <1>5, <1>7, <2>1, <2>2, Numbers DEF Progress, bio
<1>. QED
  BY <1>1, <1>2, <1>3, <1>4, <1>8 DEF IInv

\* bio_write appends a chunk that continues the bytes already there.
LEMMA WriteInv ==
  ASSUME IInv, bio_write
  PROVE  IInv'
<1> DEFINE size == BMIN(Capacity, n - done)
           new == [lo |-> wpos, len |-> size]
<1>0. /\ TypeOK /\ Contiguous /\ OffsetInside /\ LenExact /\ Bounded /\ Progress
      /\ pc = "write" /\ done < n
      /\ buffers' = Append(buffers, new)
      /\ len' = len + size /\ wpos' = wpos + size /\ done' = done + size
      /\ UNCHANGED <<offset, pc, n, at, skip, buf, last>>
  BY DEF IInv, bio_write, InsertTail
<1>1. size \in 1 .. Capacity /\ size <= n - done
  BY <1>0, BioAssumption DEF BMIN, TypeOK, BioAssumption
<1>2. /\ new \in Chunk /\ new.lo = wpos /\ new.len = size /\ wpos \in Nat
      /\ size \in Nat
  BY <1>0, <1>1, BioAssumption, SMTT(20) DEF Chunk, TypeOK, BioAssumption
<1> HIDE DEF size, new
<1>3. /\ buffers' \in Seq(Chunk) /\ Len(buffers') = Len(buffers) + 1
      /\ buffers' # << >> /\ buffers'[Len(buffers) + 1] = new
      /\ \A i \in 1 .. Len(buffers) : buffers'[i] = buffers[i]
      /\ Len(buffers) \in Nat
      /\ buffers = << >> <=> Len(buffers) = 0
  <2>1. buffers \in Seq(Chunk)
    BY <1>0, Numbers
  <2>. QED
    BY <1>0, <1>2, <2>1, AppendFacts
<1>4. TypeOK'
  BY <1>0, <1>2, <1>3 DEF TypeOK, last
<1>5. Contiguous'
  BY <1>0, <1>2, <1>3 DEF Contiguous
<1>6. Bounded'
  BY <1>0, <1>2, <1>3, ChunkFacts DEF Bounded
<1>7. OffsetInside'
  BY <1>0, <1>2, <1>3, <1>1 DEF OffsetInside
<1>8. rpos' = rpos
  BY <1>0, <1>2, <1>3 DEF rpos, OffsetInside
<1>9. LenExact' /\ Progress'
  BY <1>0, <1>1, <1>2, <1>8, RposType DEF LenExact, Progress, Moved, TypeOK
<1>. QED
  BY <1>4, <1>5, <1>6, <1>7, <1>9 DEF IInv

\* A step that only returns leaves the list as it is.
LEMMA ReturnInv ==
  ASSUME IInv, bio_write_fail \/ bio_write_return \/ bio_peek_return
  PROVE  IInv'
<1>0. /\ TypeOK /\ Contiguous /\ OffsetInside /\ LenExact /\ Bounded
      /\ pc \in {"write", "peek"} /\ UNCHANGED bio /\ pc' = "idle" /\ op' = pc
      /\ count' \in {n, done, -1} /\ copied' = buf
      /\ UNCHANGED <<n, done, at, skip, buf>>
  BY DEF IInv, bio_write_fail, bio_write_return, bio_peek_return, Return
<1>1. TypeOK'
  BY <1>0 DEF TypeOK, Running, bio
<1>2. Contiguous' /\ Bounded' /\ Progress'
  BY <1>0 DEF Contiguous, Bounded, Progress, bio
<1>3. OffsetInside' /\ LenExact'
  BY <1>0 DEF OffsetInside, LenExact, rpos, Moved, bio
<1>. QED
  BY <1>1, <1>2, <1>3 DEF IInv

\* bio_read moves the unread part of the first chunk, and frees it when used up.
LEMMA ReadInv ==
  ASSUME IInv, bio_read
  PROVE  IInv'
<1> DEFINE size == Part(Head(buffers), offset)
<1>0. /\ TypeOK /\ Contiguous /\ OffsetInside /\ LenExact /\ Bounded /\ Progress
      /\ pc \in {"read", "consume"} /\ buffers # << >> /\ done < n
      /\ done' = done + size /\ Advance(size)
      /\ buf' = IF pc = "consume" THEN buf
                ELSE buf \o Bytes(Head(buffers), offset)
      /\ UNCHANGED <<len, wpos, pc, n, at, skip, last>>
  BY DEF IInv, bio_read
<1>1. /\ Head(buffers) = buffers[1] /\ Len(buffers) \in Nat \ {0}
      /\ buffers[1].lo \in Nat /\ buffers[1].len \in Nat \ {0}
      /\ Tail(buffers) \in Seq(Chunk) /\ Len(Tail(buffers)) = Len(buffers) - 1
      /\ \A i \in 1 .. Len(buffers) - 1 : Tail(buffers)[i] = buffers[i + 1]
      /\ Tail(buffers) = << >> <=> Len(buffers) = 1
  BY <1>0, ChunkFacts, TailFacts DEF TypeOK
<1>2. /\ size \in Nat \ {0} /\ size <= n - done
      /\ offset + size <= buffers[1].len /\ offset \in Nat /\ wpos \in Nat
  <2>1. size = BMIN(buffers[1].len - offset, n - done)
    BY <1>1 DEF Part
  <2>2. offset < buffers[1].len /\ done < n
    BY <1>0 DEF OffsetInside
  <2>3. n \in Nat /\ done \in Nat /\ offset \in Nat /\ wpos \in Nat
    BY <1>0, Numbers
  <2>4. buffers[1].len \in Nat
    BY <1>1
  <2>. QED
    BY <2>1, <2>2, <2>3, <2>4 DEF BMIN
<1>3. rpos = buffers[1].lo + offset /\ rpos \in Nat
  BY <1>0, <1>1, <1>2, SMTT(20) DEF rpos
<1>4. Bytes(Head(buffers), offset) = RunFrom(rpos, size)
  BY <1>1, <1>3 DEF Bytes, RunFrom
<1> HIDE DEF size
<1>7. /\ buffers' \in Seq(Chunk) /\ offset' \in Nat
      /\ Contiguous' /\ Bounded' /\ OffsetInside' /\ rpos' = rpos + size
  <2>1. CASE offset + size = buffers[1].len
    <3>0. buffers' = Tail(buffers) /\ offset' = 0
      BY <1>0, <1>1, <2>1 DEF Advance
    <3>1. Contiguous' /\ Bounded'
      BY <1>0, <1>1, <3>0 DEF Contiguous, Bounded
    <3>2. rpos' = rpos + size
      <4>1. CASE Len(buffers) = 1
        BY <1>0, <1>1, <1>2, <1>3, <2>1, <3>0, <4>1 DEF Contiguous, rpos
      <4>2. CASE Len(buffers) > 1
        <5>1. buffers'[1] = buffers[2] /\ buffers' # << >>
          BY <1>1, <3>0, <4>2
        <5>2. buffers[2].lo = buffers[1].lo + buffers[1].len
          BY <1>0, <1>1, <4>2 DEF Contiguous
        <5>. QED
          <6>1. rpos' = buffers'[1].lo + offset' /\ rpos = buffers[1].lo + offset
            BY <1>3, <5>1 DEF rpos
          <6>2. buffers[1].lo \in Nat /\ buffers[1].len \in Nat
            BY <1>1
          <6>. QED
            BY <1>2, <2>1, <3>0, <5>1, <5>2, <6>1, <6>2
      <4>. QED
        BY <1>1, <4>1, <4>2
    <3>3. OffsetInside'
      BY <1>0, <1>1, <3>0, ChunkFacts DEF OffsetInside
    <3>. QED
      BY <1>1, <3>0, <3>1, <3>2, <3>3
  <2>2. CASE offset + size # buffers[1].len
    <3>0. buffers' = buffers /\ offset' = offset + size
      BY <1>0, <1>1, <2>2 DEF Advance
    <3>1. Contiguous' /\ Bounded'
      BY <1>0, <3>0 DEF Contiguous, Bounded
    <3>2. rpos' = rpos + size
      BY <1>0, <1>1, <1>2, <1>3, <3>0, SMTT(20) DEF rpos
    <3>3. OffsetInside'
      BY <1>0, <1>1, <1>2, <2>2, <3>0 DEF OffsetInside
    <3>. QED
      BY <1>0, <1>2, <3>0, <3>1, <3>2, <3>3, Numbers
  <2>. QED
    BY <2>1, <2>2
<1>8. buf' \in Seq(Nat)
  <2>1. RunFrom(rpos, size) \in Seq(Nat)
    BY <1>2, <1>3 DEF RunFrom
  <2>. QED
    BY <1>0, <1>4, <2>1 DEF TypeOK
<1>9. TypeOK'
  BY <1>0, <1>2, <1>7, <1>8, SMTT(20) DEF TypeOK, last
<1>10. LenExact'
  <2>1. /\ len' = len /\ wpos' = wpos /\ pc' = pc /\ pc \in {"read", "consume"}
        /\ done' = done + size /\ rpos' = rpos + size
    BY <1>0, <1>7
  <2>2. len = wpos - rpos + done
    BY <1>0 DEF LenExact, Moved
  <2>3. size \in Nat /\ rpos \in Nat /\ wpos \in Nat /\ done \in Nat
    BY <1>0, <1>2, <1>3, Numbers
  <2>. QED
    BY <2>1, <2>2, <2>3 DEF LenExact, Moved
<1>11. Progress'
  <2>1. CASE pc = "read"
    <3>1. buf' = RunFrom(rpos - done, done) \o RunFrom((rpos - done) + done, size)
      <4>1. (rpos - done) + done = rpos
        BY <1>0, <1>3, Numbers
      <4>. QED
        BY <1>0, <1>4, <2>1, <4>1 DEF Progress
    <3>2. buf' = RunFrom(rpos - done, done + size)
      <4>1. rpos - done \in Int /\ done \in Nat /\ size \in Nat
        BY <1>0, <1>2, <1>3, Numbers, SMTT(20)
      <4>. QED
        BY <3>1, <4>1, RunConcat
    <3>3. rpos' - done' = rpos - done
      <4>1. done' = done + size /\ rpos' = rpos + size
        BY <1>0, <1>7
      <4>2. done \in Nat /\ size \in Nat /\ rpos \in Nat
        BY <1>0, <1>2, <1>3, Numbers
      <4>. QED
        BY <4>1, <4>2
    <3>4. done' <= n'
      <4>1. done' = done + size /\ n' = n
        BY <1>0
      <4>2. done \in Nat /\ size \in Nat /\ n \in Nat /\ size <= n - done
        BY <1>0, <1>2, Numbers
      <4>. QED
        BY <4>1, <4>2
    <3>5. pc' = "read" /\ done' = done + size /\ n' \in Sizes
      BY <1>0, <2>1 DEF Progress
    <3>. QED
      BY <3>2, <3>3, <3>4, <3>5 DEF Progress
  <2>2. CASE pc = "consume"
    BY <1>0, <1>2, <2>2, Numbers DEF Progress
  <2>. QED
    BY <1>0, <2>1, <2>2
<1>. QED
  BY <1>7, <1>9, <1>10, <1>11 DEF IInv

\* bio_read takes off len what it moved.
LEMMA ReadReturnInv ==
  ASSUME IInv, bio_read_return
  PROVE  IInv'
<1>0. /\ TypeOK /\ Contiguous /\ OffsetInside /\ LenExact /\ Bounded /\ Progress
      /\ pc \in {"read", "consume"} /\ len' = len - done
      /\ pc' = "idle" /\ op' = pc /\ count' = done /\ copied' = buf
      /\ UNCHANGED <<n, done, at, skip, buf, buffers, offset, wpos>>
  BY DEF IInv, bio_read_return, Return, LenAfter
<1>1. rpos' = rpos /\ rpos \in Nat /\ rpos <= wpos
  <2>1. CASE buffers = << >>
    BY <1>0, <2>1, RposType, Numbers DEF rpos
  <2>2. CASE buffers # << >>
    <3>1. buffers[1].lo + buffers[1].len <= wpos /\ offset < buffers[1].len
      BY <1>0, <2>2, ChunkFacts DEF Bounded, OffsetInside
    <3>. QED
      <4>1. rpos' = rpos
        BY <1>0 DEF rpos
      <4>2. rpos = buffers[1].lo + offset
        BY <2>2 DEF rpos
      <4>3. buffers[1].lo \in Nat /\ buffers[1].len \in Nat
        BY <1>0, <2>2, ChunkFacts
      <4>4. offset \in Nat /\ wpos \in Nat
        BY <1>0, Numbers
      <4>. QED
        BY <3>1, <4>1, <4>2, <4>3, <4>4
  <2>. QED
    BY <2>1, <2>2
<1>2. len' \in Nat /\ LenExact'
  BY <1>0, <1>1, Numbers, SMTT(20) DEF LenExact, Moved
<1>3. TypeOK'
  BY <1>0, <1>2 DEF TypeOK, Running
<1>4. Contiguous' /\ Bounded' /\ OffsetInside' /\ Progress'
  BY <1>0 DEF Contiguous, Bounded, OffsetInside, Progress
<1>. QED
  BY <1>2, <1>3, <1>4 DEF IInv

\* bio_peek copies the unread part of every chunk it still wants.
LEMMA PeekInv ==
  ASSUME IInv, bio_peek
  PROVE  IInv'
<1> DEFINE size == Part(buffers[at], skip)
<1>0. /\ TypeOK /\ Contiguous /\ OffsetInside /\ LenExact /\ Bounded /\ Progress
      /\ pc = "peek" /\ at <= Len(buffers)
      /\ done' = done + size /\ buf' = buf \o Bytes(buffers[at], skip)
      /\ skip' = 0 /\ at' = at + 1 /\ UNCHANGED <<bio, pc, n, last>>
  BY DEF IInv, bio_peek, SkipNext
<1>1. /\ at \in 1 .. Len(buffers) /\ Len(buffers) \in Nat /\ buffers # << >>
      /\ buffers[at].lo \in Nat /\ buffers[at].len \in Nat \ {0}
      /\ n \in Nat /\ done \in Nat /\ skip \in Nat /\ rpos \in Nat
      /\ skip < buffers[at].len
  BY <1>0, ChunkFacts, RposType DEF TypeOK, Progress, OffsetInside
<1>2. /\ PeekPos = buffers[at].lo + skip
      /\ done = BMIN(n, PeekPos - rpos) /\ buf = RunFrom(rpos, done)
  BY <1>0, <1>1 DEF PeekPos, Progress
<1>3. size = BMIN(buffers[at].len - skip, n - done)
  BY DEF Part
<1>4. size \in Nat /\ done + size = BMIN(n, (PeekPos - skip + buffers[at].len) - rpos)
  <2>0. /\ n \in Nat /\ done \in Nat /\ skip \in Nat /\ rpos \in Nat
        /\ buffers[at].lo \in Nat /\ buffers[at].len \in Nat
        /\ skip < buffers[at].len
    BY <1>1
  <2>1. PeekPos - rpos \in Nat /\ buffers[at].len - skip \in Nat /\ PeekPos \in Nat
    BY <1>2, <2>0 DEF BMIN
  <2>2. (PeekPos - skip + buffers[at].len) - rpos
          = (PeekPos - rpos) + (buffers[at].len - skip)
    BY <2>0, <2>1
  <2>. QED
    <3> DEFINE c == buffers[at].len - skip
               x == PeekPos - rpos
    <3>1. size = BMIN(c, n - BMIN(n, x)) /\ done = BMIN(n, x)
      BY <1>2, <1>3
    <3>2. c \in Nat /\ x \in Nat /\ n \in Nat
      BY <2>0, <2>1
    <3> HIDE DEF c, x
    <3>3. size \in Nat /\ done + size = BMIN(n, x + c)
      BY <3>1, <3>2, MinStep
    <3>. QED
      BY <2>2, <3>3 DEF c, x
<1>5. Bytes(buffers[at], skip) = RunFrom(rpos + done, size)
  <2>1. CASE size = 0
    BY <2>1, <1>1, RunEmpty DEF Bytes, RunFrom
  <2>2. CASE size # 0
    <3>1. rpos + done = buffers[at].lo + skip
      BY <2>2, <1>1, <1>2, <1>3 DEF BMIN
    <3>. QED
      BY <3>1 DEF Bytes, RunFrom
  <2>. QED
    BY <2>1, <2>2
<1> HIDE DEF size
<1>6. Contiguous' /\ Bounded' /\ OffsetInside' /\ LenExact' /\ rpos' = rpos
  BY <1>0 DEF bio, Contiguous, Bounded, OffsetInside, LenExact, rpos, Moved
<1>7. PeekPos' = PeekPos - skip + buffers[at].len
  <2>1. CASE at = Len(buffers)
    BY <1>0, <1>1, <1>2, <2>1, Numbers DEF Contiguous, PeekPos, bio
  <2>2. CASE at < Len(buffers)
    <3>1. buffers[at + 1].lo = buffers[at].lo + buffers[at].len
      BY <1>0, <1>1, <2>2 DEF Contiguous
    <3>. QED
      BY <1>0, <1>1, <1>2, <2>2, <3>1 DEF PeekPos, bio
  <2>. QED
    BY <1>1, <2>1, <2>2
<1>8. buf' = RunFrom(rpos', done')
  <2>1. buf' = RunFrom(rpos, done) \o RunFrom(rpos + done, size)
    BY <1>0, <1>2, <1>5
  <2>. QED
    <3>1. rpos \in Int /\ done \in Nat /\ size \in Nat
      BY <1>1, <1>4
    <3>2. done' = done + size /\ rpos' = rpos
      BY <1>0, <1>6
    <3>. QED
      BY <2>1, <3>1, <3>2, RunConcat
<1>9. buf' \in Seq(Nat)
  BY <1>0, <1>1, <1>4, <1>6, <1>8 DEF RunFrom
<1>10. TypeOK'
  BY <1>0, <1>1, <1>4, <1>9 DEF TypeOK, bio, last
<1>11. Progress'
  BY <1>0, <1>1, <1>4, <1>6, <1>7, <1>8 DEF Progress, bio
<1>. QED
  BY <1>6, <1>10, <1>11 DEF IInv

\* bio_reset frees one chunk.
LEMMA ResetInv ==
  ASSUME IInv, bio_reset
  PROVE  IInv'
<1>0. /\ TypeOK /\ Contiguous /\ OffsetInside /\ LenExact /\ Bounded /\ Progress
      /\ pc = "reset" /\ buffers # << >> /\ buffers' = Tail(buffers)
      /\ UNCHANGED <<offset, len, wpos, call, last>>
  BY DEF IInv, bio_reset
<1>1. /\ Tail(buffers) \in Seq(Chunk) /\ Len(Tail(buffers)) = Len(buffers) - 1
      /\ \A i \in 1 .. Len(buffers) - 1 : Tail(buffers)[i] = buffers[i + 1]
      /\ Tail(buffers) = << >> <=> Len(buffers) = 1
      /\ Len(buffers) \in Nat \ {0}
  BY <1>0, TailFacts DEF TypeOK
<1>2. TypeOK'
  BY <1>0, <1>1 DEF TypeOK, call, last
<1>3. Contiguous' /\ Bounded'
  BY <1>0, <1>1 DEF Contiguous, Bounded
<1>4. OffsetInside' /\ LenExact' /\ Progress'
  BY <1>0 DEF OffsetInside, LenExact, Progress, call
<1>. QED
  BY <1>2, <1>3, <1>4 DEF IInv

\* bio_reset leaves an empty list.
LEMMA ResetReturnInv ==
  ASSUME IInv, bio_reset_return
  PROVE  IInv'
<1>0. /\ TypeOK /\ Contiguous /\ Bounded
      /\ pc = "reset" /\ buffers = << >> /\ offset' = 0 /\ len' = 0
      /\ pc' = "idle" /\ op' = pc /\ count' = 0 /\ copied' = buf
      /\ UNCHANGED <<n, done, at, skip, buf, buffers, wpos>>
  BY DEF IInv, bio_reset_return, Return
<1>1. TypeOK'
  BY <1>0 DEF TypeOK, Running
<1>2. Contiguous' /\ Bounded' /\ OffsetInside' /\ Progress'
  BY <1>0 DEF Contiguous, Bounded, OffsetInside, Progress
<1>3. LenExact'
  BY <1>0 DEF LenExact, rpos, Moved, TypeOK
<1>. QED
  BY <1>1, <1>2, <1>3 DEF IInv

\* A stuttering step changes nothing.
LEMMA StutterInv ==
  ASSUME IInv, UNCHANGED vars
  PROVE  IInv'
<1>1. TypeOK' /\ Contiguous' /\ Bounded' /\ OffsetInside'
  BY DEF IInv, TypeOK, Contiguous, Bounded, OffsetInside, vars, bio, call, last
<1>2. LenExact' /\ Progress'
  BY DEF IInv, LenExact, Progress, rpos, Moved, PeekPos, vars, bio, call, last
<1>. QED
  BY <1>1, <1>2 DEF IInv

\* Every reachable state of bio.c satisfies the invariant, whatever the chunk
\* capacity and whatever sizes its callers pass.
THEOREM Invariance == Spec => []IInv
<1>1. IInv /\ [Next]_vars => IInv'
  BY CallInv, WriteInv, ReturnInv, ReadInv, ReadReturnInv, PeekInv, ResetInv,
     ResetReturnInv, StutterInv DEF Next, Step
<1>. QED
  BY InitInv, <1>1, PTL DEF Spec

\* Theorems named after the properties the run checks.
THEOREM TypeCorrect == Spec => []TypeOK
BY Invariance, PTL DEF IInv

\* bio_pending tells the truth: len is the number of unread bytes in the chunks,
\* and those chunks are one unbroken run of the bytes appended.
THEOREM LenCorrect == Spec => [](LenExact /\ Contiguous)
BY Invariance, PTL DEF IInv

\* buffer->len - bio->offset never wraps.
THEOREM OffsetCorrect == Spec => []OffsetInside
BY Invariance, PTL DEF IInv

-----------------------------------------------------------------------------
(* The list of chunks implements the queue of bytes. *)

\* Steps inside an operation are invisible.
LEMMA InnerSteps ==
  ASSUME IInv,
         \/ \E p \in Running, k \in Sizes : Call(p, k)
         \/ bio_write \/ bio_read \/ bio_peek \/ bio_reset
         \/ UNCHANGED vars
  PROVE  UNCHANGED Queue!qvars
<1>0. TypeOK /\ (pc = "idle" => Hidden = 0)
  BY DEF IInv, Hidden
<1>1. CASE \E p \in Running, k \in Sizes : Call(p, k)
  <2>1. UNCHANGED <<wpos, len, last>> /\ Hidden = 0 /\ Hidden' = 0
    BY <1>1 DEF Call, bio, Hidden
  <2>. QED
    BY <2>1 DEF Queue!qvars, last
<1>2. CASE bio_write
  <2> DEFINE size == BMIN(Capacity, n - done)
  <2>1. /\ wpos' = wpos + size /\ len' = len + size
        /\ Hidden = done /\ Hidden' = done + size /\ UNCHANGED last
    BY <1>2 DEF bio_write, InsertTail, Hidden
  <2>2. size \in Int /\ wpos \in Nat /\ len \in Nat /\ done \in Nat
    BY <1>0, Numbers, BioAssumption DEF BMIN, BioAssumption
  <2> HIDE DEF size
  <2>3. wpos' - len' = wpos - len /\ wpos' - Hidden' = wpos - Hidden
    BY <2>1, <2>2
  <2>. QED
    BY <2>1, <2>3 DEF Queue!qvars, last
<1>3. CASE bio_read
  BY <1>3 DEF bio_read, Hidden, Queue!qvars, last
<1>4. CASE bio_peek
  BY <1>4 DEF bio_peek, Hidden, Queue!qvars, last, bio
<1>5. CASE bio_reset
  BY <1>5 DEF bio_reset, Hidden, Queue!qvars, last, call
<1>6. CASE UNCHANGED vars
  BY <1>6 DEF vars, bio, call, last, Hidden, Queue!qvars
<1>. QED
  BY <1>1, <1>2, <1>3, <1>4, <1>5, <1>6

\* A bio_write that returns has put its bytes, or a prefix of them, into the queue.
LEMMA WriteReturns ==
  ASSUME IInv, bio_write_fail \/ bio_write_return
  PROVE  Queue!QWriteFail(n) \/ Queue!QWrite(n)
<1>0. TypeOK /\ done <= n /\ buf = << >> /\ pc = "write"
  BY DEF IInv, Progress, bio_write_fail, bio_write_return
<1>1. /\ wpos' = wpos /\ len' = len /\ op' = "write" /\ copied' = << >>
      /\ Hidden = done /\ Hidden' = 0
  BY <1>0 DEF bio_write_fail, bio_write_return, Return, bio, Hidden
<1>2. wpos \in Nat /\ done \in Nat /\ n \in Nat /\ len \in Nat
  BY <1>0, Numbers
<1>3. wpos' - Hidden' = (wpos - Hidden) + done
  BY <1>1, <1>2
<1>4. CASE bio_write_fail
  <2>1. done \in 0 .. n - 1 /\ count' = -1
    BY <1>2, <1>4 DEF bio_write_fail, Return
  <2>. QED
    BY <1>1, <1>3, <2>1 DEF Queue!QWriteFail
<1>5. CASE bio_write_return
  <2>1. done = n /\ count' = n
    BY <1>0, <1>2, <1>5 DEF bio_write_return, Return
  <2>. QED
    BY <1>1, <1>3, <2>1 DEF Queue!QWrite
<1>. QED
  BY <1>4, <1>5

\* A bio_read or bio_consume that returns has taken the first bytes of the queue.
LEMMA ReadReturns ==
  ASSUME IInv, bio_read_return
  PROVE  Queue!QRead(n) \/ Queue!QConsume(n)
<1>0. /\ TypeOK /\ LenExact /\ Bounded /\ OffsetInside /\ Progress
      /\ pc \in {"read", "consume"} /\ (buffers = << >> \/ done >= n)
      /\ len' = len - done /\ wpos' = wpos /\ Hidden = 0 /\ Hidden' = 0
      /\ count' = done /\ copied' = buf /\ op' = pc
  BY DEF IInv, bio_read_return, Return, LenAfter, Hidden
<1>1. /\ wpos \in Nat /\ done \in Nat /\ n \in Nat /\ len \in Nat /\ rpos \in Nat
      /\ done <= n /\ len = wpos - rpos + done
  BY <1>0, Numbers, RposType DEF Progress, LenExact, Moved
<1>2. rpos <= wpos /\ (buffers = << >> => rpos = wpos)
  <2>1. CASE buffers = << >>
    BY <2>1, <1>1 DEF rpos
  <2>2. CASE buffers # << >>
    <3>1. buffers[1].lo + buffers[1].len <= wpos /\ offset < buffers[1].len
      BY <1>0, <2>2, ChunkFacts DEF Bounded, OffsetInside
    <3>2. buffers[1].lo \in Nat /\ buffers[1].len \in Nat /\ offset \in Nat
      BY <1>0, <2>2, ChunkFacts, Numbers
    <3>3. rpos = buffers[1].lo + offset
      BY <2>2 DEF rpos
    <3>. QED
      BY <1>1, <2>2, <3>1, <3>2, <3>3, SMTT(20)
  <2>. QED
    BY <2>1, <2>2
<1>3. (wpos - Hidden) - (wpos - len) = len /\ (wpos - len) = rpos - done
  BY <1>0, <1>1
<1>4. done = Queue!Least(n, (wpos - Hidden) - (wpos - len))
  <2>1. buffers = << >> \/ done = n
    BY <1>0, <1>1
  <2>2. done = IF n < len THEN n ELSE len
    BY <1>1, <1>2, <2>1
  <2>. QED
    BY <1>3, <2>2 DEF Queue!Least
<1>5. (wpos' - len') = (wpos - len) + done /\ wpos' - Hidden' = wpos - Hidden
  BY <1>0, <1>1
<1>6. CASE pc = "read"
  <2>1. buf = Queue!First(done)
    <3>1. buf = RunFrom(rpos - done, done)
      BY <1>0, <1>6 DEF Progress
    <3>. QED
      BY <1>3, <3>1 DEF Queue!First, RunFrom
  <2>2. op' = "read" /\ count' = done /\ copied' = Queue!First(done)
    BY <1>0, <1>6, <2>1
  <2>. QED
    BY <1>4, <1>5, <2>2 DEF Queue!QRead
<1>7. CASE pc = "consume"
  <2>1. op' = "consume" /\ count' = done /\ copied' = << >>
    BY <1>0, <1>7 DEF Progress
  <2>. QED
    BY <1>4, <1>5, <2>1 DEF Queue!QConsume
<1>. QED
  BY <1>0, <1>6, <1>7

\* A bio_peek that returns has copied the first bytes and taken none.
LEMMA PeekReturns ==
  ASSUME IInv, bio_peek_return
  PROVE  Queue!QPeek(n)
<1>0. /\ TypeOK /\ LenExact /\ Progress /\ pc = "peek" /\ at > Len(buffers)
      /\ len' = len /\ wpos' = wpos /\ Hidden = 0 /\ Hidden' = 0
      /\ count' = done /\ copied' = buf /\ op' = "peek"
  BY DEF IInv, bio_peek_return, Return, bio, Hidden
<1>1. /\ wpos \in Nat /\ n \in Nat /\ len \in Nat /\ rpos \in Nat
      /\ len = wpos - rpos
  BY <1>0, Numbers, RposType DEF LenExact, Moved
<1>2. done = BMIN(n, wpos - rpos) /\ buf = RunFrom(rpos, done)
  BY <1>0 DEF Progress, PeekPos
<1>3. (wpos - Hidden) - (wpos - len) = len /\ (wpos - len) = rpos
  BY <1>0, <1>1
<1>4. done = Queue!Least(n, (wpos - Hidden) - (wpos - len))
  BY <1>1, <1>2, <1>3 DEF Queue!Least, BMIN
<1>5. copied' = Queue!First(done)
  BY <1>0, <1>2, <1>3 DEF Queue!First, RunFrom
<1>. QED
  BY <1>0, <1>4, <1>5 DEF Queue!QPeek

\* A bio_reset that returns has emptied the queue.
LEMMA ResetReturns ==
  ASSUME IInv, bio_reset_return
  PROVE  Queue!QReset
<1>1. /\ wpos' = wpos /\ len' = 0 /\ Hidden = 0 /\ Hidden' = 0
      /\ count' = 0 /\ copied' = << >> /\ op' = "reset"
  BY DEF IInv, Progress, bio_reset_return, Return, Hidden
<1>2. wpos \in Nat
  BY Numbers DEF IInv
<1>. QED
  BY <1>1, <1>2 DEF Queue!QReset

\* bio.c implements the queue of bytes that bio.h describes: every call returns
\* the right bytes, in order, whatever the chunk capacity and the sizes.
THEOREM Refinement == Spec => IsByteQueue
<1>1. Init => Queue!QInit
  BY DEF Init, Queue!QInit, Hidden
<1>2. IInv /\ [Next]_vars => [Queue!QNext]_(Queue!qvars)
  <2> SUFFICES ASSUME IInv, [Next]_vars PROVE [Queue!QNext]_(Queue!qvars)
    OBVIOUS
  <2>1. pc # "idle" => n \in Sizes
    BY DEF IInv, Progress
  <2>2. CASE bio_write_fail \/ bio_write_return
    <3>1. n \in Sizes
      BY <2>1, <2>2 DEF bio_write_fail, bio_write_return
    <3>. QED
      BY <2>2, <3>1, WriteReturns DEF Queue!QNext
  <2>3. CASE bio_read_return
    <3>1. n \in Sizes
      BY <2>1, <2>3 DEF bio_read_return
    <3>. QED
      BY <2>3, <3>1, ReadReturns DEF Queue!QNext
  <2>4. CASE bio_peek_return
    <3>1. n \in Sizes
      BY <2>1, <2>4 DEF bio_peek_return
    <3>. QED
      BY <2>4, <3>1, PeekReturns DEF Queue!QNext
  <2>5. CASE bio_reset_return
    BY <2>5, ResetReturns DEF Queue!QNext
  <2>. QED
    BY <2>2, <2>3, <2>4, <2>5, InnerSteps DEF Next, Step
<1>. QED
  BY <1>1, <1>2, Invariance, PTL DEF Spec, IsByteQueue, Queue!QSpec
=============================================================================
