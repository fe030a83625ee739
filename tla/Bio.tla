-------------------------------- MODULE Bio --------------------------------
(***************************************************************************)
(* bio.c: a byte buffer kept as a list of chunks.  Every use of a bio in   *)
(* mux.c is under one lock, so one operation runs at a time; its loops are *)
(* taken one iteration per step, which is where an allocation can fail.    *)
(*                                                                         *)
(* Bytes are named by their position in the stream of all bytes ever       *)
(* appended: buffer->data of a chunk is a run of len positions from lo.    *)
(***************************************************************************)
EXTENDS Integers, Sequences

CONSTANTS Capacity,   \* the 4096 of bio_write
          Sizes,      \* the sizes n that callers pass
          MaxBytes    \* bound: bytes appended in all

ASSUME BioAssumption == /\ Capacity \in Nat \ {0}
                        /\ Sizes \subseteq Nat
                        /\ MaxBytes \in Nat

VARIABLES
  buffers, offset, len,   \* struct bio
  wpos,                   \* position of the next byte to be appended
  pc,                     \* the operation that is running, or "idle"
  n, done,                \* its argument, and `pos' or `nread'
  at, skip,               \* bio_peek: the next chunk, and the local `offset'
  buf,                    \* positions of the bytes stored in the caller's buf
  op, count, copied       \* the last operation that returned, its result, and
                          \* what it left in the caller's buf

bio == <<buffers, offset, len, wpos>>
call == <<pc, n, done, at, skip, buf>>
last == <<op, count, copied>>
vars == <<bio, call, last>>

BMIN(a, b) == IF a < b THEN a ELSE b

Init == /\ buffers = << >> /\ offset = 0 /\ len = 0 /\ wpos = 0
        /\ pc = "idle" /\ n = 0 /\ done = 0 /\ at = 1 /\ skip = 0 /\ buf = << >>
        /\ op = "new" /\ count = 0 /\ copied = << >>

Running == {"write", "read", "consume", "peek", "reset"}

\* A caller enters bio_write, bio_read, bio_consume, bio_peek or bio_reset.
Call(p, k) ==
  /\ pc = "idle"
  /\ p = "write" => wpos + k <= MaxBytes
  /\ pc' = p /\ n' = k /\ done' = 0 /\ at' = 1 /\ skip' = offset /\ buf' = << >>
  /\ UNCHANGED <<bio, last>>

Return(r) == /\ pc' = "idle" /\ op' = pc /\ count' = r /\ copied' = buf
             /\ UNCHANGED <<n, done, at, skip, buf>>

-----------------------------------------------------------------------------
(* bio_write *)

\* Mutant: the new chunk goes to the head of the list.
InsertHead(chunk) == <<chunk>> \o buffers

InsertTail(chunk) == Append(buffers, chunk)

\* buffer_new, STAILQ_INSERT_TAIL and the two additions of one iteration.
bio_write ==
  LET size == BMIN(Capacity, n - done) IN
  /\ pc = "write" /\ done < n
  /\ buffers' = InsertTail([lo |-> wpos, len |-> size])
  /\ len' = len + size
  /\ wpos' = wpos + size
  /\ done' = done + size
  /\ UNCHANGED <<offset, pc, n, at, skip, buf, last>>

\* buffer_new fails: the chunks appended so far stay.
bio_write_fail ==
  /\ pc = "write" /\ done < n
  /\ Return(-1)
  /\ UNCHANGED bio

bio_write_return ==
  /\ pc = "write" /\ done >= n
  /\ Return(n)
  /\ UNCHANGED bio

-----------------------------------------------------------------------------
(* bio_read, and bio_consume, which is bio_read without a buffer *)

\* The part of the chunk behind offset o that is still wanted.
Part(chunk, o) == BMIN(chunk.len - o, n - done)
Bytes(chunk, o) == [i \in 1 .. Part(chunk, o) |-> chunk.lo + o + i - 1]

\* Mutant: the offset into the removed chunk is kept for the next one.
AdvanceKeeping(size) ==
  /\ offset' = offset + size
  /\ buffers' = IF offset + size = Head(buffers).len THEN Tail(buffers) ELSE buffers

\* Mutant: a chunk that is used up stays in the list.
AdvanceStuck(size) == offset' = offset + size /\ UNCHANGED buffers

\* offset moves on; a chunk that is used up is removed and freed.
Advance(size) ==
  IF offset + size = Head(buffers).len
  THEN buffers' = Tail(buffers) /\ offset' = 0
  ELSE offset' = offset + size /\ UNCHANGED buffers

bio_read ==
  /\ pc \in {"read", "consume"} /\ buffers # << >> /\ done < n
  /\ LET size == Part(Head(buffers), offset) IN
       /\ Advance(size)
       /\ done' = done + size
  /\ buf' = IF pc = "consume" THEN buf ELSE buf \o Bytes(Head(buffers), offset)
  /\ UNCHANGED <<len, wpos, pc, n, at, skip, last>>

\* Mutant: what was asked for is taken off len, not what was read.
LenAfterAsked == len - n

LenAfter == len - done

bio_read_return ==
  /\ pc \in {"read", "consume"} /\ (buffers = << >> \/ done >= n)
  /\ len' = LenAfter
  /\ Return(done)
  /\ UNCHANGED <<buffers, offset, wpos>>

-----------------------------------------------------------------------------
(* bio_peek visits every chunk, also after it has all it wants *)

\* Mutant: the offset into the first chunk is applied to every chunk.
SkipKept == skip

\* Only the first chunk is partly read already.
SkipNext == 0

bio_peek ==
  /\ pc = "peek" /\ at <= Len(buffers)
  /\ done' = done + Part(buffers[at], skip)
  /\ buf' = buf \o Bytes(buffers[at], skip)
  /\ skip' = SkipNext
  /\ at' = at + 1
  /\ UNCHANGED <<bio, pc, n, last>>

bio_peek_return ==
  /\ pc = "peek" /\ at > Len(buffers)
  /\ Return(done)
  /\ UNCHANGED bio

-----------------------------------------------------------------------------
(* bio_reset, which bio_free uses too *)

bio_reset ==
  /\ pc = "reset" /\ buffers # << >>
  /\ buffers' = Tail(buffers)
  /\ UNCHANGED <<offset, len, wpos, call, last>>

bio_reset_return ==
  /\ pc = "reset" /\ buffers = << >>
  /\ offset' = 0 /\ len' = 0
  /\ Return(0)
  /\ UNCHANGED <<buffers, wpos>>

-----------------------------------------------------------------------------

Step == \/ bio_write \/ bio_write_fail \/ bio_write_return
        \/ bio_read \/ bio_read_return
        \/ bio_peek \/ bio_peek_return
        \/ bio_reset \/ bio_reset_return

Next == Step \/ \E p \in Running, k \in Sizes : Call(p, k)

Spec == Init /\ [][Next]_vars

\* The caller's thread keeps running inside the call.
FairSpec == Spec /\ WF_vars(Step)

-----------------------------------------------------------------------------
(* Properties. *)

Chunk == [lo : Nat, len : 1 .. Capacity]

\* Every variable keeps its type; no chunk is empty or over capacity.
TypeOK ==
  /\ buffers \in Seq(Chunk)
  /\ offset \in Nat /\ len \in Nat /\ wpos \in Nat
  /\ pc \in Running \cup {"idle"}
  /\ n \in Nat /\ done \in Nat /\ at \in Nat \ {0} /\ skip \in Nat
  /\ buf \in Seq(Nat) /\ copied \in Seq(Nat)
  /\ op \in Running \cup {"new"} /\ count \in Nat \cup {-1}

\* The position of the first unread byte.
rpos == IF buffers = << >> THEN wpos ELSE buffers[1].lo + offset

\* The chunks hold one unbroken run of bytes that ends with the last byte
\* appended: none is lost, repeated or out of order.
Contiguous ==
  /\ \A i \in 1 .. Len(buffers) - 1 :
       buffers[i + 1].lo = buffers[i].lo + buffers[i].len
  /\ buffers # << >> =>
       buffers[Len(buffers)].lo + buffers[Len(buffers)].len = wpos

\* The part of the first chunk that was read is always less than the chunk, so
\* the unsigned subtraction buffer->len - bio->offset never wraps, and every
\* iteration of the loops in bio_read makes progress.
OffsetInside ==
  /\ buffers # << >> /\ pc # "reset" => offset < buffers[1].len
  /\ buffers = << >> /\ pc # "reset" => offset = 0

\* Bytes that the running bio_read has moved but not yet taken off len.
Moved == IF pc \in {"read", "consume"} THEN done ELSE 0

\* bio_pending is the number of unread bytes whenever no operation is running,
\* and off by what bio_read has already moved while it runs.
LenExact == pc # "reset" => len = wpos - rpos + Moved

\* ByteQueue sees an operation when it returns: until then the bytes that
\* bio_write appends are not in the queue, and those that bio_read moves are.
Hidden == IF pc = "write" THEN done ELSE 0
Queue == INSTANCE ByteQueue WITH lo <- wpos - len, hi <- wpos - Hidden

\* The list of chunks is a queue of bytes: operations return the right bytes
\* in the right order, and a failed bio_write leaves a prefix of its data.
IsByteQueue == Queue!QSpec

\* Every call returns: the loops end although bio_peek does not stop early.
Returns == pc \in Running ~> pc = "idle"
=============================================================================
