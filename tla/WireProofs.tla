----------------------------- MODULE WireProofs -----------------------------
(***************************************************************************)
(* Proofs about module Wire, for every size of header, chunk and payload,  *)
(* any streams and any number of frames, with the failures of local calls. *)
(* TypeOK holds unconditionally (TypeInv is inductive).                    *)
(*                                                                         *)
(* Aligned and InOrder speak of what the receiver has read, Conserved of   *)
(* what is still on its way, in three buffers.  The invariant is about the *)
(* trail: the byte session_process took last, then the receive buffer, the *)
(* wire and what send_loop has not written of send_buf.  The trail         *)
(* is cut into whole frames (Framed) and ends where the sender goes on     *)
(* (Continues); the payload in it goes on where each stream stopped        *)
(* (Ascends, Covers), and its PINGs ascend.  The two loops leave the trail *)
(* as it is, session_process drops bytes from its front (Drops), a sender  *)
(* adds bytes behind it (Extends).  All that (Intact) holds until a frame  *)
(* is torn by a payload that failed, or the receiver gives up; from then   *)
(* on the streams stay as they are.                                        *)
(*                                                                         *)
(* That takes one sender (OneSender), since the header and the payload of  *)
(* a frame are queued in two sections of send_lock, and payload of at most *)
(* one byte for the streams the receiver lacks (MissingFits), since what   *)
(* session_handle_data leaves of a longer one is read as a header.  The    *)
(* runs torn_frames and missing_stream show that neither can be dropped.   *)
(***************************************************************************)
EXTENDS Wire, SequenceTheorems, TLAPS

-----------------------------------------------------------------------------
(* Types: what is queued, sent and parsed are bytes of sensible frames. *)

\* hi - lo, the length of a frame, is never negative.
SaneFrame == {f \in Frame : f.lo <= f.hi}
SaneByte == [hdr : BOOLEAN, frame : SaneFrame, i : Nat]

\* Every byte on the way belongs to such a frame, and so does every frame in work.
Sane ==
  /\ send_buf \in Seq(SaneByte) /\ wire \in Seq(SaneByte)
  /\ recv_buf \in Seq(SaneByte)
  /\ cur \in [Senders -> SaneFrame] /\ hdr \in SaneFrame

TypeInv == TypeOK /\ Sane

\* The sizes of a header and of a chunk.
LEMMA SizeFacts ==
  /\ HdrSize \in Nat /\ HdrSize >= 1 /\ Chunk \in Nat /\ Chunk >= 1
  /\ MaxFrames \in Nat /\ Known \subseteq Sids /\ Sids \subseteq Nat
  /\ \A s \in Sids : Sizes[s] \subseteq Nat
BY WireAssumption DEF WireAssumption

\* A function on 1 .. n is a sequence of length n.
LEMMA FunIsSeq ==
  ASSUME NEW S, NEW n \in Nat, NEW x, x \in [1 .. n -> S]
  PROVE  x \in Seq(S) /\ Len(x) = n
OBVIOUS

\* A header is HdrSize bytes of its frame (hdr_encode).
LEMMA HeaderType ==
  ASSUME NEW f \in SaneFrame
  PROVE  /\ Header(f) \in Seq(SaneByte) /\ Len(Header(f)) = HdrSize
         /\ \A i \in 1 .. HdrSize : Header(f)[i] = [hdr |-> TRUE, frame |-> f, i |-> i]
<1>1. Header(f) \in [1 .. HdrSize -> SaneByte]
  BY SizeFacts DEF Header, SaneByte
<1>2. Header(f) \in Seq(SaneByte) /\ Len(Header(f)) = HdrSize
  BY <1>1, SizeFacts, FunIsSeq
<1>. QED
  BY <1>2 DEF Header

\* A payload is as many bytes of its frame as were queued.
LEMMA PayloadType ==
  ASSUME NEW f \in SaneFrame, NEW n \in Nat
  PROVE  /\ Payload(f, n) \in Seq(SaneByte) /\ Len(Payload(f, n)) = n
         /\ \A i \in 1 .. n :
              Payload(f, n)[i] = [hdr |-> FALSE, frame |-> f, i |-> f.lo + i]
<1>0. f.lo \in Nat
  BY DEF SaneFrame, Frame
<1>1. Payload(f, n) \in [1 .. n -> SaneByte]
  BY <1>0 DEF Payload, SaneByte
<1>2. Payload(f, n) \in Seq(SaneByte) /\ Len(Payload(f, n)) = n
  BY <1>1, FunIsSeq
<1>. QED
  BY <1>2 DEF Payload

\* A piece of a sequence.
LEMMA PieceType ==
  ASSUME NEW S, NEW q \in Seq(S), NEW m \in Nat \ {0}, NEW n \in Nat, n <= Len(q)
  PROVE  /\ SubSeq(q, m, n) \in Seq(S)
         /\ Len(SubSeq(q, m, n)) = IF m <= n THEN n - m + 1 ELSE 0
         /\ \A i \in 1 .. n - m + 1 : SubSeq(q, m, n)[i] = q[m + i - 1]
<1>1. \A i \in m .. n : q[i] \in S
  OBVIOUS
<1>. QED
  BY <1>1, SubSeqProperties

\* Bytes and frames that are sane are bytes and frames.
LEMMA SaneFacts ==
  /\ \A f \in SaneFrame : f \in Frame /\ f.lo \in Nat /\ f.hi \in Nat /\ f.lo <= f.hi
                             /\ hdr_length(f) \in Nat
  /\ \A b \in SaneByte : b \in Byte /\ b.frame \in SaneFrame
  /\ \A q \in Seq(SaneByte) : q \in Seq(Byte)
<1>1. \A f \in SaneFrame : f \in Frame /\ f.lo \in Nat /\ f.hi \in Nat /\ f.lo <= f.hi
                             /\ hdr_length(f) \in Nat
  BY DEF SaneFrame, Frame, hdr_length
<1>2. \A b \in SaneByte : b \in Byte /\ b.frame \in SaneFrame
  BY <1>1 DEF SaneByte, Byte
<1>3. SaneByte \subseteq Byte
  BY <1>2
<1>. QED
  BY <1>1, <1>2, <1>3, SeqMonotonic

\* The initial state is sane.
LEMMA InitType == Init => TypeInv
<1> SUFFICES ASSUME Init PROVE TypeInv
  OBVIOUS
<1>1. NoFrame \in SaneFrame
  BY DEF NoFrame, SaneFrame, Frame
<1>2. /\ send_buf \in Seq(Byte) /\ wire \in Seq(Byte) /\ recv_buf \in Seq(Byte)
      /\ unconsumed \in 0 .. Len(send_buf) /\ pongs \in Seq(Nat)
      /\ got \in [Known -> Seq(Byte)] /\ hdr \in Frame /\ cur \in [Senders -> Frame]
  BY <1>1, SaneFacts DEF Init
<1>3. failure \in {"never", "may", "came"}
  BY WireAssumption DEF WireAssumption, Init
<1>4. TypeOK
  BY <1>2, <1>3 DEF Init, TypeOK
<1>. QED
  BY <1>1, <1>4, SizeFacts DEF Init, TypeInv, Sane

\* Senders queue bytes of sane frames behind those there are.
LEMMA SenderType ==
  ASSUME TypeInv, NEW t \in Senders,
         \/ Begin(t) \/ SendPayload(t) \/ SendPayloadFail(t) \/ SendHeaderFail(t)
  PROVE  TypeInv'
<1>0. TypeOK /\ Sane
  BY DEF TypeInv
<1>1. ASSUME NEW x \in Seq(SaneByte), send_buf' = send_buf \o x
      PROVE  /\ send_buf' \in Seq(SaneByte) /\ send_buf' \in Seq(Byte)
             /\ unconsumed \in 0 .. Len(send_buf')
  <2>1. /\ send_buf' \in Seq(SaneByte) /\ Len(send_buf') = Len(send_buf) + Len(x)
        /\ Len(x) \in Nat /\ Len(send_buf) \in Nat
    BY <1>0, <1>1, ConcatProperties DEF Sane
  <2>. QED
    BY <1>0, <2>1, SaneFacts DEF TypeOK
<1>2. ASSUME NEW s \in Sids, NEW n \in Sizes[s], SendHeader(t, s, n) PROVE TypeInv'
  <2> DEFINE f == [type |-> "DATA", sid |-> s, lo |-> written[s], hi |-> written[s] + n]
  <2>1. n \in Nat /\ s \in Nat /\ written[s] \in Nat
    BY <1>0, SizeFacts DEF TypeOK
  <2>2. f \in SaneFrame
    BY <2>1 DEF SaneFrame, Frame
  <2>3. send_buf' = send_buf \o Header(f) /\ Header(f) \in Seq(SaneByte)
    BY <1>2, <2>2, HeaderType DEF SendHeader
  <2>4. written' \in [Sids -> Nat] /\ cur' \in [Senders -> SaneFrame]
    BY <1>0, <1>2, <2>1, <2>2 DEF SendHeader, TypeOK, Sane
  <2>5. cur' \in [Senders -> Frame]
    BY <2>4, SaneFacts
  <2>6. count' \in [Senders -> Nat] /\ pc' \in [Senders -> {"idle", "payload"}]
    BY <1>0, <1>2 DEF SendHeader, TypeOK
  <2>7. /\ send_buf' \in Seq(SaneByte) /\ send_buf' \in Seq(Byte)
        /\ unconsumed \in 0 .. Len(send_buf')
    BY <1>1, <2>3
  <2>. QED
    BY <1>0, <1>2, <2>4, <2>5, <2>6, <2>7
    DEF SendHeader, TypeInv, TypeOK, Sane, parsing, fault
<1>3. CASE SendPing(t)
  <2> DEFINE f == [type |-> "PING", sid |-> 0, lo |-> count[t], hi |-> count[t]]
  <2>0. count[t] \in Nat /\ count' \in [Senders -> Nat]
    BY <1>0, <1>3 DEF SendPing, TypeOK
  <2>1. f \in SaneFrame
    BY <2>0 DEF SaneFrame, Frame
  <2>2. send_buf' = send_buf \o Header(f) /\ Header(f) \in Seq(SaneByte)
    BY <1>3, <2>1, HeaderType DEF SendPing
  <2>3. /\ send_buf' \in Seq(SaneByte) /\ send_buf' \in Seq(Byte)
        /\ unconsumed \in 0 .. Len(send_buf')
    BY <1>1, <2>2
  <2>. QED
    BY <1>0, <1>3, <2>0, <2>3
    DEF SendPing, TypeInv, TypeOK, Sane, parsing, fault
<1>4. CASE SendPayload(t)
  <2>1. cur[t] \in SaneFrame /\ hdr_length(cur[t]) \in Nat
    BY <1>0, SaneFacts DEF Sane
  <2>2. /\ send_buf' = send_buf \o Payload(cur[t], hdr_length(cur[t]))
        /\ Payload(cur[t], hdr_length(cur[t])) \in Seq(SaneByte)
    BY <1>4, <2>1, PayloadType DEF SendPayload
  <2>. QED
    BY <1>0, <1>1, <1>4, <2>2
    DEF SendPayload, TypeInv, TypeOK, Sane, parsing, fault
<1>5. CASE SendPayloadFail(t)
  <2>1. cur[t] \in SaneFrame /\ hdr_length(cur[t]) \in Nat
    BY <1>0, SaneFacts DEF Sane
  <2>2. PICK k \in 0 .. hdr_length(cur[t]) - 1 :
          send_buf' = send_buf \o Payload(cur[t], k)
    BY <1>5 DEF SendPayloadFail
  <2>3. Payload(cur[t], k) \in Seq(SaneByte)
    BY <2>1, PayloadType
  <2>. QED
    BY <1>0, <1>1, <1>5, <2>2, <2>3
    DEF SendPayloadFail, Fails, TypeInv, TypeOK, Sane, parsing
<1>6. CASE SendHeaderFail(t)
  BY <1>0, <1>6 DEF SendHeaderFail, Fails, TypeInv, TypeOK, Sane, sending, parsing
<1>. QED
  BY <1>2, <1>3, <1>4, <1>5, <1>6 DEF Begin

\* The loops move bytes and make none.
LEMMA LoopType ==
  ASSUME TypeInv, SendLoop \/ SendLoopConsume \/ RecvLoop \/ RecvLoopFail
  PROVE  TypeInv'
<1>0. TypeOK /\ Sane /\ Len(send_buf) \in Nat /\ Len(wire) \in Nat
  BY DEF TypeInv, Sane
<1>1. CASE SendLoop
  <2> DEFINE n == Least(Chunk, Len(send_buf))
             q == SubSeq(send_buf, 1, n)
  <2>0. n \in Nat /\ n <= Len(send_buf)
    BY <1>0, SizeFacts DEF Least
  <2>1. q \in Seq(SaneByte) /\ Len(q) = n
    <3> HIDE DEF n
    <3>. QED
      BY <1>0, <2>0, PieceType DEF Sane
  <2>2. PICK r \in 1 .. Len(q) : wire' = wire \o SubSeq(q, 1, r) /\ unconsumed' = r
    BY <1>1 DEF SendLoop, session_send_buf_peek
  <2> HIDE DEF q
  <2>3. SubSeq(q, 1, r) \in Seq(SaneByte)
    BY <2>0, <2>1, <2>2, PieceType
  <2>4. wire' \in Seq(SaneByte)
    BY <1>0, <2>2, <2>3, ConcatProperties DEF Sane
  <2>5. unconsumed' \in 0 .. Len(send_buf)
    BY <1>0, <2>0, <2>1, <2>2
  <2>. QED
    BY <1>0, <1>1, <2>4, <2>5, SaneFacts
    DEF SendLoop, TypeInv, TypeOK, Sane, parsing, fault
<1>2. CASE SendLoopConsume
  <2>1. send_buf' = SubSeq(send_buf, unconsumed + 1, Len(send_buf))
    BY <1>2 DEF SendLoopConsume, session_send_buf_consume
  <2>2. unconsumed \in Nat
    BY <1>0 DEF TypeOK
  <2>3. send_buf' \in Seq(SaneByte)
    BY <1>0, <2>1, <2>2, PieceType DEF Sane
  <2>4. unconsumed' \in 0 .. Len(send_buf')
    BY <1>2, <2>3 DEF SendLoopConsume
  <2>. QED
    BY <1>0, <1>2, <2>3, <2>4, SaneFacts
    DEF SendLoopConsume, TypeInv, TypeOK, Sane, parsing, fault
<1>3. CASE RecvLoop
  <2>1. PICK r \in 1 .. Len(wire) : /\ recv_buf' = recv_buf \o SubSeq(wire, 1, r)
                                    /\ wire' = SubSeq(wire, r + 1, Len(wire))
    BY <1>3 DEF RecvLoop
  <2>2. SubSeq(wire, 1, r) \in Seq(SaneByte) /\ wire' \in Seq(SaneByte)
    BY <1>0, <2>1, PieceType DEF Sane
  <2>3. recv_buf' \in Seq(SaneByte)
    BY <1>0, <2>1, <2>2, ConcatProperties DEF Sane
  <2>. QED
    BY <1>0, <1>3, <2>2, <2>3, SaneFacts
    DEF RecvLoop, TypeInv, TypeOK, Sane, sending, parsing, fault
<1>4. CASE RecvLoopFail
  BY <1>0, <1>4
  DEF RecvLoopFail, Fails, TypeInv, TypeOK, Sane, sending, parsing
<1>. QED
  BY <1>1, <1>2, <1>3, <1>4

\* session_process takes bytes from the front; frame_remain never goes below zero.
LEMMA ProcessType ==
  ASSUME TypeInv, Process \/ DeliverFail \/ HandlePingFail
  PROVE  TypeInv'
<1>0. TypeOK /\ Sane /\ Len(recv_buf) \in Nat
  BY DEF TypeInv, Sane
<1>1. ASSUME NEW n \in Nat PROVE SubSeq(recv_buf, n + 1, Len(recv_buf)) \in Seq(SaneByte)
  BY <1>0, PieceType DEF Sane
<1>2. CASE ReadHdr
  <2> DEFINE n == Least(HdrSize, Len(recv_buf))
             bytes == SubSeq(recv_buf, 1, n)
  <2>1. n \in Nat /\ n <= Len(recv_buf)
    BY <1>0, SizeFacts DEF Least
  <2>2. bytes \in Seq(SaneByte)
    <3> HIDE DEF n
    <3>. QED
      BY <1>0, <2>1, PieceType DEF Sane
  <2>3. /\ hdr' = IF IsHeader(bytes) THEN bytes[1].frame ELSE hdr
        /\ recv_buf' = SubSeq(recv_buf, HdrSize + 1, Len(recv_buf))
        /\ rx' \in {"handle", "desync"}
    BY <1>2 DEF ReadHdr
  <2> HIDE DEF bytes
  <2>4. IsHeader(bytes) => bytes[1] \in SaneByte
    BY <2>2 DEF IsHeader
  <2>5. hdr' \in SaneFrame
    BY <1>0, <2>3, <2>4, SaneFacts DEF Sane
  <2>6. recv_buf' \in Seq(SaneByte)
    BY <1>1, <2>3, SizeFacts
  <2>. QED
    BY <1>0, <1>2, <2>3, <2>5, <2>6, SaneFacts
    DEF ReadHdr, TypeInv, TypeOK, Sane, sending, fault
<1>3. CASE Deliver
  <2>1. /\ Taken(size) \in Nat /\ Taken(size) <= frame_remain
        /\ Taken(size) <= Len(recv_buf)
    BY <1>0, SizeFacts DEF Taken, size, Least, TypeOK
  <2>2. PICK r \in Nat : r = Taken(size) /\ r <= frame_remain /\ r <= Len(recv_buf)
    BY <2>1
  <2>3. /\ got' = [got EXCEPT ![hdr.sid] = @ \o SubSeq(recv_buf, 1, r)]
        /\ recv_buf' = SubSeq(recv_buf, r + 1, Len(recv_buf))
        /\ frame_remain' = frame_remain - r /\ rx = "payload"
    <3>1. Least(r, Len(recv_buf)) = r
      BY <1>0, <2>2 DEF Least
    <3>. QED
      BY <1>3, <2>2, <3>1 DEF Deliver, AppendToStream
  <2>4. SubSeq(recv_buf, 1, r) \in Seq(Byte)
    BY <1>0, <2>2, PieceType, SaneFacts DEF Sane
  <2>5. got' \in [Known -> Seq(Byte)]
    BY <1>0, <2>3, <2>4, ConcatProperties DEF TypeOK
  <2>6. frame_remain' \in Nat
    BY <1>0, <2>2, <2>3 DEF TypeOK
  <2>. QED
    BY <1>0, <1>1, <1>3, <2>3, <2>5, <2>6, SaneFacts
    DEF Deliver, TypeInv, TypeOK, Sane, sending, fault
<1>4. CASE Skip
  <2>1. size \in Nat /\ size <= frame_remain
    BY <1>0, SizeFacts DEF size, Least, TypeOK
  <2>2. recv_buf' \in Seq(SaneByte)
    BY <1>1, <1>4, <2>1 DEF Skip
  <2>3. frame_remain' \in Nat
    BY <1>0, <1>4, <2>1 DEF Skip, TypeOK
  <2>. QED
    BY <1>0, <1>4, <2>2, <2>3, SaneFacts
    DEF Skip, TypeInv, TypeOK, Sane, sending, fault
<1>5. CASE HandleData
  <2>1. hdr_length(hdr) \in Nat
    BY <1>0, SaneFacts DEF Sane
  <2>. QED
    BY <1>0, <1>5, <2>1
    DEF HandleData, TypeInv, TypeOK, Sane, sending, fault
<1>6. CASE ProcessReturn
  BY <1>0, <1>6 DEF ProcessReturn, TypeInv, TypeOK, Sane, sending, parsing, fault
<1>7. CASE ResumeFrame
  BY <1>0, <1>7
  DEF ResumeFrame, TypeInv, TypeOK, Sane, sending, parsing, fault
<1>8. CASE EndData
  BY <1>0, <1>8 DEF EndData, TypeInv, TypeOK, Sane, sending, fault
<1>9. CASE HandlePing
  <2>1. hdr.lo \in Nat
    BY <1>0, SaneFacts DEF Sane
  <2>2. pongs' \in Seq(Nat)
    BY <1>0, <1>9, <2>1, AppendProperties DEF HandlePing, TypeOK
  <2>. QED
    BY <1>0, <1>9, <2>2 DEF HandlePing, TypeInv, TypeOK, Sane, sending, fault
<1>10. CASE HandlePingFail
  BY <1>0, <1>10 DEF HandlePingFail, Fails, TypeInv, TypeOK, Sane, sending, parsing
<1>11. CASE DeliverFail
  <2>0. Least(Taken(size), Len(recv_buf)) \in Nat
        /\ Least(Taken(size), Len(recv_buf)) <= Len(recv_buf)
    BY <1>0, SizeFacts DEF Taken, size, Least, TypeOK
  <2>1. PICK r \in Nat : r = Least(Taken(size), Len(recv_buf)) /\ r <= Len(recv_buf)
    BY <2>0
  <2>2. SubSeq(recv_buf, 1, r) \in Seq(Byte)
    BY <1>0, <2>1, PieceType, SaneFacts DEF Sane
  <2>3. got' = got \/ got' = [got EXCEPT ![hdr.sid] = @ \o SubSeq(recv_buf, 1, r)]
    BY <1>11, <2>1 DEF DeliverFail, AppendToStream
  <2>4. got' \in [Known -> Seq(Byte)]
    <3>1. got \in [Known -> Seq(Byte)] /\ hdr.sid \in Known
      BY <1>0, <1>11 DEF TypeOK, DeliverFail
    <3>2. got[hdr.sid] \o SubSeq(recv_buf, 1, r) \in Seq(Byte)
      BY <2>2, <3>1, ConcatProperties
    <3>. QED
      BY <2>3, <3>1, <3>2
  <2>. QED
    BY <1>0, <1>11, <2>4 DEF DeliverFail, Fails, TypeInv, TypeOK, Sane, sending
<1>. QED
  BY <1>2, <1>3, <1>4, <1>5, <1>6, <1>7, <1>8, <1>9, <1>10, <1>11 DEF Process

\* Every step keeps the types.
LEMMA NextType == TypeInv /\ [Next]_vars => TypeInv'
<1> SUFFICES ASSUME TypeInv, [Next]_vars PROVE TypeInv'
  OBVIOUS
<1>1. CASE UNCHANGED vars
  BY <1>1 DEF vars, sending, parsing, fault, TypeInv, TypeOK, Sane
<1>2. CASE Next
  BY <1>2, SenderType, LoopType, ProcessType DEF Next, Fail
<1>. QED
  BY <1>1, <1>2

\* Whatever the senders do, whatever is missing and whatever fails, every byte
\* in a buffer is a byte of a frame, and frame_remain does not wrap below zero
\* (mux.c:806, :841).
THEOREM TypeCorrect == Spec => []TypeOK
<1>1. TypeInv => TypeOK
  BY DEF TypeInv
<1>. QED
  BY <1>1, InitType, NextType, PTL DEF Spec

-----------------------------------------------------------------------------
(* The trail: the byte the receiver took last, and every byte behind it. *)

\* A frame as senders build it.
Legal(f) ==
  /\ f \in Frame /\ f.lo <= f.hi
  /\ f.type = "PING" => f.lo = f.hi
  /\ f.type = "DATA" => f.sid \in Sids /\ f.hi - f.lo \in Sizes[f.sid]

\* The bytes of a frame, counted from the first of its header.
Total(f) == HdrSize + hdr_length(f)
ByteAt(f, o) ==
  IF o <= HdrSize THEN [hdr |-> TRUE, frame |-> f, i |-> o]
                  ELSE [hdr |-> FALSE, frame |-> f, i |-> f.lo + (o - HdrSize)]
Off(b) == IF b.hdr THEN b.i ELSE HdrSize + (b.i - b.frame.lo)

\* A byte that stands where it belongs in a legal frame.
Whole(b) ==
  /\ b \in Byte /\ Legal(b.frame)
  /\ Off(b) \in 1 .. Total(b.frame) /\ b = ByteAt(b.frame, Off(b))

\* From any byte on, the rest of its frame follows, then another frame.
Framed(q) ==
  /\ \A k \in 1 .. Len(q) : Whole(q[k])
  /\ \A k \in 1 .. Len(q) : \A m \in 0 .. Len(q) - k :
       Off(q[k]) + m <= Total(q[k].frame) =>
         q[k + m] = ByteAt(q[k].frame, Off(q[k]) + m)
  /\ \A k \in 1 .. Len(q) - 1 :
       Off(q[k]) = Total(q[k].frame) => Off(q[k + 1]) = 1

\* The last byte that session_process has taken.
LastTaken == ByteAt(hdr, IF rx = "handle" THEN HdrSize ELSE Total(hdr) - frame_remain)
Unsent == SubSeq(send_buf, unconsumed + 1, Len(send_buf))
Trail == << LastTaken >> \o ((recv_buf \o wire) \o Unsent)

\* What a sender has to queue next.
Continues(q, t) ==
  /\ pc[t] = "idle" => Off(q[Len(q)]) = Total(q[Len(q)].frame)
  /\ pc[t] = "payload" => q[Len(q)] = ByteAt(cur[t], HdrSize) /\ Legal(cur[t])

\* The trail is made of whole frames, and the receiver knows where it stands.
Framing ==
  /\ Framed(Trail)
  /\ \A t \in Senders : Continues(Trail, t)
  /\ rx # "desync" /\ Legal(hdr)
  /\ frame_remain <= hdr_length(hdr)
  /\ new_frame => frame_remain = 0
  /\ rx = "handle" => new_frame

-----------------------------------------------------------------------------
(* The order of the payload of each stream, and of the PINGs. *)

PayloadOf(b, s) == ~b.hdr /\ b.frame.sid = s
StartOfPing(b) == b.hdr /\ b.i = 1 /\ b.frame.type = "PING"

\* Behind its first byte, q has payload of stream s from byte n + 1 on, in order
\* and without a gap (Ascends), up to byte top (Covers).
Ascends(q, s, n) ==
  /\ \A k \in 2 .. Len(q) : PayloadOf(q[k], s) =>
       /\ n < q[k].i
       /\ \A x \in n + 1 .. q[k].i - 1 :
            \E j \in 2 .. k - 1 : PayloadOf(q[j], s) /\ q[j].i = x
  /\ \A j, k \in 2 .. Len(q) :
       j < k /\ PayloadOf(q[j], s) /\ PayloadOf(q[k], s) => q[j].i < q[k].i
Covers(q, s, n, top) ==
  /\ \A k \in 2 .. Len(q) : PayloadOf(q[k], s) => q[k].i <= top
  /\ \A x \in n + 1 .. top : \E j \in 2 .. Len(q) : PayloadOf(q[j], s) /\ q[j].i = x

\* The numbers of the PINGs ascend.
PingsAscend(q) ==
  \A j, k \in 2 .. Len(q) :
    j < k /\ StartOfPing(q[j]) /\ StartOfPing(q[k]) => q[j].frame.lo < q[k].frame.lo

\* Each stream got a prefix of its bytes, and the trail has the rest.
Delivery ==
  /\ \A s \in Known :
       /\ \A i \in 1 .. Len(got[s]) :
            ~got[s][i].hdr /\ got[s][i].frame.sid = s /\ got[s][i].i = i
       /\ Ascends(Trail, s, Len(got[s]))
       /\ \A t \in Senders :
            Covers(Trail, s, Len(got[s]), Sent(t, s)) /\ Len(got[s]) <= Sent(t, s)
  /\ \A t \in Senders : pc[t] = "payload" =>
       cur[t].type = "DATA" /\ cur[t].hi = written[cur[t].sid]

\* PINGs answered, in work, on the trail and still to be sent, in this order.
Pings ==
  /\ PingsAscend(Trail)
  /\ \A i, j \in 1 .. Len(pongs) : i < j => pongs[i] < pongs[j]
  /\ \A k \in 2 .. Len(Trail) : StartOfPing(Trail[k]) =>
       /\ \A i \in 1 .. Len(pongs) : pongs[i] < Trail[k].frame.lo
       /\ rx = "handle" /\ hdr.type = "PING" => hdr.lo < Trail[k].frame.lo
       /\ \A t \in Senders : Trail[k].frame.lo < count[t]
  /\ rx = "handle" /\ hdr.type = "PING" =>
       /\ \A i \in 1 .. Len(pongs) : pongs[i] < hdr.lo
       /\ \A t \in Senders : hdr.lo < count[t]
  /\ \A i \in 1 .. Len(pongs) : \A t \in Senders : pongs[i] < count[t]

-----------------------------------------------------------------------------
(* Bytes and their places in a frame. *)

\* A byte is known by its frame and its place in it.
LEMMA ByteAtFacts ==
  ASSUME NEW f, Legal(f), NEW o \in 1 .. Total(f)
  PROVE  /\ Whole(ByteAt(f, o)) /\ Off(ByteAt(f, o)) = o /\ ByteAt(f, o).frame = f
         /\ o <= HdrSize => ByteAt(f, o).hdr /\ ByteAt(f, o).i = o
         /\ o > HdrSize => ~ByteAt(f, o).hdr /\ ByteAt(f, o).i = f.lo + (o - HdrSize)
         /\ ByteAt(f, o) \in SaneByte
<1>1. /\ f \in Frame /\ f.lo \in Nat /\ f.hi \in Nat /\ f.lo <= f.hi
      /\ Total(f) \in Nat /\ HdrSize \in Nat /\ HdrSize >= 1
  BY SizeFacts DEF Legal, Frame, Total, hdr_length
<1>2. /\ ByteAt(f, o).frame = f
      /\ o <= HdrSize => ByteAt(f, o).hdr /\ ByteAt(f, o).i = o
      /\ o > HdrSize => ~ByteAt(f, o).hdr /\ ByteAt(f, o).i = f.lo + (o - HdrSize)
  BY <1>1 DEF ByteAt
<1>3. Off(ByteAt(f, o)) = o
  BY <1>1, <1>2 DEF Off
<1>4. ByteAt(f, o) \in SaneByte
  BY <1>1 DEF ByteAt, SaneByte, SaneFrame
<1>. QED
  BY <1>1, <1>2, <1>3, <1>4, SaneFacts DEF Whole

\* The places in a frame, as numbers.
LEMMA LegalFacts ==
  ASSUME NEW f, Legal(f)
  PROVE  /\ f \in SaneFrame /\ Total(f) \in Nat /\ Total(f) >= HdrSize
         /\ hdr_length(f) \in Nat /\ Total(f) = HdrSize + hdr_length(f)
         /\ f.lo \in Nat /\ f.hi \in Nat /\ f.hi = f.lo + hdr_length(f)
BY SizeFacts DEF Legal, SaneFrame, Frame, Total, hdr_length

\* What is known of a byte that stands where it belongs.
LEMMA WholeFacts ==
  ASSUME NEW b, Whole(b)
  PROVE  /\ Legal(b.frame) /\ Off(b) \in Nat /\ Off(b) >= 1 /\ Off(b) <= Total(b.frame)
         /\ b = ByteAt(b.frame, Off(b)) /\ Total(b.frame) \in Nat
BY LegalFacts DEF Whole

\* The header of a frame, byte by byte.
LEMMA HeaderBytes ==
  ASSUME NEW f, Legal(f)
  PROVE  /\ Header(f) \in Seq(SaneByte) /\ Len(Header(f)) = HdrSize
         /\ \A i \in 1 .. HdrSize : Header(f)[i] = ByteAt(f, i)
<1>1. f \in SaneFrame /\ HdrSize \in Nat
  BY LegalFacts, SizeFacts
<1>2. \A i \in 1 .. HdrSize : ByteAt(f, i) = [hdr |-> TRUE, frame |-> f, i |-> i]
  BY <1>1 DEF ByteAt
<1>. QED
  BY <1>1, <1>2, HeaderType

\* The payload, as far as it was queued.
LEMMA PayloadBytes ==
  ASSUME NEW f, Legal(f), NEW n \in 0 .. hdr_length(f)
  PROVE  /\ Payload(f, n) \in Seq(SaneByte) /\ Len(Payload(f, n)) = n
         /\ \A i \in 1 .. n : Payload(f, n)[i] = ByteAt(f, HdrSize + i)
<1>1. /\ f \in SaneFrame /\ n \in Nat /\ HdrSize \in Nat
  BY LegalFacts, SizeFacts
<1>2. \A i \in 1 .. n : ByteAt(f, HdrSize + i) = [hdr |-> FALSE, frame |-> f, i |-> f.lo + i]
  <2> SUFFICES ASSUME NEW i \in 1 .. n
               PROVE  ByteAt(f, HdrSize + i) = [hdr |-> FALSE, frame |-> f, i |-> f.lo + i]
    OBVIOUS
  <2>1. ~(HdrSize + i <= HdrSize) /\ HdrSize + i - HdrSize = i
    BY <1>1
  <2>. QED
    BY <1>1, <2>1 DEF ByteAt
<1>. QED
  BY <1>1, <1>2, PayloadType

-----------------------------------------------------------------------------
(* Framed sequences: what is left, and what may be queued behind. *)

\* What is left when bytes are taken from the front is framed.
LEMMA FramedSuffix ==
  ASSUME NEW q \in Seq(SaneByte), Framed(q), NEW n \in 0 .. Len(q) - 1
  PROVE  /\ Framed(SubSeq(q, n + 1, Len(q)))
         /\ SubSeq(q, n + 1, Len(q)) \in Seq(SaneByte)
         /\ Len(SubSeq(q, n + 1, Len(q))) = Len(q) - n
         /\ \A k \in 1 .. Len(q) - n : SubSeq(q, n + 1, Len(q))[k] = q[n + k]
<1> DEFINE r == SubSeq(q, n + 1, Len(q))
<1>0. Len(q) \in Nat
  OBVIOUS
<1>1. r \in Seq(SaneByte) /\ Len(r) = Len(q) - n
  BY <1>0, PieceType
<1>2. \A k \in 1 .. Len(q) - n : r[k] = q[n + k]
  <2>1. \A k \in 1 .. Len(q) - (n + 1) + 1 : r[k] = q[(n + 1) + k - 1]
    BY <1>0, PieceType
  <2> HIDE DEF r
  <2>. QED
    BY <1>0, <2>1
<1> HIDE DEF r
<1>3. ASSUME NEW k \in 1 .. Len(r) PROVE Whole(r[k])
  <2>1. PICK j \in 1 .. Len(q) : j = n + k
    BY <1>0, <1>1
  <2>2. r[k] = q[j]
    BY <1>0, <1>1, <1>2, <2>1
  <2>. QED
    BY <2>1, <2>2 DEF Framed
<1>4. ASSUME NEW k \in 1 .. Len(r), NEW m \in 0 .. Len(r) - k,
             Off(r[k]) + m <= Total(r[k].frame)
      PROVE  r[k + m] = ByteAt(r[k].frame, Off(r[k]) + m)
  <2>1. PICK j \in 1 .. Len(q) : j = n + k
    BY <1>0, <1>1
  <2>2. r[k] = q[j] /\ r[k + m] = q[j + m] /\ m \in 0 .. Len(q) - j
    BY <1>0, <1>1, <1>2, <2>1, SMTT(20)
  <2>. QED
    BY <1>4, <2>1, <2>2 DEF Framed
<1>5. ASSUME NEW k \in 1 .. Len(r) - 1, Off(r[k]) = Total(r[k].frame)
      PROVE  Off(r[k + 1]) = 1
  <2>1. PICK j \in 1 .. Len(q) - 1 : j = n + k
    BY <1>0, <1>1
  <2>2. r[k] = q[j] /\ r[k + 1] = q[j + 1]
    BY <1>0, <1>1, <1>2, <2>1
  <2>. QED
    BY <1>5, <2>1, <2>2 DEF Framed
<1>6. Framed(r)
  BY <1>3, <1>4, <1>5 DEF Framed
<1>. QED
  BY <1>1, <1>2, <1>6 DEF r

\* x, bytes o + 1 .. of frame f, may be queued behind q: q ends with byte o of
\* that frame or, when x begins it, with the end of another.
Follows(q, f, o, x) ==
  /\ q \in Seq(SaneByte) /\ Framed(q) /\ Len(q) >= 1
  /\ Legal(f) /\ o \in Nat /\ x \in Seq(SaneByte) /\ o + Len(x) <= Total(f)
  /\ \A i \in 1 .. Len(x) : x[i] = ByteAt(f, o + i)
  /\ \/ o = 0 /\ Off(q[Len(q)]) = Total(q[Len(q)].frame)
     \/ o >= 1 /\ o <= Total(f) /\ q[Len(q)] = ByteAt(f, o)

\* r is q with x behind it, and framed.
Queued(q, x, r) ==
  /\ Framed(r) /\ r \in Seq(SaneByte) /\ Len(r) = Len(q) + Len(x)
  /\ \A k \in 1 .. Len(q) : r[k] = q[k]
  /\ \A k \in 1 .. Len(x) : r[Len(q) + k] = x[k]

\* What bytes that may follow leave is framed.
LEMMA FramedExtend ==
  ASSUME NEW q, NEW f, NEW o, NEW x, Follows(q, f, o, x)
  PROVE  Queued(q, x, q \o x)
<1> DEFINE r == q \o x
<1> USE DEF Follows
<1>0. Len(q) \in Nat /\ Len(x) \in Nat /\ Total(f) \in Nat
  BY LegalFacts
<1>1. r \in Seq(SaneByte) /\ Len(r) = Len(q) + Len(x)
  BY ConcatProperties
<1>2. /\ \A k \in 1 .. Len(q) : r[k] = q[k]
      /\ \A k \in 1 .. Len(x) : r[Len(q) + k] = x[k]
  <2>1. \A i \in 1 .. Len(q) + Len(x) :
          r[i] = IF i <= Len(q) THEN q[i] ELSE x[i - Len(q)]
    BY ConcatProperties
  <2> HIDE DEF r, Follows
  <2>. QED
    BY <1>0, <2>1, SMTT(20)
<1> HIDE DEF r
<1>3. \A k \in 1 .. Len(x) : /\ r[Len(q) + k] = ByteAt(f, o + k) /\ Whole(ByteAt(f, o + k))
                             /\ Off(ByteAt(f, o + k)) = o + k
                             /\ ByteAt(f, o + k).frame = f
  <2>1. \A k \in 1 .. Len(x) : o + k \in 1 .. Total(f)
    BY <1>0
  <2>. QED
    BY <1>2, <2>1, ByteAtFacts
<1>4. ASSUME NEW k \in 1 .. Len(r) PROVE k \in 1 .. Len(q) \/ \E j \in 1 .. Len(x) : k = Len(q) + j
  <2>1. CASE k > Len(q)
    <3>1. k - Len(q) \in 1 .. Len(x) /\ k = Len(q) + (k - Len(q))
      BY <1>0, <1>1, <2>1
    <3>. QED
      BY <3>1
  <2>. QED
    BY <1>0, <1>1, <2>1
<1>5. \A k \in 1 .. Len(r) : Whole(r[k])
  BY <1>2, <1>3, <1>4 DEF Framed
<1>6. ASSUME NEW k \in 1 .. Len(r), NEW m \in 0 .. Len(r) - k,
             Off(r[k]) + m <= Total(r[k].frame)
      PROVE  r[k + m] = ByteAt(r[k].frame, Off(r[k]) + m)
  <2>1. CASE k + m <= Len(q)
    <3>1. k \in 1 .. Len(q) /\ m \in 0 .. Len(q) - k /\ r[k] = q[k] /\ r[k + m] = q[k + m]
      BY <1>0, <1>1, <1>2, <2>1
    <3>. QED
      BY <1>6, <3>1 DEF Framed
  <2>2. CASE k <= Len(q) /\ k + m > Len(q)
    <3>1. PICK d \in 0 .. Len(q) - k : k + d = Len(q)
      <4>1. Len(q) - k \in 0 .. Len(q) - k /\ k + (Len(q) - k) = Len(q)
        BY <1>0, <2>2
      <4>. QED
        BY <4>1
    <3>2. PICK j \in 1 .. Len(x) : k + m = Len(q) + j /\ m = d + j
      <4>1. m - d \in 1 .. Len(x)
        BY <1>0, <1>1, <2>2, <3>1
      <4>. QED
        BY <1>0, <3>1, <4>1
    <3>3. r[k] = q[k] /\ Whole(q[k]) /\ k \in 1 .. Len(q)
      BY <1>0, <1>2, <2>2 DEF Framed
    <3>4. Off(q[k]) \in Nat /\ Off(q[k]) >= 1 /\ Legal(q[k].frame) /\ Total(q[k].frame) \in Nat
      BY <3>3, WholeFacts
    <3>5. q[Len(q)] = ByteAt(q[k].frame, Off(q[k]) + d)
      <4>1. Off(q[k]) + d <= Total(q[k].frame)
        BY <1>6, <3>2, <3>3, <3>4, SMTT(20)
      <4>. QED
        BY <3>1, <3>3, <4>1 DEF Framed
    <3>6. /\ Off(q[Len(q)]) = Off(q[k]) + d /\ q[Len(q)].frame = q[k].frame
          /\ Off(q[k]) + d < Total(q[k].frame)
      <4>0. d \in Nat /\ j \in Nat /\ j >= 1 /\ m = d + j
        BY <1>0, <3>1, <3>2
      <4>1. Off(q[k]) + d < Total(q[k].frame)
        <5>1. Off(q[k]) + m <= Total(q[k].frame)
          BY <1>6, <3>3
        <5> DEFINE a == Off(q[k])
                   b == Total(q[k].frame)
        <5>2. a \in Nat /\ b \in Nat /\ a + m <= b
          BY <3>4, <5>1
        <5> HIDE DEF a, b
        <5>3. a + d < b
          BY <4>0, <5>2
        <5>. QED
          BY <5>3 DEF a, b
      <4>2. Off(q[k]) + d \in 1 .. Total(q[k].frame)
        BY <3>4, <4>1, SMTT(20)
      <4>. QED
        BY <3>4, <3>5, <4>1, <4>2, ByteAtFacts, SMTT(20)
    <3>7. o >= 1 /\ o <= Total(f) /\ q[Len(q)] = ByteAt(f, o)
      BY <3>4, <3>6
    <3>8. f = q[k].frame /\ o = Off(q[k]) + d
      BY <3>6, <3>7, ByteAtFacts, <1>0
    <3>9. r[k + m] = ByteAt(f, o + j)
      BY <1>3, <3>2
    <3>. QED
      BY <3>2, <3>3, <3>4, <3>8, <3>9
  <2>3. CASE k > Len(q)
    <3>1. PICK j \in 1 .. Len(x) : k = Len(q) + j
      <4>1. k \in 1 .. Len(r) /\ k \notin 1 .. Len(q)
        BY <1>0, <1>1, <2>3
      <4>. QED
        BY <1>4, <4>1
    <3>2. PICK i \in 1 .. Len(x) : i = j + m /\ k + m = Len(q) + i
      <4>1. j \in Nat /\ j >= 1 /\ m \in Nat /\ k + m <= Len(q) + Len(x)
        BY <1>0, <1>1, <3>1
      <4>2. j + m \in 1 .. Len(x) /\ k + m = Len(q) + (j + m)
        BY <1>0, <3>1, <4>1
      <4>. QED
        BY <4>2
    <3>3. /\ r[k + m] = ByteAt(f, o + i) /\ Off(r[k]) = o + j /\ r[k].frame = f
      BY <1>3, <3>1, <3>2
    <3>. QED
      BY <1>0, <3>2, <3>3
  <2>. QED
    BY <1>0, <1>1, <2>1, <2>2, <2>3
<1>7. ASSUME NEW k \in 1 .. Len(r) - 1, Off(r[k]) = Total(r[k].frame)
      PROVE  Off(r[k + 1]) = 1
  <2>1. CASE k < Len(q)
    <3>1. k \in 1 .. Len(q) - 1 /\ k \in 1 .. Len(q) /\ k + 1 \in 1 .. Len(q)
      <4>1. k \in Nat /\ k >= 1
        BY <1>0, <1>1
      <4>. QED
        BY <1>0, <2>1, <4>1
    <3>2. r[k] = q[k] /\ r[k + 1] = q[k + 1]
      BY <1>2, <3>1
    <3>. QED
      BY <1>7, <3>1, <3>2 DEF Framed
  <2>2. CASE k = Len(q)
    <3>1. 1 \in 1 .. Len(x) /\ r[k] = q[Len(q)]
      BY <1>0, <1>1, <1>2, <2>2
    <3>2. r[k + 1] = ByteAt(f, o + 1) /\ Off(ByteAt(f, o + 1)) = o + 1
      BY <1>3, <2>2, <3>1
    <3>3. o = 0
      <4>1. SUFFICES ASSUME o >= 1, o <= Total(f), q[Len(q)] = ByteAt(f, o) PROVE FALSE
        OBVIOUS
      <4>2. Off(q[Len(q)]) = o /\ q[Len(q)].frame = f
        BY <4>1, <1>0, ByteAtFacts
      <4>. QED
        BY <1>0, <1>7, <3>1, <4>2
    <3>. QED
      BY <3>2, <3>3
  <2>3. CASE k > Len(q)
    <3>1. PICK j \in 1 .. Len(x) : k = Len(q) + j
      <4>1. k \in 1 .. Len(r) /\ k \notin 1 .. Len(q)
        BY <1>0, <1>1, <2>3
      <4>. QED
        BY <1>4, <4>1
    <3>2. Off(r[k]) = o + j /\ r[k].frame = f
      BY <1>3, <3>1
    <3>. QED
      BY <1>0, <1>1, <1>7, <3>1, <3>2
  <2>. QED
    BY <1>0, <2>1, <2>2, <2>3
<1>8. Framed(r)
  BY <1>5, <1>6, <1>7 DEF Framed
<1>. QED
  BY <1>1, <1>2, <1>8 DEF r, Queued

-----------------------------------------------------------------------------
(* The order of payload and PINGs as a sequence grows and shrinks. *)

\* r is q with x behind it; r is q without its first d bytes.
Extends(q, x, r) ==
  /\ q \in Seq(SaneByte) /\ x \in Seq(SaneByte) /\ r \in Seq(SaneByte)
  /\ Len(q) >= 1 /\ Len(r) = Len(q) + Len(x)
  /\ \A k \in 1 .. Len(q) : r[k] = q[k]
  /\ \A k \in 1 .. Len(x) : r[Len(q) + k] = x[k]
Drops(q, d, r) ==
  /\ q \in Seq(SaneByte) /\ r \in Seq(SaneByte) /\ d \in 0 .. Len(q) - 1
  /\ Len(r) = Len(q) - d
  /\ \A k \in 1 .. Len(q) - d : r[k] = q[d + k]

\* A byte of r stands in q or in x.
LEMMA ExtendsCases ==
  ASSUME NEW q, NEW x, NEW r, Extends(q, x, r), NEW k \in 2 .. Len(r)
  PROVE  \/ k \in 2 .. Len(q) /\ r[k] = q[k]
         \/ \E j \in 1 .. Len(x) : k = Len(q) + j /\ r[k] = x[j]
<1>0. Len(q) \in Nat /\ Len(x) \in Nat /\ Len(r) = Len(q) + Len(x)
  BY DEF Extends
<1>1. CASE k <= Len(q)
  <2>1. k \in 1 .. Len(q) /\ k \in 2 .. Len(q)
    BY <1>0, <1>1
  <2>. QED
    BY <2>1 DEF Extends
<1>2. CASE k > Len(q)
  <2>1. k - Len(q) \in 1 .. Len(x) /\ k = Len(q) + (k - Len(q))
    BY <1>0, <1>2
  <2>. QED
    BY <2>1 DEF Extends
<1>. QED
  BY <1>0, <1>1, <1>2

\* The numbers of bytes.
LEMMA SeqBytes ==
  ASSUME NEW q \in Seq(SaneByte)
  PROVE  /\ Len(q) \in Nat
         /\ \A k \in 1 .. Len(q) : q[k].i \in Nat /\ q[k].frame.lo \in Nat
<1>1. \A k \in 1 .. Len(q) : q[k] \in SaneByte
  OBVIOUS
<1>2. \A b \in SaneByte : b.i \in Nat /\ b.frame \in SaneFrame
  BY DEF SaneByte
<1>. QED
  BY <1>1, <1>2, SaneFacts

\* Bytes that are not payload of s leave the order of its payload alone.
LEMMA OrderExtendOther ==
  ASSUME NEW q, NEW x, NEW r, Extends(q, x, r), NEW s, NEW n \in Nat,
         \A k \in 1 .. Len(x) : ~PayloadOf(x[k], s), Ascends(q, s, n)
  PROVE  /\ Ascends(r, s, n)
         /\ \A top : Covers(q, s, n, top) => Covers(r, s, n, top)
<1>0. /\ Len(q) \in Nat /\ Len(x) \in Nat /\ Len(r) = Len(q) + Len(x)
      /\ \A k \in 2 .. Len(q) : k \in 2 .. Len(r) /\ r[k] = q[k]
  BY DEF Extends
<1>1. \A k \in 2 .. Len(r) : PayloadOf(r[k], s) => k \in 2 .. Len(q) /\ r[k] = q[k]
  BY ExtendsCases
<1>2. ASSUME NEW k \in 2 .. Len(r), PayloadOf(r[k], s)
      PROVE  /\ n < r[k].i
             /\ \A y \in n + 1 .. r[k].i - 1 :
                  \E j \in 2 .. k - 1 : PayloadOf(r[j], s) /\ r[j].i = y
  <2>1. k \in 2 .. Len(q) /\ r[k] = q[k] /\ \A j \in 2 .. k - 1 : r[j] = q[j]
    BY <1>0, <1>1, <1>2
  <2>. QED
    BY <1>2, <2>1 DEF Ascends
<1>3. ASSUME NEW j \in 2 .. Len(r), NEW k \in 2 .. Len(r), j < k,
             PayloadOf(r[j], s), PayloadOf(r[k], s)
      PROVE  r[j].i < r[k].i
  BY <1>1, <1>3 DEF Ascends
<1>4. Ascends(r, s, n)
  BY <1>2, <1>3 DEF Ascends
<1>5. ASSUME NEW top, Covers(q, s, n, top) PROVE Covers(r, s, n, top)
  BY <1>0, <1>1, <1>5 DEF Covers
<1>. QED
  BY <1>4, <1>5

\* The next bytes of s go behind those that are there.
LEMMA OrderExtend ==
  ASSUME NEW q, NEW x, NEW r, Extends(q, x, r), NEW s, NEW n \in Nat, NEW top \in Nat,
         n <= top, Ascends(q, s, n), Covers(q, s, n, top),
         \A k \in 1 .. Len(x) : PayloadOf(x[k], s) /\ x[k].i = top + k
  PROVE  Ascends(r, s, n) /\ Covers(r, s, n, top + Len(x))
<1>0. /\ Len(q) \in Nat /\ Len(x) \in Nat /\ Len(r) = Len(q) + Len(x) /\ Len(q) >= 1
      /\ \A k \in 2 .. Len(q) : k \in 2 .. Len(r) /\ r[k] = q[k]
  BY DEF Extends
<1>1. \A k \in 1 .. Len(x) : /\ r[Len(q) + k] = x[k] /\ PayloadOf(r[Len(q) + k], s)
                             /\ r[Len(q) + k].i = top + k
  BY DEF Extends
<1>2. \A k \in 1 .. Len(q) : q[k].i \in Nat
  BY SeqBytes DEF Extends
<1>3. ASSUME NEW k \in 2 .. Len(r), PayloadOf(r[k], s)
      PROVE  /\ n < r[k].i /\ r[k].i <= top + Len(x)
             /\ \A y \in n + 1 .. r[k].i - 1 :
                  \E j \in 2 .. k - 1 : PayloadOf(r[j], s) /\ r[j].i = y
  <2> DEFINE Goal == /\ n < r[k].i /\ r[k].i <= top + Len(x)
                     /\ \A y \in n + 1 .. r[k].i - 1 :
                          \E j \in 2 .. k - 1 : PayloadOf(r[j], s) /\ r[j].i = y
  <2>0. \/ k \in 2 .. Len(q) /\ r[k] = q[k]
        \/ \E j \in 1 .. Len(x) : k = Len(q) + j /\ r[k] = x[j]
    BY ExtendsCases
  <2>1. ASSUME k \in 2 .. Len(q), r[k] = q[k] PROVE Goal
    <3>1. /\ r[k] = q[k] /\ \A j \in 2 .. k - 1 : r[j] = q[j]
          /\ q[k].i \in Nat
      BY <1>0, <1>2, <2>1
    <3>2. q[k].i <= top + Len(x)
      BY <1>0, <1>3, <2>1, <3>1, SMTT(20) DEF Covers
    <3>3. n < q[k].i
      BY <1>3, <2>1, <3>1 DEF Ascends
    <3>4. \A y \in n + 1 .. q[k].i - 1 :
            \E j \in 2 .. k - 1 : PayloadOf(q[j], s) /\ q[j].i = y
      BY <1>3, <2>1, <3>1 DEF Ascends
    <3>. QED
      BY <3>1, <3>2, <3>3, <3>4
  <2>2. ASSUME NEW m \in 1 .. Len(x), k = Len(q) + m PROVE Goal
    <3>1. r[k].i = top + m
      BY <1>1, <2>2
    <3>2. ASSUME NEW y \in n + 1 .. r[k].i - 1
          PROVE  \E j \in 2 .. k - 1 : PayloadOf(r[j], s) /\ r[j].i = y
      <4>1. CASE y <= top
        <5>1. PICK j \in 2 .. Len(q) : PayloadOf(q[j], s) /\ q[j].i = y
          BY <3>1, <3>2, <4>1 DEF Covers
        <5>2. j \in 2 .. k - 1 /\ r[j] = q[j]
          BY <1>0, <2>2, <5>1
        <5>. QED
          BY <5>1, <5>2
      <4>2. CASE y > top
        <5>1. y - top \in 1 .. Len(x) /\ top + (y - top) = y
          BY <1>0, <2>2, <3>1, <3>2, <4>2
        <5>2. Len(q) + (y - top) \in 2 .. k - 1
          BY <1>0, <2>2, <3>1, <3>2, <4>2, <5>1
        <5>. QED
          BY <1>1, <5>1, <5>2
      <4>. QED
        BY <3>1, <3>2, <4>1, <4>2
    <3>3. n < r[k].i /\ r[k].i <= top + Len(x)
      BY <1>0, <2>2, <3>1
    <3>. QED
      BY <3>2, <3>3
  <2> HIDE DEF Goal
  <2>3. Goal
    BY <2>0, <2>1, <2>2
  <2>. QED
    BY <2>3 DEF Goal
<1>4. ASSUME NEW j \in 2 .. Len(r), NEW k \in 2 .. Len(r), j < k,
             PayloadOf(r[j], s), PayloadOf(r[k], s)
      PROVE  r[j].i < r[k].i
  <2>1. CASE k \in 2 .. Len(q) /\ r[k] = q[k]
    <3>1. j \in 2 .. Len(q) /\ r[j] = q[j]
      BY <1>0, <1>4, <2>1
    <3>. QED
      BY <1>4, <2>1, <3>1 DEF Ascends
  <2>2. ASSUME NEW m \in 1 .. Len(x), k = Len(q) + m PROVE r[j].i < r[k].i
    <3>0. r[k].i = top + m
      BY <1>1, <2>2
    <3>1. CASE j \in 2 .. Len(q) /\ r[j] = q[j]
      <4>1. q[j].i <= top /\ q[j].i \in Nat
        BY <1>0, <1>2, <1>4, <3>1 DEF Covers
      <4>. QED
        BY <3>0, <3>1, <4>1
    <3>2. ASSUME NEW i \in 1 .. Len(x), j = Len(q) + i PROVE r[j].i < r[k].i
      <4>1. r[j].i = top + i /\ i < m
        BY <1>0, <1>1, <1>4, <2>2, <3>2
      <4>. QED
        BY <3>0, <4>1
    <3>. QED
      BY <3>1, <3>2, ExtendsCases
  <2>. QED
    BY <2>1, <2>2, ExtendsCases
<1>5. ASSUME NEW y \in n + 1 .. top + Len(x)
      PROVE  \E j \in 2 .. Len(r) : PayloadOf(r[j], s) /\ r[j].i = y
  <2>1. CASE y <= top
    <3>1. PICK j \in 2 .. Len(q) : PayloadOf(q[j], s) /\ q[j].i = y
      BY <2>1 DEF Covers
    <3>. QED
      BY <1>0, <3>1
  <2>2. CASE y > top
    <3>1. y - top \in 1 .. Len(x) /\ top + (y - top) = y
      BY <1>0, <2>2
    <3>2. Len(q) + (y - top) \in 2 .. Len(r)
      BY <1>0, <3>1
    <3>. QED
      BY <1>1, <3>1, <3>2
  <2>. QED
    BY <1>0, <2>1, <2>2
<1>. QED
  BY <1>3, <1>4, <1>5 DEF Ascends, Covers

\* Taking bytes that are not payload of s leaves the order of its payload alone;
\* taking the next bytes of s leaves those behind them.
LEMMA OrderDrop ==
  ASSUME NEW q, NEW d, NEW r, Drops(q, d, r), NEW s, NEW n \in Nat, NEW m \in Nat,
         Ascends(q, s, n),
         \/ m = n /\ \A k \in 2 .. d + 1 : ~PayloadOf(q[k], s)
         \/ m = n + d /\ \A k \in 2 .. d + 1 : PayloadOf(q[k], s) /\ q[k].i = n + k - 1
  PROVE  /\ Ascends(r, s, m)
         /\ \A top \in Nat : Covers(q, s, n, top) => Covers(r, s, m, top)
<1>0. /\ Len(q) \in Nat /\ d \in Nat /\ Len(r) = Len(q) - d /\ Len(r) \in Nat /\ d + 1 <= Len(q)
      /\ \A k \in 2 .. Len(r) : d + k \in 2 .. Len(q) /\ r[k] = q[d + k]
      /\ \A k \in 1 .. Len(q) : q[k].i \in Nat
  BY SeqBytes DEF Drops
<1>1. ASSUME NEW j \in 2 .. Len(q), PayloadOf(q[j], s), q[j].i > m
      PROVE  j - d \in 2 .. Len(r) /\ r[j - d] = q[j]
  <2>1. j \notin 2 .. d + 1
    BY <1>0, <1>1
  <2>2. j - d \in 2 .. Len(r) /\ d + (j - d) = j
    BY <1>0, <2>1
  <2>. QED
    BY <1>0, <2>2
<1>2. ASSUME NEW k \in 2 .. Len(r), PayloadOf(r[k], s)
      PROVE  m < r[k].i
  <2>1. d + k \in 2 .. Len(q) /\ r[k] = q[d + k] /\ n < q[d + k].i
    BY <1>0, <1>2 DEF Ascends
  <2>2. CASE m = n + d /\ \A j \in 2 .. d + 1 : PayloadOf(q[j], s) /\ q[j].i = n + j - 1
    <3>1. CASE d = 0
      BY <2>1, <2>2, <3>1
    <3>2. CASE d # 0
      <4>1. d + 1 \in 2 .. d + 1 /\ d + 1 \in 2 .. Len(q) /\ d + 1 < d + k
        BY <1>0, <3>2
      <4>2. PayloadOf(q[d + 1], s) /\ q[d + 1].i = n + d
        BY <1>0, <2>2, <4>1, SMTT(20)
      <4>. QED
        BY <1>2, <2>1, <2>2, <4>1, <4>2 DEF Ascends
    <3>. QED
      BY <3>1, <3>2
  <2>. QED
    BY <2>1, <2>2
<1>3. ASSUME NEW k \in 2 .. Len(r), PayloadOf(r[k], s), NEW y \in m + 1 .. r[k].i - 1
      PROVE  \E j \in 2 .. k - 1 : PayloadOf(r[j], s) /\ r[j].i = y
  <2>1. d + k \in 2 .. Len(q) /\ r[k] = q[d + k] /\ r[k].i \in Nat
    BY <1>0
  <2>2. y \in n + 1 .. q[d + k].i - 1 /\ y > m
    BY <1>0, <2>1
  <2>3. PICK j \in 2 .. (d + k) - 1 : PayloadOf(q[j], s) /\ q[j].i = y
    BY <1>3, <2>1, <2>2 DEF Ascends
  <2>4. j - d \in 2 .. Len(r) /\ r[j - d] = q[j]
    BY <1>0, <1>1, <2>1, <2>2, <2>3, SMTT(20)
  <2>5. j - d \in 2 .. k - 1
    BY <1>0, <2>3, <2>4, SMTT(20)
  <2>. QED
    BY <2>3, <2>4, <2>5
<1>4. ASSUME NEW j \in 2 .. Len(r), NEW k \in 2 .. Len(r), j < k,
             PayloadOf(r[j], s), PayloadOf(r[k], s)
      PROVE  r[j].i < r[k].i
  <2>1. d + j < d + k /\ d + j \in 2 .. Len(q) /\ d + k \in 2 .. Len(q)
    BY <1>0, <1>4
  <2>. QED
    BY <1>0, <1>4, <2>1 DEF Ascends
<1>5. ASSUME NEW top \in Nat, Covers(q, s, n, top) PROVE Covers(r, s, m, top)
  <2>1. ASSUME NEW k \in 2 .. Len(r), PayloadOf(r[k], s) PROVE r[k].i <= top
    BY <1>0, <1>5, <2>1 DEF Covers
  <2>2. ASSUME NEW y \in m + 1 .. top
        PROVE  \E j \in 2 .. Len(r) : PayloadOf(r[j], s) /\ r[j].i = y
    <3>1. y \in n + 1 .. top /\ y > m
      BY <1>0
    <3>2. PICK j \in 2 .. Len(q) : PayloadOf(q[j], s) /\ q[j].i = y
      BY <1>5, <3>1 DEF Covers
    <3>3. j - d \in 2 .. Len(r) /\ r[j - d] = q[j]
      BY <1>1, <3>1, <3>2
    <3>. QED
      BY <3>2, <3>3
  <2>. QED
    BY <2>1, <2>2 DEF Covers
<1>. QED
  BY <1>2, <1>3, <1>4, <1>5 DEF Ascends

\* PINGs stay in the order of their numbers.
LEMMA PingsExtend ==
  ASSUME NEW q, NEW x, NEW r, Extends(q, x, r), PingsAscend(q),
         \A k \in 1 .. Len(x) : StartOfPing(x[k]) =>
           /\ k = 1
           /\ \A j \in 2 .. Len(q) : StartOfPing(q[j]) => q[j].frame.lo < x[k].frame.lo
  PROVE  PingsAscend(r)
<1> SUFFICES ASSUME NEW j \in 2 .. Len(r), NEW k \in 2 .. Len(r), j < k,
                    StartOfPing(r[j]), StartOfPing(r[k])
             PROVE  r[j].frame.lo < r[k].frame.lo
  BY DEF PingsAscend
<1>0. Len(q) \in Nat /\ Len(x) \in Nat
  BY DEF Extends
<1>1. CASE k \in 2 .. Len(q) /\ r[k] = q[k]
  <2>1. j \in 2 .. Len(q)
    BY <1>0, <1>1
  <2>2. r[j] = q[j]
    BY <1>0, <2>1 DEF Extends
  <2>. QED
    BY <1>1, <2>1, <2>2 DEF PingsAscend
<1>2. ASSUME NEW i \in 1 .. Len(x), k = Len(q) + i, r[k] = x[i]
      PROVE  r[j].frame.lo < r[k].frame.lo
  <2>1. i = 1
    BY <1>2
  <2>2. j \in 2 .. Len(q)
    BY <1>0, <1>2, <2>1
  <2>3. r[j] = q[j]
    BY <1>0, <2>2 DEF Extends
  <2>. QED
    BY <1>2, <2>2, <2>3
<1>3. \/ k \in 2 .. Len(q) /\ r[k] = q[k]
      \/ \E i \in 1 .. Len(x) : k = Len(q) + i /\ r[k] = x[i]
  BY ExtendsCases
<1>. QED
  BY <1>1, <1>2, <1>3

\* Bytes leave at the front: the PINGs behind them still ascend.
LEMMA PingsDrop ==
  ASSUME NEW q, NEW d, NEW r, Drops(q, d, r), PingsAscend(q)
  PROVE  PingsAscend(r)
<1>0. Len(q) \in Nat /\ d \in Nat /\ Len(r) = Len(q) - d
  BY DEF Drops
<1>1. \A k \in 2 .. Len(r) : d + k \in 2 .. Len(q) /\ r[k] = q[d + k]
  BY <1>0 DEF Drops
<1>2. ASSUME NEW j \in 2 .. Len(r), NEW k \in 2 .. Len(r), j < k PROVE d + j < d + k
  BY <1>0, <1>2
<1>3. ASSUME NEW j \in 2 .. Len(r), NEW k \in 2 .. Len(r),
             StartOfPing(r[j]), StartOfPing(r[k]), j < k
      PROVE  r[j].frame.lo < r[k].frame.lo
  <2>1. PICK u \in 2 .. Len(q), v \in 2 .. Len(q) : u = d + j /\ v = d + k
    BY <1>1
  <2>2. r[j] = q[u] /\ r[k] = q[v] /\ u < v
    BY <1>1, <1>2, <1>3, <2>1
  <2>. QED
    BY <1>3, <2>2 DEF PingsAscend
<1>. QED
  BY <1>3 DEF PingsAscend

-----------------------------------------------------------------------------
(* The trail under the steps of the loops. *)

\* Concatenation of sequences of bytes.
LEMMA Cat ==
  ASSUME NEW a \in Seq(SaneByte), NEW b \in Seq(SaneByte)
  PROVE  /\ a \o b \in Seq(SaneByte) /\ Len(a \o b) = Len(a) + Len(b)
         /\ \A i \in 1 .. Len(a) + Len(b) :
              (a \o b)[i] = IF i <= Len(a) THEN a[i] ELSE b[i - Len(a)]
BY ConcatProperties

\* Concatenation under a name, for the steps that need only that it is associative.
Glue(a, b) == a \o b

\* It does not matter which two of three are joined first.
LEMMA CatAssociative ==
  ASSUME NEW a \in Seq(SaneByte), NEW b \in Seq(SaneByte), NEW c \in Seq(SaneByte)
  PROVE  Glue(Glue(a, b), c) = Glue(a, Glue(b, c))
<1>1. \A S : \A x, y, z \in Seq(S) : Glue(Glue(x, y), z) = Glue(x, Glue(y, z))
  BY ConcatAssociative, SMTT(40) DEF Glue
<1>. QED
  BY <1>1

\* A sequence is its two pieces, joined.
LEMMA CatPieces ==
  ASSUME NEW a \in Seq(SaneByte), NEW k \in 0 .. Len(a)
  PROVE  SubSeq(a, 1, k) \o SubSeq(a, k + 1, Len(a)) = a
<1>1. 1 \in 1 .. Len(a) + 1 /\ k \in 1 - 1 .. Len(a) /\ Len(a) \in k .. Len(a)
  OBVIOUS
<1>2. SubSeq(a, 1, k) \o SubSeq(a, k + 1, Len(a)) = SubSeq(a, 1, Len(a))
  BY <1>1, ConcatAdjacentSubSeq
<1>3. SubSeq(a, 1, Len(a)) = a
  BY SubSeqFull
<1>. QED
  BY <1>2, <1>3, Zenon

\* The bytes behind the one taken last: received, on the wire, and queued.
Join(r, w, s, u) == (r \o w) \o SubSeq(s, u + 1, Len(s))

\* The bytes of the receive buffer come first.
LEMMA JoinFacts ==
  ASSUME NEW r \in Seq(SaneByte), NEW w \in Seq(SaneByte), NEW s \in Seq(SaneByte),
         NEW u \in 0 .. Len(s)
  PROVE  /\ Join(r, w, s, u) \in Seq(SaneByte) /\ Len(Join(r, w, s, u)) \in Nat
         /\ Len(Join(r, w, s, u)) = Len(r) + Len(w) + (Len(s) - u)
         /\ \A i \in 1 .. Len(r) : Join(r, w, s, u)[i] = r[i]
<1> DEFINE a == r \o w
           b == SubSeq(s, u + 1, Len(s))
<1>0. Len(s) \in Nat /\ Len(r) \in Nat /\ Len(w) \in Nat
  OBVIOUS
<1>1. /\ a \in Seq(SaneByte) /\ Len(a) = Len(r) + Len(w)
      /\ \A i \in 1 .. Len(r) + Len(w) : a[i] = IF i <= Len(r) THEN r[i] ELSE w[i - Len(r)]
  BY Cat
<1>2. b \in Seq(SaneByte) /\ Len(b) = Len(s) - u
  BY <1>0, PieceType
<1> HIDE DEF a, b
<1>3. /\ a \o b \in Seq(SaneByte) /\ Len(a \o b) = Len(a) + Len(b)
      /\ \A i \in 1 .. Len(a) + Len(b) : (a \o b)[i] = IF i <= Len(a) THEN a[i] ELSE b[i - Len(a)]
  BY <1>1, <1>2, Cat
<1>4. Join(r, w, s, u) = a \o b
  BY DEF Join, a, b
<1>5. \A i \in 1 .. Len(r) : (a \o b)[i] = r[i]
  <2> SUFFICES ASSUME NEW i \in 1 .. Len(r) PROVE (a \o b)[i] = r[i]
    OBVIOUS
  <2>1. i \in 1 .. Len(a) + Len(b) /\ i <= Len(a) /\ i \in 1 .. Len(r) + Len(w) /\ i <= Len(r)
    BY <1>0, <1>1, <1>2
  <2>. QED
    BY <1>1, <1>3, <2>1
<1>. QED
  BY <1>0, <1>1, <1>2, <1>3, <1>4, <1>5

\* A piece that reaches to the end grows with the sequence.
LEMMA PieceOfCat ==
  ASSUME NEW s \in Seq(SaneByte), NEW u \in 0 .. Len(s), NEW x \in Seq(SaneByte)
  PROVE  /\ SubSeq(s \o x, u + 1, Len(s \o x)) = SubSeq(s, u + 1, Len(s)) \o x
         /\ SubSeq(s, u + 1, Len(s)) \in Seq(SaneByte)
<1>y. PICK y : y = s \o x
  OBVIOUS
<1> DEFINE b == SubSeq(s, u + 1, Len(s))
           c == SubSeq(y, u + 1, Len(y))
<1>0. /\ Len(s) \in Nat /\ Len(x) \in Nat /\ Len(y) \in Nat /\ u \in Nat
      /\ y \in Seq(SaneByte) /\ Len(y) = Len(s) + Len(x)
  BY <1>y, Cat
<1>00. \A i \in 1 .. Len(y) : y[i] = IF i <= Len(s) THEN s[i] ELSE x[i - Len(s)]
  BY <1>0, <1>y, Cat
<1>1. /\ b \in Seq(SaneByte) /\ Len(b) = Len(s) - u
      /\ \A i \in 1 .. Len(s) - (u + 1) + 1 : b[i] = s[(u + 1) + i - 1]
  BY <1>0, PieceType
<1>2. /\ c \in Seq(SaneByte) /\ Len(c) = Len(y) - u
      /\ \A i \in 1 .. Len(y) - (u + 1) + 1 : c[i] = y[(u + 1) + i - 1]
  BY <1>0, PieceType
<1> HIDE DEF b, c
<1>3. /\ b \o x \in Seq(SaneByte) /\ Len(b \o x) = Len(b) + Len(x)
      /\ \A i \in 1 .. Len(b) + Len(x) : (b \o x)[i] = IF i <= Len(b) THEN b[i] ELSE x[i - Len(b)]
  BY <1>1, Cat
<1>4. ASSUME NEW i \in 1 .. Len(c) PROVE c[i] = (b \o x)[i]
  <2>0. i \in 1 .. Len(y) - (u + 1) + 1 /\ (u + 1) + i - 1 = u + i
        /\ u + i \in 1 .. Len(y) /\ i \in 1 .. Len(b) + Len(x)
    BY <1>0, <1>1, <1>2
  <2>1. c[i] = y[u + i]
    BY <1>2, <2>0
  <2>2. CASE u + i <= Len(s)
    <3>1. i \in 1 .. Len(s) - (u + 1) + 1 /\ i <= Len(b)
      BY <1>0, <1>1, <1>2, <2>2
    <3>2. b[i] = s[u + i] /\ (b \o x)[i] = b[i]
      BY <1>1, <1>3, <2>0, <3>1
    <3>. QED
      BY <1>00, <2>0, <2>1, <2>2, <3>2
  <2>3. CASE ~(u + i <= Len(s))
    <3>1. ~(i <= Len(b)) /\ i - Len(b) = (u + i) - Len(s)
      BY <1>0, <1>1, <1>2, <2>3
    <3>2. (b \o x)[i] = x[(u + i) - Len(s)]
      BY <1>3, <2>0, <3>1
    <3>3. y[u + i] = x[(u + i) - Len(s)]
      BY <1>00, <2>0, <2>3
    <3>. QED
      BY <2>1, <3>2, <3>3
  <2>. QED
    BY <2>2, <2>3
<1>5. Len(c) = Len(b \o x)
  BY <1>0, <1>1, <1>2, <1>3
<1>6. c = b \o x
  <2>1. PICK z \in Seq(SaneByte) : z = b \o x
    BY <1>3
  <2>2. Len(c) = Len(z) /\ \A i \in 1 .. Len(c) : c[i] = z[i]
    BY <1>4, <1>5, <2>1
  <2>3. c = z
    BY <1>2, <2>2, SeqEqual
  <2>. QED
    BY <2>1, <2>3
<1>. QED
  BY <1>1, <1>6, <1>y DEF b, c

\* What is queued goes to the end.
LEMMA JoinExtend ==
  ASSUME NEW r \in Seq(SaneByte), NEW w \in Seq(SaneByte), NEW s \in Seq(SaneByte),
         NEW u \in 0 .. Len(s), NEW x \in Seq(SaneByte)
  PROVE  Join(r, w, s \o x, u) = Join(r, w, s, u) \o x
<1>1. /\ SubSeq(s \o x, u + 1, Len(s \o x)) = SubSeq(s, u + 1, Len(s)) \o x
      /\ SubSeq(s, u + 1, Len(s)) \in Seq(SaneByte)
  BY PieceOfCat
<1>3. PICK b \in Seq(SaneByte) : b = SubSeq(s, u + 1, Len(s))
  BY <1>1
<1>4. PICK a \in Seq(SaneByte) : a = r \o w
  BY Cat
<1>5. a \o (b \o x) = (a \o b) \o x
  <2>1. Glue(a, Glue(b, x)) = Glue(Glue(a, b), x)
    BY CatAssociative
  <2>. QED
    BY <2>1, Zenon DEF Glue
<1>. QED
  BY <1>1, <1>3, <1>4, <1>5 DEF Join

\* send_loop writes: the bytes are on the wire, and in the buffer to be consumed.
LEMMA JoinSend ==
  ASSUME NEW r \in Seq(SaneByte), NEW w \in Seq(SaneByte), NEW s \in Seq(SaneByte),
         NEW k \in 0 .. Len(s)
  PROVE  Join(r, w \o SubSeq(s, 1, k), s, k) = Join(r, w, s, 0)
<1> DEFINE a == SubSeq(s, 1, k)
           b == SubSeq(s, k + 1, Len(s))
<1>0. Len(s) \in Nat
  OBVIOUS
<1>1. a \in Seq(SaneByte) /\ b \in Seq(SaneByte)
  BY <1>0, PieceType
<1>2. a \o b = SubSeq(s, 1, Len(s))
  BY CatPieces, SubSeqFull
<1> HIDE DEF a, b
<1>3. (r \o (w \o a)) \o b = (r \o w) \o (a \o b)
  <2>1. Glue(w, a) \in Seq(SaneByte) /\ Glue(a, b) \in Seq(SaneByte)
    BY <1>1, Cat DEF Glue
  <2>2. Glue(Glue(r, Glue(w, a)), b) = Glue(Glue(r, w), Glue(a, b))
    BY <1>1, <2>1, CatAssociative
  <2>. QED
    BY <2>2, Zenon DEF Glue
<1>4. 0 + 1 = 1
  OBVIOUS
<1>. QED
  BY <1>2, <1>3, <1>4 DEF Join, a, b

\* send_loop consumes what it has written.
LEMMA JoinConsume ==
  ASSUME NEW r \in Seq(SaneByte), NEW w \in Seq(SaneByte), NEW s \in Seq(SaneByte),
         NEW u \in 0 .. Len(s)
  PROVE  Join(r, w, SubSeq(s, u + 1, Len(s)), 0) = Join(r, w, s, u)
<1> DEFINE b == SubSeq(s, u + 1, Len(s))
<1>1. b \in Seq(SaneByte)
  BY PieceType
<1>2. SubSeq(b, 0 + 1, Len(b)) = b
  BY <1>1, SubSeqFull
<1>. QED
  BY <1>2, Zenon DEF Join

\* recv_loop moves bytes from the wire to the receive buffer.
LEMMA JoinRecv ==
  ASSUME NEW r \in Seq(SaneByte), NEW w \in Seq(SaneByte), NEW s, NEW u,
         NEW k \in 0 .. Len(w)
  PROVE  Join(r \o SubSeq(w, 1, k), SubSeq(w, k + 1, Len(w)), s, u) = Join(r, w, s, u)
<1> DEFINE a == SubSeq(w, 1, k)
           b == SubSeq(w, k + 1, Len(w))
<1>0. Len(w) \in Nat
  OBVIOUS
<1>1. a \in Seq(SaneByte) /\ b \in Seq(SaneByte)
  BY <1>0, PieceType
<1>2. a \o b = SubSeq(w, 1, Len(w)) /\ SubSeq(w, 1, Len(w)) = w
  BY CatPieces, SubSeqFull
<1> HIDE DEF a, b
<1>3. (r \o a) \o b = r \o (a \o b)
  <2>1. Glue(Glue(r, a), b) = Glue(r, Glue(a, b))
    BY <1>1, CatAssociative
  <2>. QED
    BY <2>1, Zenon DEF Glue
<1>. QED
  BY <1>2, <1>3, Zenon DEF Join, a, b

\* session_process takes bytes from the receive buffer: the trail is shorter.
LEMMA JoinDrop ==
  ASSUME NEW r \in Seq(SaneByte), NEW w \in Seq(SaneByte), NEW s \in Seq(SaneByte),
         NEW u \in 0 .. Len(s), NEW k \in 0 .. Len(r)
  PROVE  /\ Len(Join(SubSeq(r, k + 1, Len(r)), w, s, u)) = Len(Join(r, w, s, u)) - k
         /\ \A i \in 1 .. Len(Join(r, w, s, u)) - k :
              Join(SubSeq(r, k + 1, Len(r)), w, s, u)[i] = Join(r, w, s, u)[k + i]
<1> DEFINE a == r \o w
           b == SubSeq(s, u + 1, Len(s))
           d == SubSeq(r, k + 1, Len(r))
           c == d \o w
<1>0. Len(s) \in Nat /\ Len(r) \in Nat /\ Len(w) \in Nat
  OBVIOUS
<1>1. /\ a \in Seq(SaneByte) /\ Len(a) = Len(r) + Len(w)
      /\ \A i \in 1 .. Len(r) + Len(w) : a[i] = IF i <= Len(r) THEN r[i] ELSE w[i - Len(r)]
  BY Cat
<1>2. b \in Seq(SaneByte) /\ Len(b) = Len(s) - u
  BY <1>0, PieceType
<1>3. /\ d \in Seq(SaneByte) /\ Len(d) = Len(r) - k
      /\ \A i \in 1 .. Len(r) - (k + 1) + 1 : d[i] = r[(k + 1) + i - 1]
  BY <1>0, PieceType, SMTT(20)
<1> HIDE DEF d
<1>4. /\ c \in Seq(SaneByte) /\ Len(c) = Len(d) + Len(w)
      /\ \A i \in 1 .. Len(d) + Len(w) : c[i] = IF i <= Len(d) THEN d[i] ELSE w[i - Len(d)]
  BY <1>3, Cat
<1> HIDE DEF a, b, c
<1>5. /\ a \o b \in Seq(SaneByte) /\ Len(a \o b) = Len(a) + Len(b)
      /\ \A i \in 1 .. Len(a) + Len(b) : (a \o b)[i] = IF i <= Len(a) THEN a[i] ELSE b[i - Len(a)]
  BY <1>1, <1>2, Cat
<1>6. /\ c \o b \in Seq(SaneByte) /\ Len(c \o b) = Len(c) + Len(b)
      /\ \A i \in 1 .. Len(c) + Len(b) : (c \o b)[i] = IF i <= Len(c) THEN c[i] ELSE b[i - Len(c)]
  BY <1>2, <1>4, Cat
<1>7. Len(c) = Len(a) - k /\ Len(c \o b) = Len(a \o b) - k
  BY <1>0, <1>1, <1>2, <1>3, <1>4, <1>5, <1>6
<1>8. ASSUME NEW i \in 1 .. Len(a) - k PROVE c[i] = a[k + i]
  <2>1. i \in 1 .. Len(d) + Len(w) /\ k + i \in 1 .. Len(r) + Len(w)
    BY <1>0, <1>1, <1>3
  <2>2. CASE i <= Len(d)
    <3>1. i \in 1 .. Len(r) - (k + 1) + 1 /\ (k + 1) + i - 1 = k + i /\ k + i <= Len(r)
      BY <1>0, <1>3, <2>2
    <3>. QED
      BY <1>1, <1>3, <1>4, <2>1, <2>2, <3>1
  <2>3. CASE ~(i <= Len(d))
    <3>1. i - Len(d) = (k + i) - Len(r) /\ ~(k + i <= Len(r))
      BY <1>0, <1>3, <2>3
    <3>. QED
      BY <1>1, <1>4, <2>1, <2>3, <3>1
  <2>. QED
    BY <2>2, <2>3
<1>9. ASSUME NEW i \in 1 .. Len(a \o b) - k PROVE (c \o b)[i] = (a \o b)[k + i]
  <2>1. i \in 1 .. Len(c) + Len(b) /\ k + i \in 1 .. Len(a) + Len(b)
    BY <1>0, <1>1, <1>2, <1>5, <1>6, <1>7
  <2>2. CASE i <= Len(c)
    <3>1. i \in 1 .. Len(a) - k /\ k + i <= Len(a)
      BY <1>0, <1>1, <1>7, <2>2
    <3>. QED
      BY <1>5, <1>6, <1>8, <2>1, <2>2, <3>1
  <2>3. CASE ~(i <= Len(c))
    <3>1. i - Len(c) = (k + i) - Len(a) /\ ~(k + i <= Len(a))
      BY <1>0, <1>1, <1>7, <2>3
    <3>. QED
      BY <1>5, <1>6, <2>1, <2>3, <3>1
  <2>. QED
    BY <2>2, <2>3
<1>10. Join(r, w, s, u) = a \o b /\ Join(SubSeq(r, k + 1, Len(r)), w, s, u) = c \o b
  BY DEF Join, a, b, c, d
<1>. QED
  BY <1>7, <1>9, <1>10

\* The trail is the byte taken last and the others behind it.
LEMMA ConsFacts ==
  ASSUME NEW l \in SaneByte, NEW j \in Seq(SaneByte)
  PROVE  /\ << l >> \o j \in Seq(SaneByte) /\ Len(<< l >> \o j) = Len(j) + 1
         /\ (<< l >> \o j)[1] = l
         /\ \A i \in 1 .. Len(j) : (<< l >> \o j)[i + 1] = j[i]
<1>1. << l >> \in Seq(SaneByte) /\ Len(<< l >>) = 1 /\ << l >>[1] = l /\ Len(j) \in Nat
  OBVIOUS
<1>2. /\ << l >> \o j \in Seq(SaneByte) /\ Len(<< l >> \o j) = Len(<< l >>) + Len(j)
      /\ \A i \in 1 .. Len(<< l >>) + Len(j) :
           (<< l >> \o j)[i] = IF i <= Len(<< l >>) THEN << l >>[i] ELSE j[i - Len(<< l >>)]
  BY <1>1, Cat
<1>3. \A i \in 1 .. Len(j) : /\ i + 1 \in 1 .. Len(<< l >>) + Len(j)
                             /\ ~(i + 1 <= Len(<< l >>)) /\ i + 1 - Len(<< l >>) = i
  BY <1>1
<1>4. 1 \in 1 .. Len(<< l >>) + Len(j) /\ 1 <= Len(<< l >>)
  BY <1>1
<1>. QED
  BY <1>1, <1>2, <1>3, <1>4

-----------------------------------------------------------------------------
(* The trail in a state. *)

\* One thread queues the frames of the session, and what is sent to a stream
\* that the receiver does not have fits into one byte: outside of these the
\* code does tear frames apart (runs torn_frames and missing_stream).
OneSender == \A t, u \in Senders : t = u
MissingFits == \A s \in Sids \ Known : Sizes[s] \subseteq {0, 1}

\* What holds of the trail while no frame is torn and the receiver reads on.
Intact == TypeInv /\ Framing /\ Delivery /\ Pings

\* The inductive invariant.
IInv == TypeInv /\ InOrder /\ (~torn /\ rx # "dead" => Intact)

\* What the receiver has to know of its place in a frame.
Placed == Legal(hdr) /\ frame_remain <= hdr_length(hdr)
Place == IF rx = "handle" THEN HdrSize ELSE Total(hdr) - frame_remain

\* The trail begins with the byte taken last and the receive buffer.
LEMMA TrailFacts ==
  ASSUME TypeInv, Placed
  PROVE  /\ LastTaken = ByteAt(hdr, Place) /\ Place \in 1 .. Total(hdr) /\ Place >= HdrSize
         /\ LastTaken.frame = hdr /\ Off(LastTaken) = Place
         /\ Trail \in Seq(SaneByte) /\ Trail[1] = LastTaken
         /\ Len(Trail) \in Nat /\ Len(Trail) >= 1 + Len(recv_buf) /\ Len(recv_buf) \in Nat
         /\ \A i \in 1 .. Len(recv_buf) : Trail[i + 1] = recv_buf[i]
<1> DEFINE j == Join(recv_buf, wire, send_buf, unconsumed)
<1>0. /\ recv_buf \in Seq(SaneByte) /\ wire \in Seq(SaneByte) /\ send_buf \in Seq(SaneByte)
      /\ unconsumed \in 0 .. Len(send_buf) /\ frame_remain \in Nat /\ Legal(hdr)
      /\ frame_remain <= hdr_length(hdr) /\ Len(recv_buf) \in Nat
      /\ Len(wire) \in Nat /\ Len(send_buf) \in Nat
  BY DEF TypeInv, TypeOK, Sane, Placed
<1>1. Place \in 1 .. Total(hdr) /\ Place >= HdrSize
  BY <1>0, LegalFacts, SizeFacts DEF Place
<1>2. LastTaken = ByteAt(hdr, Place)
  BY DEF LastTaken, Place
<1>3. LastTaken.frame = hdr /\ Off(LastTaken) = Place /\ LastTaken \in SaneByte
  BY <1>0, <1>1, <1>2, ByteAtFacts
<1>4. /\ j \in Seq(SaneByte) /\ Len(j) \in Nat /\ Len(j) >= Len(recv_buf)
      /\ \A i \in 1 .. Len(recv_buf) : j[i] = recv_buf[i]
  <2>1. /\ j \in Seq(SaneByte) /\ Len(j) \in Nat
        /\ Len(j) = Len(recv_buf) + Len(wire) + (Len(send_buf) - unconsumed)
        /\ \A i \in 1 .. Len(recv_buf) : j[i] = recv_buf[i]
    BY <1>0, JoinFacts
  <2> HIDE DEF j
  <2>. QED
    BY <1>0, <2>1
<1>5. Trail = << LastTaken >> \o j
  BY DEF Trail, Unsent, Join
<1> HIDE DEF j
<1>6. /\ Trail \in Seq(SaneByte) /\ Len(Trail) = Len(j) + 1 /\ Trail[1] = LastTaken
      /\ \A i \in 1 .. Len(j) : Trail[i + 1] = j[i]
  BY <1>3, <1>4, <1>5, ConsFacts
<1>7. \A i \in 1 .. Len(recv_buf) : Trail[i + 1] = recv_buf[i]
  BY <1>0, <1>4, <1>6, SMTT(20)
<1>. QED
  BY <1>0, <1>1, <1>2, <1>3, <1>4, <1>6, <1>7

\* session_process takes d bytes: the trail loses its first d.
LEMMA TrailDrops ==
  ASSUME TypeInv, Placed, TypeInv', Placed', NEW d \in 0 .. Len(recv_buf),
         recv_buf' = SubSeq(recv_buf, d + 1, Len(recv_buf)),
         UNCHANGED <<wire, send_buf, unconsumed>>, LastTaken' = Trail[d + 1]
  PROVE  Drops(Trail, d, Trail')
<1>0. /\ recv_buf \in Seq(SaneByte) /\ wire \in Seq(SaneByte) /\ send_buf \in Seq(SaneByte)
      /\ unconsumed \in 0 .. Len(send_buf) /\ Len(recv_buf) \in Nat
  BY DEF TypeInv, TypeOK, Sane
<1>1. PICK j : j = Join(recv_buf, wire, send_buf, unconsumed)
  OBVIOUS
<1>2. PICK k : k = Join(SubSeq(recv_buf, d + 1, Len(recv_buf)), wire, send_buf, unconsumed)
  OBVIOUS
<1>3. Len(k) = Len(j) - d /\ \A i \in 1 .. Len(j) - d : k[i] = j[d + i]
  BY <1>0, <1>1, <1>2, JoinDrop
<1>4. j \in Seq(SaneByte) /\ Len(j) \in Nat /\ Len(j) >= Len(recv_buf)
  <2>1. /\ j \in Seq(SaneByte) /\ Len(j) \in Nat
        /\ Len(j) = Len(recv_buf) + Len(wire) + (Len(send_buf) - unconsumed)
    BY <1>0, <1>1, JoinFacts
  <2>2. Len(wire) \in Nat /\ Len(send_buf) \in Nat
    BY <1>0
  <2>. QED
    BY <1>0, <2>1, <2>2
<1>5. k \in Seq(SaneByte)
  <2>1. SubSeq(recv_buf, d + 1, Len(recv_buf)) \in Seq(SaneByte)
    BY <1>0, PieceType
  <2>. QED
    BY <1>0, <1>2, <2>1, JoinFacts
<1>6. PICK l \in SaneByte : l = LastTaken
  <2>1. LastTaken = ByteAt(hdr, Place) /\ Place \in 1 .. Total(hdr) /\ Legal(hdr)
    BY TrailFacts DEF Placed
  <2>. QED
    BY <2>1, ByteAtFacts
<1>7. PICK m \in SaneByte : m = LastTaken'
  <2>1. (LastTaken = ByteAt(hdr, Place) /\ Place \in 1 .. Total(hdr) /\ Legal(hdr))'
    <3>1. LastTaken' = ByteAt(hdr, Place)' /\ Legal(hdr')
      BY DEF LastTaken, Place, Placed
    <3>2. Place' \in 1 .. Total(hdr')
      <4>1. frame_remain' \in Nat /\ frame_remain' <= hdr_length(hdr')
        BY DEF TypeInv, TypeOK, Placed
      <4>. QED
        BY <3>1, <4>1, LegalFacts, SizeFacts DEF Place
    <3>. QED
      BY <3>1, <3>2
  <2>. QED
    BY <2>1, ByteAtFacts
<1>8. PICK q : q = << l >> \o j
  OBVIOUS
<1>9. PICK r : r = << m >> \o k
  OBVIOUS
<1>10. Trail = q /\ Trail' = r
  BY <1>1, <1>2, <1>6, <1>7, <1>8, <1>9 DEF Trail, Unsent, Join
<1>11. /\ q \in Seq(SaneByte) /\ Len(q) = Len(j) + 1 /\ q[1] = l
       /\ \A i \in 1 .. Len(j) : q[i + 1] = j[i]
  BY <1>4, <1>8, ConsFacts
<1>12. /\ r \in Seq(SaneByte) /\ Len(r) = Len(k) + 1 /\ r[1] = m
       /\ \A i \in 1 .. Len(k) : r[i + 1] = k[i]
  BY <1>5, <1>9, ConsFacts
<1>13. ASSUME NEW i \in 1 .. Len(q) - d PROVE r[i] = q[d + i]
  <2>1. CASE i = 1
    BY <1>7, <1>10, <1>12, <2>1
  <2>2. CASE i > 1
    <3>1. PICK h \in 1 .. Len(j) - d : i = h + 1
      <4>1. i - 1 \in 1 .. Len(j) - d /\ i = (i - 1) + 1
        BY <1>4, <1>11, <2>2
      <4>. QED
        BY <4>1
    <3>2. r[i] = k[h] /\ k[h] = j[d + h]
      BY <1>3, <1>12, <3>1
    <3>3. d + h \in 1 .. Len(j) /\ d + i = (d + h) + 1
      BY <1>4, <3>1
    <3>. QED
      BY <1>11, <3>2, <3>3
  <2>. QED
    BY <2>1, <2>2
<1>14. d \in 0 .. Len(q) - 1 /\ Len(r) = Len(q) - d
  BY <1>0, <1>3, <1>4, <1>11, <1>12
<1>15. Drops(q, d, r)
  BY <1>11, <1>12, <1>13, <1>14 DEF Drops
<1>. QED
  BY <1>10, <1>15

\* What a sender queues comes last.
LEMMA QueuedLast ==
  ASSUME TypeInv, NEW x \in Seq(SaneByte)
  PROVE  Join(recv_buf, wire, send_buf \o x, unconsumed)
           = Join(recv_buf, wire, send_buf, unconsumed) \o x
<1>1. /\ recv_buf \in Seq(SaneByte) /\ wire \in Seq(SaneByte) /\ send_buf \in Seq(SaneByte)
      /\ unconsumed \in 0 .. Len(send_buf)
  BY DEF TypeInv, TypeOK, Sane
<1>. QED
  BY <1>1, JoinExtend

\* A sender queues bytes that may follow: the trail grows and stays framed.
LEMMA TrailExtends ==
  ASSUME TypeInv, Framing, NEW f, Legal(f), NEW o \in Nat, NEW x \in Seq(SaneByte),
         send_buf' = send_buf \o x, UNCHANGED <<unconsumed, wire, recv_buf, rx, parsing>>,
         o + Len(x) <= Total(f), \A i \in 1 .. Len(x) : x[i] = ByteAt(f, o + i),
         \/ o = 0 /\ Off(Trail[Len(Trail)]) = Total(Trail[Len(Trail)].frame)
         \/ o >= 1 /\ o <= Total(f) /\ Trail[Len(Trail)] = ByteAt(f, o)
  PROVE  /\ Framed(Trail') /\ Extends(Trail, x, Trail')
         /\ Len(x) > 0 => Trail'[Len(Trail')] = ByteAt(f, o + Len(x))
         /\ Len(x) = 0 => Trail'[Len(Trail')] = Trail[Len(Trail)]
<1>0. /\ recv_buf \in Seq(SaneByte) /\ wire \in Seq(SaneByte) /\ send_buf \in Seq(SaneByte)
      /\ unconsumed \in 0 .. Len(send_buf)
  BY DEF TypeInv, TypeOK, Sane
<1>1. Placed /\ Framed(Trail)
  BY DEF Framing, Placed
<1>2. /\ Trail \in Seq(SaneByte) /\ Len(Trail) \in Nat /\ Len(Trail) >= 1
      /\ LastTaken = ByteAt(hdr, Place) /\ Place \in 1 .. Total(hdr) /\ Legal(hdr)
  BY <1>1, TrailFacts DEF Placed
<1>3. PICK l \in SaneByte : l = LastTaken
  BY <1>2, ByteAtFacts
<1>4. LastTaken' = l
  BY <1>3 DEF LastTaken, parsing
<1>5. PICK j \in Seq(SaneByte) : j = Join(recv_buf, wire, send_buf, unconsumed)
  BY <1>0, JoinFacts
<1>6. Join(recv_buf, wire, send_buf \o x, unconsumed) = j \o x
  BY <1>5, QueuedLast
<1>7. << l >> \in Seq(SaneByte)
  OBVIOUS
<1>8. << l >> \o (j \o x) = (<< l >> \o j) \o x
  <2>1. PICK h \in Seq(SaneByte) : h = << l >>
    BY <1>7
  <2>2. Glue(h, Glue(j, x)) = Glue(Glue(h, j), x)
    BY CatAssociative
  <2>. QED
    BY <2>1, <2>2, Zenon DEF Glue
<1>9. PICK q \in Seq(SaneByte) : q = Trail
  BY <1>2
<1>10. q = << l >> \o j
  BY <1>3, <1>5, <1>9, SMTT(20) DEF Trail, Unsent, Join
<1>11. Trail' = q \o x
  BY <1>4, <1>6, <1>8, <1>10 DEF Trail, Unsent, Join
<1>12. /\ Framed(q) /\ Len(q) >= 1
       /\ \/ o = 0 /\ Off(q[Len(q)]) = Total(q[Len(q)].frame)
          \/ o >= 1 /\ o <= Total(f) /\ q[Len(q)] = ByteAt(f, o)
  BY <1>1, <1>2, <1>9
<1>13. PICK r : r = q \o x
  OBVIOUS
<1>14. /\ Framed(r) /\ r \in Seq(SaneByte) /\ Len(r) = Len(q) + Len(x)
       /\ \A k \in 1 .. Len(q) : r[k] = q[k]
       /\ \A k \in 1 .. Len(x) : r[Len(q) + k] = x[k]
  <2>1. Follows(q, f, o, x)
    BY <1>12 DEF Follows
  <2>2. Queued(q, x, q \o x)
    BY <2>1, FramedExtend
  <2>3. Queued(q, x, r)
    BY <1>13, <2>2
  <2>. QED
    BY <2>3 DEF Queued
<1>15. Extends(q, x, r)
  BY <1>12, <1>14 DEF Extends
<1>16. Len(x) > 0 => r[Len(r)] = ByteAt(f, o + Len(x))
  <2> SUFFICES ASSUME Len(x) > 0 PROVE r[Len(r)] = ByteAt(f, o + Len(x))
    OBVIOUS
  <2>1. Len(x) \in 1 .. Len(x)
    OBVIOUS
  <2>. QED
    BY <1>14, <2>1
<1>17. Len(x) = 0 => r[Len(r)] = q[Len(q)]
  <2>1. Len(q) \in 1 .. Len(q)
    BY <1>12
  <2>. QED
    BY <1>14, <2>1
<1>. QED
  BY <1>9, <1>11, <1>13, <1>14, <1>15, <1>16, <1>17

-----------------------------------------------------------------------------
(* The senders keep the invariant. *)

\* A header without payload changes the payload of no stream.
LEMMA HeaderNotPayload ==
  ASSUME NEW f, Legal(f), NEW x, Len(x) = HdrSize, \A i \in 1 .. HdrSize : x[i] = ByteAt(f, i)
  PROVE  /\ \A s : \A k \in 1 .. Len(x) : ~PayloadOf(x[k], s)
         /\ \A k \in 1 .. Len(x) : StartOfPing(x[k]) => k = 1 /\ f.type = "PING"
         /\ \A k \in 1 .. Len(x) : x[k].frame = f
<1>1. \A k \in 1 .. Len(x) : k \in 1 .. Total(f) /\ k <= HdrSize
  BY LegalFacts, SizeFacts
<1>2. \A k \in 1 .. Len(x) : x[k].hdr /\ x[k].i = k /\ x[k].frame = f
  BY <1>1, ByteAtFacts
<1>. QED
  BY <1>2 DEF PayloadOf, StartOfPing

\* Payload bytes of a frame are payload of its stream, in their order.
LEMMA PayloadIsPayload ==
  ASSUME NEW f, Legal(f), NEW n \in 0 .. hdr_length(f), NEW x, Len(x) = n,
         \A i \in 1 .. n : x[i] = ByteAt(f, HdrSize + i)
  PROVE  /\ \A k \in 1 .. Len(x) : PayloadOf(x[k], f.sid) /\ x[k].i = f.lo + k
         /\ \A s : s # f.sid => \A k \in 1 .. Len(x) : ~PayloadOf(x[k], s)
         /\ \A k \in 1 .. Len(x) : ~StartOfPing(x[k])
<1>0. n \in Nat /\ HdrSize \in Nat /\ f.lo \in Nat
  BY LegalFacts, SizeFacts
<1>1. \A k \in 1 .. n : HdrSize + k \in 1 .. Total(f) /\ HdrSize + k > HdrSize
                        /\ (HdrSize + k) - HdrSize = k
  BY <1>0, LegalFacts, SizeFacts
<1>2. \A k \in 1 .. n : ~x[k].hdr /\ x[k].frame = f /\ x[k].i = f.lo + k
  <2> SUFFICES ASSUME NEW k \in 1 .. n PROVE ~x[k].hdr /\ x[k].frame = f /\ x[k].i = f.lo + k
    OBVIOUS
  <2>1. x[k] = ByteAt(f, HdrSize + k)
    OBVIOUS
  <2>2. PICK o \in 1 .. Total(f) : o = HdrSize + k /\ o > HdrSize /\ o - HdrSize = k
    BY <1>1
  <2>. QED
    BY <2>1, <2>2, ByteAtFacts
<1>. QED
  BY <1>2 DEF PayloadOf, StartOfPing

\* A sender numbers its PINGs with the frames it has begun.
LEMMA SenderPings ==
  ASSUME OneSender, TypeInv, Pings, NEW t \in Senders, NEW x, Extends(Trail, x, Trail'),
         UNCHANGED <<pongs, rx, hdr>>,
         count' = count \/ count' = [count EXCEPT ![t] = @ + 1],
         \A k \in 1 .. Len(x) : StartOfPing(x[k]) =>
           k = 1 /\ x[k].frame.lo = count[t] /\ count' = [count EXCEPT ![t] = @ + 1]
  PROVE  Pings'
<1>1. PICK q : q = Trail
  OBVIOUS
<1>2. PICK r : r = Trail'
  OBVIOUS
<1>3. Extends(q, x, r)
  BY <1>1, <1>2
<1>4. count[t] \in Nat /\ count'[t] \in {count[t], count[t] + 1} /\ \A u \in Senders : u = t
  BY DEF TypeInv, TypeOK, OneSender
<1>5. \A i \in 1 .. Len(pongs) : pongs[i] \in Nat
  BY DEF TypeInv, TypeOK
<1>6. hdr.lo \in Nat
  BY SaneFacts DEF TypeInv, Sane
<1>7. \A k \in 1 .. Len(q) : q[k].frame.lo \in Nat
  BY <1>3, SeqBytes DEF Extends
<1>8. Len(q) \in Nat
  BY <1>3 DEF Extends
<1>9. ASSUME NEW k \in 2 .. Len(q), StartOfPing(q[k])
      PROVE  /\ \A i \in 1 .. Len(pongs) : pongs[i] < q[k].frame.lo
             /\ rx = "handle" /\ hdr.type = "PING" => hdr.lo < q[k].frame.lo
             /\ q[k].frame.lo < count[t] /\ q[k].frame.lo < count'[t]
  <2>1. /\ \A i \in 1 .. Len(pongs) : pongs[i] < q[k].frame.lo
        /\ rx = "handle" /\ hdr.type = "PING" => hdr.lo < q[k].frame.lo
        /\ q[k].frame.lo < count[t]
    BY <1>1, <1>9 DEF Pings
  <2>. QED
    BY <1>4, <1>7, <1>8, <2>1
<1>10. PingsAscend(r)
  <2>1. \A k \in 1 .. Len(x) : StartOfPing(x[k]) =>
          /\ k = 1
          /\ \A j \in 2 .. Len(q) : StartOfPing(q[j]) => q[j].frame.lo < x[k].frame.lo
    BY <1>9
  <2>2. PingsAscend(q)
    BY <1>1 DEF Pings
  <2>. QED
    BY <1>3, <2>1, <2>2, PingsExtend
<1>11. /\ \A i, j \in 1 .. Len(pongs) : i < j => pongs[i] < pongs[j]
       /\ rx = "handle" /\ hdr.type = "PING" => \A i \in 1 .. Len(pongs) : pongs[i] < hdr.lo
  BY DEF Pings
<1>12. /\ rx = "handle" /\ hdr.type = "PING" => hdr.lo < count[t]
       /\ \A i \in 1 .. Len(pongs) : pongs[i] < count[t]
  BY DEF Pings
<1>13. /\ rx = "handle" /\ hdr.type = "PING" => hdr.lo < count'[t]
       /\ \A i \in 1 .. Len(pongs) : pongs[i] < count'[t]
  BY <1>4, <1>5, <1>6, <1>12
<1>14. ASSUME NEW k \in 2 .. Len(r), StartOfPing(r[k])
       PROVE  /\ \A i \in 1 .. Len(pongs) : pongs[i] < r[k].frame.lo
              /\ rx = "handle" /\ hdr.type = "PING" => hdr.lo < r[k].frame.lo
              /\ r[k].frame.lo < count'[t]
  <2>0. \/ k \in 2 .. Len(q) /\ r[k] = q[k]
        \/ \E j \in 1 .. Len(x) : k = Len(q) + j /\ r[k] = x[j]
    BY <1>3, ExtendsCases
  <2>1. CASE k \in 2 .. Len(q) /\ r[k] = q[k]
    BY <1>9, <1>14, <2>1
  <2>2. CASE \E j \in 1 .. Len(x) : k = Len(q) + j /\ r[k] = x[j]
    <3>1. PICK j \in 1 .. Len(x) : r[k] = x[j]
      BY <2>2
    <3>2. r[k].frame.lo = count[t] /\ count'[t] = count[t] + 1
      BY <1>14, <3>1 DEF TypeInv, TypeOK
    <3>. QED
      BY <1>4, <1>12, <3>2
  <2>. QED
    BY <2>0, <2>1, <2>2
<1>. QED
  BY <1>2, <1>4, <1>10, <1>11, <1>13, <1>14 DEF Pings

\* stream_write queues a header: its payload is what has to come next.
LEMMA SendHeaderInv ==
  ASSUME OneSender, Intact, NEW t \in Senders, NEW s \in Sids, NEW n \in Sizes[s],
         SendHeader(t, s, n), TypeInv'
  PROVE  Intact'
<1>0. TypeInv /\ TypeOK /\ Framing /\ Delivery /\ Pings
  BY DEF Intact, TypeInv
<1>1. n \in Nat /\ s \in Nat /\ written[s] \in Nat
  BY <1>0, SizeFacts DEF TypeOK
<1>2. PICK f : f = [type |-> "DATA", sid |-> s, lo |-> written[s], hi |-> written[s] + n]
  OBVIOUS
<1>3. Legal(f) /\ f.sid = s /\ f.lo = written[s] /\ f.hi = written[s] + n /\ f.type = "DATA"
  BY <1>1, <1>2 DEF Legal, Frame
<1>4. /\ pc[t] = "idle" /\ send_buf' = send_buf \o Header(f)
      /\ written' = [written EXCEPT ![s] = @ + n]
      /\ cur' = [cur EXCEPT ![t] = f] /\ pc' = [pc EXCEPT ![t] = "payload"]
      /\ count' = [count EXCEPT ![t] = @ + 1]
      /\ UNCHANGED <<unconsumed, wire, recv_buf, rx, parsing, fault>>
  BY <1>2 DEF SendHeader
<1>5. PICK x \in Seq(SaneByte) :
        x = Header(f) /\ Len(x) = HdrSize /\ \A i \in 1 .. HdrSize : x[i] = ByteAt(f, i)
  BY <1>3, HeaderBytes
<1>6. PICK q : q = Trail
  OBVIOUS
<1>7. PICK r : r = Trail'
  OBVIOUS
<1>8. Framed(r) /\ Extends(q, x, r) /\ r[Len(r)] = ByteAt(f, HdrSize)
  <2>1. 0 + Len(x) <= Total(f) /\ HdrSize > 0 /\ 0 + HdrSize = HdrSize
    BY <1>3, <1>5, LegalFacts, SizeFacts
  <2>2. \A i \in 1 .. Len(x) : x[i] = ByteAt(f, 0 + i)
    <3>1. \A i \in 1 .. HdrSize : 0 + i = i
      BY SizeFacts
    <3>. QED
      BY <1>5, <3>1
  <2>3. Off(Trail[Len(Trail)]) = Total(Trail[Len(Trail)].frame)
    BY <1>0, <1>4 DEF Framing, Continues
  <2>4. send_buf' = send_buf \o x /\ UNCHANGED <<unconsumed, wire, recv_buf, rx, parsing>>
    BY <1>4, <1>5
  <2>5. /\ Framed(Trail') /\ Extends(Trail, x, Trail')
        /\ Len(x) > 0 => Trail'[Len(Trail')] = ByteAt(f, 0 + Len(x))
    BY <1>0, <1>3, <2>1, <2>2, <2>3, <2>4, TrailExtends
  <2>. QED
    BY <1>5, <1>6, <1>7, <2>1, <2>5
<1>9. /\ \A z : \A k \in 1 .. Len(x) : ~PayloadOf(x[k], z)
      /\ \A k \in 1 .. Len(x) : ~StartOfPing(x[k])
  <2>1. /\ \A z : \A k \in 1 .. Len(x) : ~PayloadOf(x[k], z)
        /\ \A k \in 1 .. Len(x) : StartOfPing(x[k]) => k = 1 /\ f.type = "PING"
    BY <1>3, <1>5, HeaderNotPayload
  <2>. QED
    BY <1>3, <2>1
<1>10. pc'[t] = "payload" /\ cur'[t] = f /\ \A u \in Senders : u = t
  BY <1>0, <1>4 DEF OneSender, TypeOK
<1>11. Framing'
  <2>1. \A u \in Senders : Continues(Trail, u)'
    BY <1>3, <1>7, <1>8, <1>10 DEF Continues
  <2>. QED
    BY <1>0, <1>4, <1>7, <1>8, <2>1 DEF Framing, parsing
<1>12. Delivery'
  <2>1. ASSUME NEW z \in Known
        PROVE  /\ Ascends(r, z, Len(got[z])) /\ Covers(r, z, Len(got[z]), Sent(t, z)')
               /\ Len(got[z]) <= Sent(t, z)'
    <3>1. Ascends(q, z, Len(got[z])) /\ Covers(q, z, Len(got[z]), Sent(t, z))
          /\ Len(got[z]) <= Sent(t, z)
      BY <1>0, <1>4, <1>6 DEF Delivery
    <3>2. Len(got[z]) \in Nat
      BY <1>0 DEF TypeOK
    <3>3. Sent(t, z)' = Sent(t, z)
      <4>1. Sent(t, z) = written[z]
        BY <1>4 DEF Sent
      <4>2. CASE z = s
        BY <1>3, <1>10, <4>1, <4>2 DEF Sent
      <4>3. CASE z # s
        <5>1. written'[z] = written[z]
          BY <1>0, <1>4, <4>3, SizeFacts DEF TypeOK
        <5>. QED
          BY <1>3, <1>10, <4>1, <4>3, <5>1 DEF Sent
      <4>. QED
        BY <4>2, <4>3
    <3>. QED
      BY <1>8, <1>9, <3>1, <3>2, <3>3, OrderExtendOther
  <2>2. written'[s] = written[s] + n
    BY <1>0, <1>4 DEF TypeOK
  <2>. QED
    BY <1>0, <1>3, <1>4, <1>7, <1>10, <2>1, <2>2 DEF Delivery, parsing
<1>13. Pings'
  BY <1>0, <1>4, <1>6, <1>7, <1>8, <1>9, SenderPings DEF parsing
<1>. QED
  BY <1>11, <1>12, <1>13 DEF Intact

\* A frame that is only a header ends where it is queued.
LEMMA SendPingInv ==
  ASSUME OneSender, Intact, NEW t \in Senders, SendPing(t), TypeInv'
  PROVE  Intact'
<1>0. TypeInv /\ TypeOK /\ Framing /\ Delivery /\ Pings
  BY DEF Intact, TypeInv
<1>1. count[t] \in Nat
  BY <1>0 DEF TypeOK
<1>2. PICK f : f = [type |-> "PING", sid |-> 0, lo |-> count[t], hi |-> count[t]]
  OBVIOUS
<1>3. Legal(f) /\ f.lo = count[t] /\ f.type = "PING" /\ Total(f) = HdrSize
  <2>1. Legal(f) /\ f.lo = count[t] /\ f.type = "PING" /\ f.hi = count[t]
    BY <1>1, <1>2 DEF Legal, Frame
  <2>. QED
    BY <1>1, <2>1, SizeFacts DEF Total, hdr_length
<1>4. /\ pc[t] = "idle" /\ send_buf' = send_buf \o Header(f)
      /\ count' = [count EXCEPT ![t] = @ + 1]
      /\ UNCHANGED <<unconsumed, wire, recv_buf, rx, parsing, written, pc, cur, fault>>
  BY <1>2 DEF SendPing
<1>5. PICK x \in Seq(SaneByte) :
        x = Header(f) /\ Len(x) = HdrSize /\ \A i \in 1 .. HdrSize : x[i] = ByteAt(f, i)
  BY <1>3, HeaderBytes
<1>6. PICK q : q = Trail
  OBVIOUS
<1>7. PICK r : r = Trail'
  OBVIOUS
<1>8. Framed(r) /\ Extends(q, x, r) /\ r[Len(r)] = ByteAt(f, HdrSize)
  <2>1. 0 + Len(x) <= Total(f) /\ HdrSize > 0 /\ 0 + HdrSize = HdrSize
    BY <1>3, <1>5, LegalFacts, SizeFacts
  <2>2. \A i \in 1 .. Len(x) : x[i] = ByteAt(f, 0 + i)
    <3>1. \A i \in 1 .. HdrSize : 0 + i = i
      BY SizeFacts
    <3>. QED
      BY <1>5, <3>1
  <2>3. Off(Trail[Len(Trail)]) = Total(Trail[Len(Trail)].frame)
    BY <1>0, <1>4 DEF Framing, Continues
  <2>4. send_buf' = send_buf \o x /\ UNCHANGED <<unconsumed, wire, recv_buf, rx, parsing>>
    BY <1>4, <1>5
  <2>5. /\ Framed(Trail') /\ Extends(Trail, x, Trail')
        /\ Len(x) > 0 => Trail'[Len(Trail')] = ByteAt(f, 0 + Len(x))
    BY <1>0, <1>3, <2>1, <2>2, <2>3, <2>4, TrailExtends
  <2>. QED
    BY <1>5, <1>6, <1>7, <2>1, <2>5
<1>9. /\ \A z : \A k \in 1 .. Len(x) : ~PayloadOf(x[k], z)
      /\ \A k \in 1 .. Len(x) : StartOfPing(x[k]) => k = 1 /\ f.type = "PING"
      /\ \A k \in 1 .. Len(x) : x[k].frame = f
  <2>1. Len(x) = HdrSize /\ \A i \in 1 .. HdrSize : x[i] = ByteAt(f, i)
    BY <1>5
  <2>2. Legal(f)
    BY <1>3
  <2>. QED
    BY <2>1, <2>2, HeaderNotPayload
<1>10. pc'[t] = "idle" /\ \A u \in Senders : u = t
  BY <1>0, <1>4 DEF OneSender, TypeOK
<1>11. Framing'
  <2>1. Off(r[Len(r)]) = Total(r[Len(r)].frame)
    <3>1. HdrSize \in 1 .. Total(f)
      BY <1>3, SizeFacts
    <3>. QED
      BY <1>3, <1>8, <3>1, ByteAtFacts
  <2>2. \A u \in Senders : Continues(Trail, u)'
    BY <1>7, <1>10, <2>1 DEF Continues
  <2>. QED
    BY <1>0, <1>4, <1>7, <1>8, <2>2 DEF Framing, parsing
<1>12. Delivery'
  <2>1. ASSUME NEW z \in Known
        PROVE  /\ Ascends(r, z, Len(got[z])) /\ Covers(r, z, Len(got[z]), Sent(t, z))
               /\ Len(got[z]) <= Sent(t, z)
    <3>1. Ascends(q, z, Len(got[z])) /\ Covers(q, z, Len(got[z]), Sent(t, z))
          /\ Len(got[z]) <= Sent(t, z)
      BY <1>0, <1>4, <1>6 DEF Delivery
    <3>2. Len(got[z]) \in Nat
      BY <1>0 DEF TypeOK
    <3>. QED
      BY <1>8, <1>9, <3>1, <3>2, OrderExtendOther
  <2>2. \A z : Sent(t, z)' = Sent(t, z)
    BY <1>4 DEF Sent
  <2>. QED
    BY <1>0, <1>4, <1>7, <1>10, <2>1, <2>2 DEF Delivery, parsing
<1>13. Pings'
  <2>1. \A k \in 1 .. Len(x) : StartOfPing(x[k]) =>
          k = 1 /\ x[k].frame.lo = count[t] /\ count' = [count EXCEPT ![t] = @ + 1]
    BY <1>3, <1>4, <1>9
  <2>2. Extends(Trail, x, Trail') /\ UNCHANGED <<pongs, rx, hdr>>
    BY <1>4, <1>6, <1>7, <1>8 DEF parsing
  <2>. QED
    BY <1>0, <1>4, <2>1, <2>2, SenderPings
<1>. QED
  BY <1>11, <1>12, <1>13 DEF Intact

\* stream_write queues the payload.
LEMMA SendPayloadInv ==
  ASSUME OneSender, Intact, NEW t \in Senders, SendPayload(t), TypeInv'
  PROVE  Intact'
<1>0. TypeInv /\ TypeOK /\ Framing /\ Delivery /\ Pings
  BY DEF Intact, TypeInv
<1>1. PICK f : f = cur[t]
  OBVIOUS
<1>2. /\ pc[t] = "payload" /\ UNCHANGED <<unconsumed, wire, recv_buf, rx, parsing, written, cur, count>>
  BY DEF SendPayload
<1>3. /\ Legal(f) /\ Trail[Len(Trail)] = ByteAt(f, HdrSize)
      /\ f.type = "DATA" /\ f.hi = written[f.sid] /\ hdr_length(f) \in Nat
      /\ f.lo \in Nat /\ f.hi = f.lo + hdr_length(f)
  BY <1>0, <1>1, <1>2, LegalFacts DEF Framing, Continues, Delivery
<1>4. PICK n \in Nat : /\ n = hdr_length(f) /\ send_buf' = send_buf \o Payload(f, n)
                       /\ pc' = [pc EXCEPT ![t] = "idle"]
  BY <1>1, <1>3 DEF SendPayload
<1>5. PICK x \in Seq(SaneByte) :
        x = Payload(f, n) /\ Len(x) = n /\ \A i \in 1 .. n : x[i] = ByteAt(f, HdrSize + i)
  <2>1. n \in 0 .. hdr_length(f)
    BY <1>3, <1>4
  <2>. QED
    BY <1>3, <2>1, PayloadBytes
<1>6. PICK q : q = Trail
  OBVIOUS
<1>7. PICK r : r = Trail'
  OBVIOUS
<1>8. /\ Framed(r) /\ Extends(q, x, r) /\ r[Len(r)] = ByteAt(f, HdrSize + n)
  <2>1. /\ HdrSize + Len(x) <= Total(f) /\ HdrSize >= 1 /\ HdrSize <= Total(f)
        /\ HdrSize \in Nat /\ HdrSize + 0 = HdrSize /\ n \in Nat
    BY <1>3, <1>4, <1>5, LegalFacts, SizeFacts
  <2>2. send_buf' = send_buf \o x /\ UNCHANGED <<unconsumed, wire, recv_buf, rx, parsing>>
    BY <1>2, <1>4, <1>5
  <2>3. \A i \in 1 .. Len(x) : x[i] = ByteAt(f, HdrSize + i)
    BY <1>5
  <2>4. /\ Framed(Trail') /\ Extends(Trail, x, Trail')
        /\ Len(x) > 0 => Trail'[Len(Trail')] = ByteAt(f, HdrSize + Len(x))
        /\ Len(x) = 0 => Trail'[Len(Trail')] = Trail[Len(Trail)]
    BY <1>0, <1>3, <2>1, <2>2, <2>3, TrailExtends
  <2>5. n = 0 \/ n > 0
    BY <2>1
  <2>. QED
    BY <1>3, <1>5, <1>6, <1>7, <2>1, <2>4, <2>5
<1>9. /\ \A k \in 1 .. Len(x) : PayloadOf(x[k], f.sid) /\ x[k].i = f.lo + k
      /\ \A z : z # f.sid => \A k \in 1 .. Len(x) : ~PayloadOf(x[k], z)
      /\ \A k \in 1 .. Len(x) : ~StartOfPing(x[k])
  <2>1. Len(x) = n /\ \A i \in 1 .. n : x[i] = ByteAt(f, HdrSize + i)
    BY <1>5
  <2>2. Legal(f) /\ n \in 0 .. hdr_length(f)
    BY <1>3, <1>4
  <2>. QED
    BY <2>1, <2>2, PayloadIsPayload, ZenonT(30)
<1>10. (\A u \in Senders : u = t) /\ n = hdr_length(f) /\ pc'[t] = "idle"
  BY <1>0, <1>4 DEF OneSender, TypeOK
<1>11. Framing'
  <2>1. pc'[t] = "idle" => Off(r[Len(r)]) = Total(r[Len(r)].frame)
    <3>1. HdrSize + hdr_length(f) \in 1 .. Total(f) /\ HdrSize + hdr_length(f) = Total(f)
      BY <1>3, LegalFacts, SizeFacts
    <3>2. pc'[t] = "idle" => n = hdr_length(f)
      BY <1>10
    <3>. QED
      BY <1>3, <1>8, <3>1, <3>2, ByteAtFacts
  <2>2. \A u \in Senders : Continues(Trail, u)'
    BY <1>7, <1>10, <2>1 DEF Continues
  <2>. QED
    BY <1>0, <1>2, <1>7, <1>8, <2>2 DEF Framing, parsing
<1>12. Delivery'
  <2>1. ASSUME NEW z \in Known
        PROVE  /\ Ascends(r, z, Len(got[z]))
               /\ pc'[t] = "idle" => /\ Covers(r, z, Len(got[z]), written[z])
                                     /\ Len(got[z]) <= written[z]
    <3>1. Ascends(q, z, Len(got[z])) /\ Covers(q, z, Len(got[z]), Sent(t, z))
          /\ Len(got[z]) <= Sent(t, z)
      BY <1>0, <1>2, <1>6 DEF Delivery
    <3>2. Len(got[z]) \in Nat
      BY <1>0 DEF TypeOK
    <3>3. CASE z = f.sid
      <4>1. Sent(t, z) = f.lo
        BY <1>1, <1>2, <3>3 DEF Sent
      <4>2. Ascends(r, z, Len(got[z])) /\ Covers(r, z, Len(got[z]), f.lo + Len(x))
        <5>1. PICK g \in Nat : g = Len(got[z])
          BY <3>2
        <5>2. PICK lo \in Nat : lo = f.lo
          BY <1>3
        <5>3. /\ Ascends(q, z, g) /\ Covers(q, z, g, lo) /\ g <= lo /\ Extends(q, x, r)
              /\ \A k \in 1 .. Len(x) : PayloadOf(x[k], z) /\ x[k].i = lo + k
          BY <1>8, <1>9, <3>1, <3>3, <4>1, <5>1, <5>2
        <5>4. Ascends(r, z, g) /\ Covers(r, z, g, lo + Len(x))
          BY <5>3, OrderExtend
        <5>. QED
          BY <5>1, <5>2, <5>4
      <4>3. pc'[t] = "idle" => f.lo + Len(x) = written[z]
        BY <1>3, <1>5, <1>10, <3>3
      <4>4. f.lo <= f.lo + Len(x)
        BY <1>3, <1>5
      <4>5. pc'[t] = "idle" => Len(got[z]) <= written[z]
        BY <1>3, <1>5, <3>1, <3>2, <4>1, <4>3, <4>4
      <4>. QED
        BY <4>2, <4>3, <4>5
    <3>4. CASE z # f.sid
      <4>1. Sent(t, z) = written[z]
        BY <1>1, <1>2, <3>4 DEF Sent
      <4>. QED
        BY <1>8, <1>9, <3>1, <3>2, <3>4, <4>1, OrderExtendOther
    <3>. QED
      BY <3>3, <3>4
  <2>2. \A z : pc'[t] = "idle" => Sent(t, z)' = written'[z]
    BY DEF Sent
  <2>. QED
    BY <1>0, <1>2, <1>7, <1>10, <2>1, <2>2 DEF Delivery, parsing
<1>13. Pings'
  <2>1. Extends(Trail, x, Trail') /\ UNCHANGED <<pongs, rx, hdr>>
    BY <1>2, <1>6, <1>7, <1>8 DEF parsing
  <2>. QED
    BY <1>0, <1>2, <1>9, <2>1, SenderPings
<1>. QED
  BY <1>11, <1>12, <1>13 DEF Intact

-----------------------------------------------------------------------------
(* Steps that leave the trail as it is. *)

\* Framing and Delivery depend on the trail, the senders and what was delivered.
LEMMA SameTrail ==
  ASSUME Framing, Delivery, Trail' = Trail, UNCHANGED <<cur, written, got, hdr>>,
         \A t \in Senders : pc'[t] = pc[t],
         rx' # "desync", frame_remain' <= hdr_length(hdr),
         new_frame' => frame_remain' = 0, rx' = "handle" => new_frame'
  PROVE  Framing' /\ Delivery'
<1>1. \A t \in Senders : Continues(Trail, t)'
  BY DEF Framing, Continues
<1>2. Framing'
  BY <1>1 DEF Framing
<1>3. \A t \in Senders : \A s : Sent(t, s)' = Sent(t, s)
  BY DEF Sent
<1>4. Delivery'
  BY <1>3 DEF Delivery
<1>. QED
  BY <1>2, <1>4

\* Steps that leave the trail alone leave the PINGs in order.
LEMMA SamePings ==
  ASSUME Pings, Trail' = Trail, UNCHANGED <<pongs, hdr, count>>, rx' # "handle" \/ rx' = rx
  PROVE  Pings'
BY DEF Pings

\* What is written first of what was peeked.
LEMMA PrefixOfPrefix ==
  ASSUME NEW a \in Seq(SaneByte), NEW n \in Nat, n <= Len(a), NEW r \in 1 .. n
  PROVE  SubSeq(SubSeq(a, 1, n), 1, r) = SubSeq(a, 1, r)
<1>1. 1 \in 1 .. Len(a) /\ n \in 1 .. Len(a) /\ 1 \in 1 .. n - 1 + 1 /\ r \in 1 .. n - 1 + 1
  OBVIOUS
<1>2. SubSeq(SubSeq(a, 1, n), 1, r) = SubSeq(a, 1 + 1 - 1, 1 + r - 1)
  BY <1>1, SubSeqOfSubSeq
<1>3. 1 + 1 - 1 = 1 /\ 1 + r - 1 = r
  OBVIOUS
<1>. QED
  BY <1>2, <1>3

\* The loops move bytes along the trail.
LEMMA LoopInv ==
  ASSUME Intact, TypeInv', SendLoop \/ SendLoopConsume \/ RecvLoop \/ RecvLoopFail
  PROVE  Intact'
<1>0. TypeInv /\ TypeOK /\ Framing /\ Delivery /\ Pings
  BY DEF Intact, TypeInv
<1>1. /\ recv_buf \in Seq(SaneByte) /\ wire \in Seq(SaneByte) /\ send_buf \in Seq(SaneByte)
      /\ unconsumed \in 0 .. Len(send_buf) /\ Len(send_buf) \in Nat /\ Len(wire) \in Nat
  BY <1>0 DEF TypeInv, TypeOK, Sane
<1>2. /\ UNCHANGED <<cur, written, got, hdr, pc, pongs, count, frame_remain, new_frame>>
      /\ rx' # "desync" /\ (rx' # "handle" \/ rx' = rx)
      /\ LastTaken' = LastTaken
  <2>1. rx # "desync"
    BY <1>0 DEF Framing
  <2>2. UNCHANGED <<cur, written, got, hdr, pc, pongs, count, frame_remain, new_frame>>
    BY DEF SendLoop, SendLoopConsume, RecvLoop, RecvLoopFail, sending, parsing
  <2>3. rx' = rx \/ (rx = "idle" /\ rx' \in {"process", "dead"})
    <3>1. SendLoop \/ SendLoopConsume => rx' = rx
      BY DEF SendLoop, SendLoopConsume
    <3>2. RecvLoop \/ RecvLoopFail => rx = "idle" /\ rx' \in {"process", "dead"}
      BY DEF RecvLoop, RecvLoopFail
    <3>. QED
      BY <3>1, <3>2
  <2>4. LastTaken' = LastTaken
    BY <2>2, <2>3 DEF LastTaken
  <2>. QED
    BY <2>1, <2>2, <2>3, <2>4
<1>3. Join(recv_buf, wire, send_buf, unconsumed)' = Join(recv_buf, wire, send_buf, unconsumed)
  <2>1. CASE SendLoop
    <3>1. PICK n \in Nat : n <= Len(send_buf) /\ session_send_buf_peek(Chunk) = SubSeq(send_buf, 1, n)
      BY <1>1, SizeFacts DEF session_send_buf_peek, Least
    <3>2. PICK q : q = SubSeq(send_buf, 1, n) /\ Len(q) = n
      <4>1. Len(SubSeq(send_buf, 1, n)) = IF 1 <= n THEN n - 1 + 1 ELSE 0
        BY <1>1, <3>1, PieceType
      <4>2. Len(SubSeq(send_buf, 1, n)) = n
        BY <3>1, <4>1
      <4>. QED
        BY <4>2
    <3>3. PICK r \in 1 .. Len(q) : /\ wire' = wire \o SubSeq(q, 1, r) /\ unconsumed' = r
                                   /\ unconsumed = 0 /\ UNCHANGED <<send_buf, recv_buf>>
      BY <2>1, <3>1, <3>2 DEF SendLoop
    <3>4. SubSeq(q, 1, r) = SubSeq(send_buf, 1, r)
      BY <1>1, <3>1, <3>2, <3>3, PrefixOfPrefix
    <3>5. r \in 0 .. Len(send_buf)
      BY <3>1, <3>2, <3>3
    <3>6. Join(recv_buf, wire \o SubSeq(send_buf, 1, r), send_buf, r) = Join(recv_buf, wire, send_buf, 0)
      BY <1>1, <3>5, JoinSend
    <3>. QED
      BY <3>3, <3>4, <3>6
  <2>2. CASE SendLoopConsume
    <3>1. /\ send_buf' = SubSeq(send_buf, unconsumed + 1, Len(send_buf)) /\ unconsumed' = 0
          /\ UNCHANGED <<wire, recv_buf>>
      BY <2>2 DEF SendLoopConsume, session_send_buf_consume
    <3>2. Join(recv_buf, wire, SubSeq(send_buf, unconsumed + 1, Len(send_buf)), 0)
            = Join(recv_buf, wire, send_buf, unconsumed)
      BY <1>1, JoinConsume
    <3>. QED
      BY <3>1, <3>2
  <2>3. CASE RecvLoop
    <3>1. PICK r \in 1 .. Len(wire) : /\ recv_buf' = recv_buf \o SubSeq(wire, 1, r)
                                      /\ wire' = SubSeq(wire, r + 1, Len(wire))
                                      /\ UNCHANGED <<send_buf, unconsumed>>
      BY <2>3 DEF RecvLoop, sending
    <3>2. r \in 0 .. Len(wire)
      BY <1>1, <3>1
    <3>3. Join(recv_buf \o SubSeq(wire, 1, r), SubSeq(wire, r + 1, Len(wire)), send_buf, unconsumed)
            = Join(recv_buf, wire, send_buf, unconsumed)
      BY <1>1, <3>2, JoinRecv
    <3>. QED
      BY <3>1, <3>3
  <2>4. CASE RecvLoopFail
    BY <2>4 DEF RecvLoopFail, sending
  <2>. QED
    BY <2>1, <2>2, <2>3, <2>4
<1>4. Trail' = Trail
  BY <1>2, <1>3 DEF Trail, Unsent, Join
<1>5. /\ frame_remain <= hdr_length(hdr) /\ (new_frame => frame_remain = 0)
      /\ (rx = "handle" => new_frame)
  BY <1>0 DEF Framing
<1>6. Framing' /\ Delivery'
  <2>1. /\ UNCHANGED <<cur, written, got, hdr>> /\ rx' # "desync"
        /\ \A t \in Senders : pc'[t] = pc[t]
        /\ frame_remain' <= hdr_length(hdr)
    BY <1>2, <1>5
  <2>2. (new_frame' => frame_remain' = 0) /\ (rx' = "handle" => new_frame')
    BY <1>2, <1>5
  <2>. QED
    BY <1>0, <1>4, <2>1, <2>2, SameTrail
<1>7. Pings'
  BY <1>0, <1>2, <1>4, SamePings
<1>. QED
  BY <1>6, <1>7 DEF Intact

-----------------------------------------------------------------------------
(* session_process keeps the invariant. *)

\* Steps of session_process that take no byte.
LEMMA ProcessSameInv ==
  ASSUME Intact, TypeInv',
         \/ ProcessReturn \/ ResumeFrame \/ HandleData \/ EndData \/ HandlePing
  PROVE  Intact'
<1>0. TypeInv /\ TypeOK /\ Framing /\ Delivery /\ Pings
  BY DEF Intact, TypeInv
<1>1. /\ frame_remain \in Nat /\ hdr_length(hdr) \in Nat /\ Total(hdr) = HdrSize + hdr_length(hdr)
      /\ Legal(hdr) /\ frame_remain <= hdr_length(hdr) /\ HdrSize \in Nat
      /\ (new_frame => frame_remain = 0) /\ (rx = "handle" => new_frame) /\ rx # "desync"
      /\ (hdr.type = "PING" => hdr_length(hdr) = 0)
  <2>1. Legal(hdr) /\ frame_remain \in Nat
    BY <1>0 DEF Framing, TypeOK
  <2>2. hdr.type = "PING" => hdr_length(hdr) = 0
    BY <2>1, LegalFacts DEF Legal, hdr_length
  <2>. QED
    BY <1>0, <2>1, <2>2, LegalFacts, SizeFacts DEF Framing
<1>2. UNCHANGED <<sending, wire, recv_buf, hdr, got>>
  BY DEF ProcessReturn, ResumeFrame, HandleData, EndData, HandlePing, parsing
<1>3. /\ frame_remain' <= hdr_length(hdr) /\ (new_frame' => frame_remain' = 0)
      /\ rx' # "desync" /\ rx' # "handle" /\ Place' = Place
  <2>1. CASE HandleData
    <3>1. rx = "handle" /\ Place = HdrSize /\ frame_remain = 0 /\ new_frame
      BY <1>1, <2>1 DEF HandleData, Place
    <3>2. CASE ~HasPayload(hdr)
      <4>1. hdr_length(hdr) = 0
        BY <1>1, <3>2 DEF HasPayload
      <4>2. rx' = "process" /\ UNCHANGED <<frame_remain, new_frame, hdr>>
        BY <2>1, <3>2 DEF HandleData
      <4>. QED
        BY <1>1, <3>1, <4>1, <4>2 DEF Place
    <3>3. CASE HasPayload(hdr)
      <4>1. /\ rx' = "payload" /\ frame_remain' = hdr_length(hdr) /\ new_frame' = FALSE
            /\ hdr' = hdr
        BY <2>1, <3>3 DEF HandleData
      <4>. QED
        BY <1>1, <3>1, <4>1 DEF Place
    <3>. QED
      BY <3>2, <3>3
  <2>2. CASE HandlePing
    <3>1. /\ rx = "handle" /\ hdr.type = "PING" /\ UNCHANGED <<hdr, frame_remain, new_frame>>
          /\ rx' = "process"
      BY <2>2 DEF HandlePing
    <3>2. frame_remain = 0 /\ hdr_length(hdr) = 0
      BY <1>1, <3>1
    <3>. QED
      BY <1>1, <3>1, <3>2 DEF Place
  <2>3. CASE EndData
    <3>1. /\ rx = "payload" /\ rx' = "process" /\ UNCHANGED <<hdr, frame_remain>>
          /\ new_frame' = (frame_remain = 0)
      BY <2>3 DEF EndData
    <3>. QED
      BY <1>1, <3>1 DEF Place
  <2>4. CASE ProcessReturn \/ ResumeFrame
    <3>1. /\ rx = "process" /\ rx' \in {"idle", "payload"}
          /\ UNCHANGED <<hdr, frame_remain, new_frame>>
      BY <2>4 DEF ProcessReturn, ResumeFrame, parsing
    <3>. QED
      BY <1>1, <3>1 DEF Place
  <2>. QED
    BY <2>1, <2>2, <2>3, <2>4
<1>4. Trail' = Trail
  <2>1. LastTaken' = LastTaken
    BY <1>2, <1>3 DEF LastTaken, Place
  <2>. QED
    BY <1>2, <2>1 DEF Trail, Unsent, sending
<1>5. Framing' /\ Delivery'
  <2>1. UNCHANGED <<cur, written, got, hdr>> /\ \A t \in Senders : pc'[t] = pc[t]
    BY <1>2 DEF sending
  <2>. QED
    BY <1>0, <1>3, <1>4, <2>1, SameTrail
<1>6. CASE HandlePing
  <2>1. /\ pongs' = Append(pongs, hdr.lo) /\ rx = "handle" /\ hdr.type = "PING"
        /\ UNCHANGED <<hdr, count>>
    BY <1>6 DEF HandlePing, sending
  <2>2. pongs \in Seq(Nat) /\ hdr.lo \in Nat
    BY <1>0, <1>1, LegalFacts DEF TypeOK
  <2>3. PICK p \in Seq(Nat) : p = pongs
    BY <2>2
  <2>4. PICK r \in Seq(Nat) : r = pongs'
    BY <1>0, <2>1, <2>2, AppendProperties DEF TypeInv, TypeOK
  <2>5. /\ Len(r) = Len(p) + 1 /\ Len(p) \in Nat /\ r[Len(p) + 1] = hdr.lo
        /\ \A i \in 1 .. Len(p) : r[i] = p[i]
    BY <2>1, <2>2, <2>3, <2>4, AppendProperties
  <2>6. /\ \A i, j \in 1 .. Len(p) : i < j => p[i] < p[j]
        /\ \A i \in 1 .. Len(p) : p[i] < hdr.lo
        /\ \A t \in Senders : hdr.lo < count[t]
        /\ \A i \in 1 .. Len(p) : \A t \in Senders : p[i] < count[t]
    BY <1>0, <2>1, <2>3 DEF Pings
  <2>7. \A i \in 1 .. Len(r) : i \in 1 .. Len(p) \/ i = Len(p) + 1
    BY <2>5
  <2>8. ASSUME NEW i \in 1 .. Len(r), NEW j \in 1 .. Len(r), i < j PROVE r[i] < r[j]
    <3>1. i \in 1 .. Len(p)
      BY <2>5, <2>8
    <3>. QED
      BY <2>5, <2>6, <2>7, <2>8, <3>1
  <2>9. ASSUME NEW k \in 2 .. Len(Trail), StartOfPing(Trail[k])
        PROVE  /\ \A i \in 1 .. Len(r) : r[i] < Trail[k].frame.lo
               /\ \A t \in Senders : Trail[k].frame.lo < count[t]
    <3>1. /\ \A i \in 1 .. Len(p) : p[i] < Trail[k].frame.lo
          /\ hdr.lo < Trail[k].frame.lo
          /\ \A t \in Senders : Trail[k].frame.lo < count[t]
      BY <1>0, <2>1, <2>3, <2>9 DEF Pings
    <3>. QED
      BY <2>5, <2>7, <3>1
  <2>10. \A i \in 1 .. Len(r) : \A t \in Senders : r[i] < count[t]
    BY <2>5, <2>6, <2>7
  <2>11. PingsAscend(Trail)
    BY <1>0 DEF Pings
  <2>. QED
    BY <1>3, <1>4, <1>5, <2>1, <2>4, <2>8, <2>9, <2>10, <2>11 DEF Intact, Pings
<1>7. CASE ~HandlePing
  <2>1. UNCHANGED <<pongs, count>>
    BY <1>2, <1>7 DEF ProcessReturn, ResumeFrame, HandleData, EndData, parsing, sending
  <2>2. Pings'
    BY <1>0, <1>2, <1>3, <1>4, <2>1, SamePings
  <2>. QED
    BY <1>5, <2>2 DEF Intact
<1>. QED
  BY <1>6, <1>7

\* What taking bytes from the front leaves of the invariant.
LEMMA DropFraming ==
  ASSUME Framing, NEW d, Drops(Trail, d, Trail'), UNCHANGED <<pc, cur>>
  PROVE  Framed(Trail') /\ \A t \in Senders : Continues(Trail, t)'
<1>1. PICK q : q = Trail
  OBVIOUS
<1>2. PICK r : r = Trail'
  OBVIOUS
<1>3. /\ q \in Seq(SaneByte) /\ r \in Seq(SaneByte) /\ d \in 0 .. Len(q) - 1
      /\ Len(r) = Len(q) - d /\ \A k \in 1 .. Len(q) - d : r[k] = q[d + k]
      /\ Len(q) \in Nat /\ Framed(q)
  BY <1>1, <1>2 DEF Drops, Framing
<1>4. PICK z : z = SubSeq(q, d + 1, Len(q))
  OBVIOUS
<1>5. /\ Framed(z) /\ z \in Seq(SaneByte) /\ Len(z) = Len(q) - d
      /\ \A k \in 1 .. Len(q) - d : z[k] = q[d + k]
  BY <1>3, <1>4, FramedSuffix
<1>6. r = z
  <2>1. Len(r) = Len(z) /\ \A k \in 1 .. Len(r) : r[k] = z[k]
    BY <1>3, <1>5
  <2>. QED
    BY <1>3, <1>5, <2>1, SeqEqual
<1>7. r[Len(r)] = q[Len(q)]
  <2>1. Len(r) \in 1 .. Len(q) - d /\ d + Len(r) = Len(q)
    BY <1>3
  <2>. QED
    BY <1>3, <2>1
<1>8. \A t \in Senders : Continues(Trail, t)'
  BY <1>1, <1>2, <1>7 DEF Framing, Continues
<1>. QED
  BY <1>2, <1>5, <1>6, <1>8

\* PINGs behind a byte that was taken.
LEMMA DropPings ==
  ASSUME Pings, NEW d, Drops(Trail, d, Trail'), UNCHANGED <<count, pongs>>,
         rx' # "handle"
  PROVE  Pings'
<1>1. PICK q : q = Trail
  OBVIOUS
<1>2. PICK r : r = Trail'
  OBVIOUS
<1>3. Drops(q, d, r) /\ PingsAscend(q)
  BY <1>1, <1>2 DEF Pings
<1>4. PingsAscend(r)
  BY <1>3, PingsDrop
<1>5. \A k \in 2 .. Len(r) : d + k \in 2 .. Len(q) /\ r[k] = q[d + k]
  BY <1>3 DEF Drops
<1>6. \A k \in 2 .. Len(r) : StartOfPing(r[k]) =>
        /\ \A i \in 1 .. Len(pongs) : pongs[i] < r[k].frame.lo
        /\ \A t \in Senders : r[k].frame.lo < count[t]
  BY <1>1, <1>5 DEF Pings
<1>. QED
  BY <1>2, <1>4, <1>6 DEF Pings

\* A header is read from exactly the bytes of one header.
LEMMA ReadHdrInv ==
  ASSUME Intact, TypeInv', ReadHdr
  PROVE  Intact'
<1>0. TypeInv /\ TypeOK /\ Framing /\ Delivery /\ Pings /\ Placed
  BY DEF Intact, TypeInv, Framing, Placed
<1>1. /\ rx = "process" /\ new_frame /\ recv_buf # << >> /\ Len(recv_buf) >= HdrSize
      /\ recv_buf \in Seq(SaneByte) /\ Len(recv_buf) \in Nat /\ HdrSize \in Nat /\ HdrSize >= 1
  BY <1>0, SizeFacts DEF ReadHdr, EnoughForHdr, TypeInv, Sane
<1>2. PICK q : q = Trail
  OBVIOUS
<1>3. /\ q \in Seq(SaneByte) /\ Len(q) \in Nat /\ Len(q) >= 1 + Len(recv_buf)
      /\ \A i \in 1 .. Len(recv_buf) : q[i + 1] = recv_buf[i]
      /\ q[1].frame = hdr /\ Off(q[1]) = Place /\ Framed(q)
  BY <1>0, <1>2, TrailFacts DEF Framing
<1>4. Place = Total(hdr) /\ Total(hdr) \in Nat
  <2>1. frame_remain = 0
    BY <1>0, <1>1 DEF Framing
  <2>. QED
    BY <1>0, <1>1, <2>1, LegalFacts DEF Place, Placed
<1>5. PICK f : f = q[2].frame
  OBVIOUS
<1>6. Off(q[2]) = 1 /\ Whole(q[2]) /\ Legal(f) /\ Total(f) \in Nat /\ Total(f) >= HdrSize
  <2>1. 1 \in 1 .. Len(q) - 1 /\ 2 \in 1 .. Len(q) /\ 1 + 1 = 2
    BY <1>1, <1>3
  <2>2. Off(q[2]) = 1 /\ Whole(q[2])
    BY <1>3, <1>4, <2>1 DEF Framed
  <2>. QED
    BY <1>5, <2>2, WholeFacts, LegalFacts
<1>7. \A i \in 1 .. HdrSize : q[i + 1] = ByteAt(f, i)
  <2> SUFFICES ASSUME NEW i \in 1 .. HdrSize PROVE q[i + 1] = ByteAt(f, i)
    OBVIOUS
  <2>1. PICK m \in 0 .. Len(q) - 2 : m = i - 1
    BY <1>1, <1>3
  <2>2. 2 \in 1 .. Len(q) /\ 2 + m = i + 1 /\ 1 + m = i /\ 1 + m <= Total(f)
    BY <1>1, <1>3, <1>6, <2>1
  <2>3. q[2 + m] = ByteAt(f, 1 + m)
    BY <1>3, <1>5, <1>6, <2>1, <2>2 DEF Framed
  <2>. QED
    BY <2>2, <2>3
<1>8. PICK bytes : bytes = SubSeq(recv_buf, 1, HdrSize)
  OBVIOUS
<1>9. bytes = Header(f) /\ bytes # << >> /\ bytes[1].frame = f
  <2>1. /\ bytes \in Seq(SaneByte) /\ Len(bytes) = HdrSize
        /\ \A i \in 1 .. HdrSize : bytes[i] = recv_buf[i]
    <3>1. /\ SubSeq(recv_buf, 1, HdrSize) \in Seq(SaneByte)
          /\ Len(SubSeq(recv_buf, 1, HdrSize)) = IF 1 <= HdrSize THEN HdrSize - 1 + 1 ELSE 0
          /\ \A i \in 1 .. HdrSize - 1 + 1 : SubSeq(recv_buf, 1, HdrSize)[i] = recv_buf[1 + i - 1]
      BY <1>1, PieceType
    <3>2. \A i \in 1 .. HdrSize : i \in 1 .. HdrSize - 1 + 1 /\ 1 + i - 1 = i
      BY <1>1
    <3>. QED
      BY <1>1, <1>8, <3>1, <3>2
  <2>2. PICK h \in Seq(SaneByte) :
          h = Header(f) /\ Len(h) = HdrSize /\ \A i \in 1 .. HdrSize : h[i] = ByteAt(f, i)
    BY <1>6, HeaderBytes
  <2>3. \A i \in 1 .. HdrSize : bytes[i] = h[i]
    <3>1. \A i \in 1 .. HdrSize : i \in 1 .. Len(recv_buf)
      BY <1>1
    <3>. QED
      BY <1>3, <1>7, <2>1, <2>2, <3>1
  <2>4. bytes = h
    BY <2>1, <2>2, <2>3, SeqEqual
  <2>5. 1 \in 1 .. HdrSize /\ 1 \in 1 .. Total(f)
    BY <1>1, <1>6
  <2>6. bytes[1].frame = f
    BY <1>6, <2>2, <2>4, <2>5, ByteAtFacts
  <2>7. bytes # << >>
    BY <1>1, <2>1
  <2>. QED
    BY <2>2, <2>4, <2>6, <2>7
<1>10. /\ rx' = "handle" /\ hdr' = f /\ recv_buf' = SubSeq(recv_buf, HdrSize + 1, Len(recv_buf))
       /\ UNCHANGED <<sending, wire, new_frame, frame_remain, got, pongs, fault>>
  <2>1. Least(HdrSize, Len(recv_buf)) = HdrSize
    BY <1>1 DEF Least
  <2>2. IsHeader(bytes)
    BY <1>9 DEF IsHeader
  <2>. QED
    BY <1>8, <1>9, <2>1, <2>2 DEF ReadHdr
<1>11. Placed' /\ LastTaken' = ByteAt(f, HdrSize) /\ frame_remain' = 0 /\ new_frame'
  <2>1. frame_remain = 0
    BY <1>0, <1>1 DEF Framing
  <2>2. 0 <= hdr_length(f)
    BY <1>6, LegalFacts
  <2>. QED
    BY <1>1, <1>6, <1>10, <2>1, <2>2 DEF Placed, LastTaken
<1>12. PICK r : r = Trail'
  OBVIOUS
<1>13. Drops(Trail, HdrSize, Trail')
  <2>1. HdrSize \in 0 .. Len(recv_buf) /\ UNCHANGED <<wire, send_buf, unconsumed>>
    BY <1>1, <1>10 DEF sending
  <2>2. LastTaken' = Trail[HdrSize + 1]
    <3>1. HdrSize \in 1 .. HdrSize
      BY <1>1
    <3>. QED
      BY <1>2, <1>7, <1>11, <3>1
  <2>. QED
    BY <1>0, <1>10, <1>11, <2>1, <2>2, TrailDrops
<1>14. Framing'
  <2>1. Framed(Trail') /\ \A t \in Senders : Continues(Trail, t)'
    BY <1>0, <1>10, <1>13, DropFraming DEF sending
  <2>. QED
    BY <1>10, <1>11, <2>1 DEF Framing, Placed
<1>15. Drops(q, HdrSize, r)
  BY <1>2, <1>12, <1>13
<1>16. \A k \in 2 .. HdrSize + 1 : \A s : ~PayloadOf(q[k], s)
  <2> SUFFICES ASSUME NEW k \in 2 .. HdrSize + 1 PROVE \A s : ~PayloadOf(q[k], s)
    OBVIOUS
  <2>1. PICK i \in 1 .. HdrSize : k = i + 1
    <3>1. k - 1 \in 1 .. HdrSize /\ k = (k - 1) + 1
      BY <1>1
    <3>. QED
      BY <3>1
  <2>2. i \in 1 .. Total(f) /\ i <= HdrSize
    BY <1>1, <1>6
  <2>3. q[k].hdr
    BY <1>6, <1>7, <2>1, <2>2, ByteAtFacts
  <2>. QED
    BY <2>3 DEF PayloadOf
<1>17. Delivery'
  <2>1. ASSUME NEW s \in Known
        PROVE  /\ Ascends(r, s, Len(got[s]))
               /\ \A top \in Nat : Covers(q, s, Len(got[s]), top) => Covers(r, s, Len(got[s]), top)
    <3>1. PICK g \in Nat : g = Len(got[s])
      BY <1>0 DEF TypeOK
    <3>2. Ascends(q, s, g)
      BY <1>0, <1>2, <3>1 DEF Delivery
    <3>3. /\ Ascends(r, s, g)
          /\ \A top \in Nat : Covers(q, s, g, top) => Covers(r, s, g, top)
      BY <1>15, <1>16, <3>2, OrderDrop
    <3>. QED
      BY <3>1, <3>3
  <2>2. ASSUME NEW t \in Senders, NEW s \in Known PROVE Sent(t, s)' = Sent(t, s) /\ Sent(t, s) \in Nat
    <3>1. cur[t].lo \in Nat /\ written[s] \in Nat
      BY <1>0, SaneFacts, SizeFacts DEF TypeOK, TypeInv, Sane
    <3>. QED
      BY <1>10, <3>1 DEF Sent, sending
  <2>3. UNCHANGED <<pc, cur, written, got>>
    BY <1>10 DEF sending
  <2>. QED
    BY <1>0, <1>2, <1>12, <2>1, <2>2, <2>3 DEF Delivery
<1>18. Pings'
  <2>1. PingsAscend(q) /\ PingsAscend(r)
    BY <1>0, <1>2, <1>15, PingsDrop DEF Pings
  <2>2. 2 \in 2 .. Len(q) /\ \A k \in 2 .. Len(r) : /\ HdrSize + k \in 2 .. Len(q) /\ 2 < HdrSize + k
                                                     /\ r[k] = q[HdrSize + k]
    <3>1. /\ Len(q) \in Nat /\ Len(r) = Len(q) - HdrSize /\ HdrSize \in 0 .. Len(q) - 1
          /\ \A k \in 1 .. Len(q) - HdrSize : r[k] = q[HdrSize + k]
      BY <1>15 DEF Drops
    <3>2. HdrSize \in Nat /\ HdrSize >= 1
      BY SizeFacts
    <3>3. 2 \in 2 .. Len(q)
      BY <3>1, <3>2
    <3>4. \A k \in 2 .. Len(r) : /\ HdrSize + k \in 2 .. Len(q) /\ 2 < HdrSize + k
                                 /\ k \in 1 .. Len(q) - HdrSize
      BY <3>1, <3>2
    <3>. QED
      BY <3>1, <3>3, <3>4
  <2>3. f.type = "PING" => StartOfPing(q[2])
    <3>1. q[2] = ByteAt(f, 1) /\ 1 <= HdrSize /\ 1 \in 1 .. Total(f)
      BY <1>1, <1>5, <1>6, WholeFacts
    <3>2. q[2].hdr /\ q[2].i = 1
      BY <1>6, <3>1, ByteAtFacts
    <3>. QED
      BY <1>5, <3>2 DEF StartOfPing
  <2>4. ASSUME NEW k \in 2 .. Len(q), StartOfPing(q[k])
        PROVE  /\ \A i \in 1 .. Len(pongs) : pongs[i] < q[k].frame.lo
               /\ \A t \in Senders : q[k].frame.lo < count[t]
    BY <1>0, <1>2, <2>4 DEF Pings
  <2>5. ASSUME NEW k \in 2 .. Len(r), StartOfPing(r[k])
        PROVE  /\ \A i \in 1 .. Len(pongs) : pongs[i] < r[k].frame.lo
               /\ f.type = "PING" => f.lo < r[k].frame.lo
               /\ \A t \in Senders : r[k].frame.lo < count[t]
    <3>1. f.type = "PING" => q[2].frame.lo < q[HdrSize + k].frame.lo
      BY <2>1, <2>2, <2>3, <2>5 DEF PingsAscend
    <3>. QED
      BY <1>5, <2>2, <2>4, <2>5, <3>1
  <2>6. f.type = "PING" => /\ \A i \in 1 .. Len(pongs) : pongs[i] < f.lo
                           /\ \A t \in Senders : f.lo < count[t]
    BY <1>5, <2>2, <2>3, <2>4
  <2>7. /\ \A i, j \in 1 .. Len(pongs) : i < j => pongs[i] < pongs[j]
        /\ \A i \in 1 .. Len(pongs) : \A t \in Senders : pongs[i] < count[t]
    BY <1>0 DEF Pings
  <2>8. UNCHANGED <<pongs, count>> /\ hdr' = f
    BY <1>10 DEF sending
  <2>. QED
    BY <1>12, <2>1, <2>5, <2>6, <2>7, <2>8 DEF Pings
<1>. QED
  BY <1>14, <1>17, <1>18 DEF Intact

\* Two ways to write the index of a payload byte: from the start of its frame and
\* from the end of it.
LEMMA OffsetArithmetic ==
  ASSUME NEW a \in Nat, NEW c \in Nat, NEW h \in Nat, NEW f \in Nat, NEW m \in Nat
  PROVE  a + ((((h + c) - f) + m) - h) = ((a + c) - f) + m
  OBVIOUS

\* Payload of the frame the receiver is in comes next on the trail.
LEMMA PayloadNext ==
  ASSUME TypeInv, Framing, rx = "payload", NEW d \in 1 .. frame_remain, d <= Len(recv_buf)
  PROVE  /\ hdr.type = "DATA" /\ Place + d = Total(hdr) - (frame_remain - d)
         /\ \A k \in 2 .. d + 1 :
              /\ Trail[k] = ByteAt(hdr, Place + (k - 1)) /\ Trail[k].frame = hdr
              /\ ~Trail[k].hdr /\ Trail[k].i = (hdr.hi - frame_remain) + (k - 1)
<1>1. /\ Placed /\ Legal(hdr) /\ frame_remain \in Nat /\ d \in Nat /\ frame_remain <= hdr_length(hdr)
      /\ hdr_length(hdr) \in Nat /\ Total(hdr) = HdrSize + hdr_length(hdr) /\ HdrSize \in Nat
      /\ hdr.lo \in Nat /\ hdr.hi = hdr.lo + hdr_length(hdr) /\ HdrSize >= 1
      /\ Place = Total(hdr) - frame_remain
  <2>1. Placed /\ Legal(hdr) /\ frame_remain \in Nat /\ d \in Nat /\ frame_remain <= hdr_length(hdr)
    BY DEF Framing, Placed, TypeInv, TypeOK
  <2>. QED
    BY <2>1, LegalFacts, SizeFacts DEF Place
<1>2. hdr.type = "DATA"
  <2>1. hdr.type \in {"DATA", "PING"}
    BY <1>1 DEF Legal, Frame
  <2>2. hdr.type = "PING" => hdr_length(hdr) = 0
    BY <1>1 DEF Legal, hdr_length
  <2>. QED
    BY <1>1, <2>1, <2>2
<1>3. PICK q : q = Trail
  OBVIOUS
<1>4. /\ Framed(q) /\ Len(q) \in Nat /\ Len(q) >= 1 + d
      /\ q[1].frame = hdr /\ Off(q[1]) = Place /\ Len(recv_buf) \in Nat
  BY <1>1, <1>3, TrailFacts DEF Framing
<1>5. ASSUME NEW k \in 2 .. d + 1
      PROVE  /\ q[k] = ByteAt(hdr, Place + (k - 1)) /\ q[k].frame = hdr
             /\ ~q[k].hdr /\ q[k].i = (hdr.hi - frame_remain) + (k - 1)
  <2>0. PICK n \in Nat : n = Len(q) /\ n >= 1 + d
    BY <1>4
  <2>a. k - 1 \in 0 .. n - 1 /\ 1 + (k - 1) = k /\ k - 1 >= 1 /\ k - 1 <= d
    BY <1>1, <2>0
  <2>1. PICK m \in 0 .. Len(q) - 1 : m = k - 1 /\ 1 + m = k /\ m >= 1 /\ m <= d
    BY <2>0, <2>a
  <2>2. 1 \in 1 .. Len(q) /\ Place + m <= Total(hdr)
    <3>1. 1 \in 1 .. Len(q)
      BY <2>0
    <3>2. PICK a \in Nat, c \in Nat : a = Total(hdr) /\ c = frame_remain
      BY <1>1, LegalFacts
    <3>3. m \in Nat /\ m <= c
      BY <1>1, <2>0, <2>1, <3>2
    <3>4. (a - c) + m <= a
      BY <3>2, <3>3
    <3>. QED
      BY <1>1, <3>1, <3>2, <3>4
  <2>3. q[1 + m] = ByteAt(hdr, Place + m)
    BY <1>4, <2>1, <2>2 DEF Framed
  <2>4. PICK o \in 1 .. Total(hdr) : o = Place + m /\ o > HdrSize
    BY <1>1, <2>1, <2>2
  <2>5. hdr.lo + (o - HdrSize) = (hdr.hi - frame_remain) + m
    <3>1. PICK a \in Nat, c \in Nat, h \in Nat, f \in Nat :
             a = hdr.lo /\ c = hdr_length(hdr) /\ h = HdrSize /\ f = frame_remain
      BY <1>1
    <3>2. o = ((h + c) - f) + m /\ hdr.hi = a + c /\ o \in Nat /\ m \in Nat
      BY <1>1, <2>1, <2>4, <3>1
    <3>3. a + ((((h + c) - f) + m) - h) = ((a + c) - f) + m
      BY <3>2, OffsetArithmetic
    <3>. QED
      BY <3>1, <3>2, <3>3
  <2>6. /\ ByteAt(hdr, o).frame = hdr /\ ~ByteAt(hdr, o).hdr
        /\ ByteAt(hdr, o).i = hdr.lo + (o - HdrSize)
    BY <1>1, <2>4, ByteAtFacts
  <2>. QED
    BY <2>1, <2>3, <2>4, <2>5, <2>6
<1>6. Place + d = Total(hdr) - (frame_remain - d)
  BY <1>1
<1>. QED
  BY <1>2, <1>3, <1>5, <1>6

\* Taking d bytes of payload leaves the receiver d bytes further in the frame.
LEMMA TakePayload ==
  ASSUME TypeInv, Framing, TypeInv', rx = "payload", NEW d \in 1 .. frame_remain,
         d <= Len(recv_buf), recv_buf' = SubSeq(recv_buf, d + 1, Len(recv_buf)),
         frame_remain' = frame_remain - d,
         UNCHANGED <<sending, wire, rx, hdr, new_frame>>
  PROVE  Drops(Trail, d, Trail') /\ Framing'
<1>1. /\ Placed /\ Legal(hdr) /\ frame_remain \in Nat /\ d \in Nat /\ frame_remain <= hdr_length(hdr)
      /\ hdr_length(hdr) \in Nat /\ Len(recv_buf) \in Nat
  <2>1. Placed /\ Legal(hdr) /\ frame_remain \in Nat /\ d \in Nat /\ frame_remain <= hdr_length(hdr)
        /\ recv_buf \in Seq(SaneByte)
    BY DEF Framing, Placed, TypeInv, TypeOK, Sane
  <2>. QED
    BY <2>1, LegalFacts
<1>2. Placed'
  BY <1>1 DEF Placed
<1>3. LastTaken' = Trail[d + 1]
  <2>1. LastTaken' = ByteAt(hdr, Total(hdr) - (frame_remain - d))
    BY DEF LastTaken
  <2>2. d + 1 \in 2 .. d + 1 /\ (d + 1) - 1 = d
    BY <1>1
  <2>3. Trail[d + 1] = ByteAt(hdr, Place + ((d + 1) - 1)) /\ Place + d = Total(hdr) - (frame_remain - d)
    BY <2>2, PayloadNext
  <2>. QED
    BY <2>1, <2>2, <2>3
<1>4. Drops(Trail, d, Trail')
  <2>1. d \in 0 .. Len(recv_buf) /\ UNCHANGED <<wire, send_buf, unconsumed>>
    BY <1>1 DEF sending
  <2>. QED
    BY <1>1, <1>2, <1>3, <2>1, TrailDrops
<1>5. Framed(Trail') /\ \A t \in Senders : Continues(Trail, t)'
  BY <1>4, DropFraming DEF sending
<1>6. ~new_frame
  BY <1>1 DEF Framing
<1>. QED
  BY <1>2, <1>4, <1>5, <1>6 DEF Framing, Placed

\* Delivery when d bytes are taken and what they are appended to, if anything.
LEMMA DropDelivery ==
  ASSUME TypeInv, TypeInv', Delivery, NEW d \in Nat, Drops(Trail, d, Trail'),
         UNCHANGED <<pc, cur, written>>,
         \A s \in Known :
           \/ got'[s] = got[s] /\ \A k \in 2 .. d + 1 : ~PayloadOf(Trail[k], s)
           \/ /\ Len(got'[s]) = Len(got[s]) + d
              /\ \A i \in 1 .. Len(got[s]) : got'[s][i] = got[s][i]
              /\ \A i \in 1 .. d : got'[s][Len(got[s]) + i] = Trail[i + 1]
              /\ \A k \in 2 .. d + 1 : PayloadOf(Trail[k], s) /\ Trail[k].i = Len(got[s]) + k - 1
              /\ \A t \in Senders : Len(got[s]) + d <= Sent(t, s)
  PROVE  Delivery'
<1>1. PICK q : q = Trail
  OBVIOUS
<1>2. PICK r : r = Trail'
  OBVIOUS
<1>3. Drops(q, d, r)
  BY <1>1, <1>2
<1>4. ASSUME NEW t \in Senders, NEW s \in Known PROVE Sent(t, s)' = Sent(t, s) /\ Sent(t, s) \in Nat
  <2>1. cur[t].lo \in Nat /\ written[s] \in Nat
    BY SaneFacts, SizeFacts DEF TypeOK, TypeInv, Sane
  <2>. QED
    BY <2>1 DEF Sent
<1>5. ASSUME NEW s \in Known
      PROVE  /\ \A i \in 1 .. Len(got'[s]) :
                  ~got'[s][i].hdr /\ got'[s][i].frame.sid = s /\ got'[s][i].i = i
             /\ Ascends(r, s, Len(got'[s]))
             /\ \A t \in Senders : 
                  Covers(r, s, Len(got'[s]), Sent(t, s)) /\ Len(got'[s]) <= Sent(t, s)
  <2>1. PICK g \in Nat : g = Len(got[s])
    BY DEF TypeInv, TypeOK
  <2>2. /\ \A i \in 1 .. g : ~got[s][i].hdr /\ got[s][i].frame.sid = s /\ got[s][i].i = i
        /\ Ascends(q, s, g)
        /\ \A t \in Senders : Covers(q, s, g, Sent(t, s)) /\ g <= Sent(t, s)
    BY <1>1, <2>1 DEF Delivery
  <2>3. CASE got'[s] = got[s] /\ \A k \in 2 .. d + 1 : ~PayloadOf(Trail[k], s)
    <3>1. \A k \in 2 .. d + 1 : ~PayloadOf(q[k], s)
      BY <1>1, <2>3
    <3>2. /\ Ascends(r, s, g)
          /\ \A top \in Nat : Covers(q, s, g, top) => Covers(r, s, g, top)
      BY <1>3, <2>2, <3>1, OrderDrop
    <3>. QED
      BY <1>4, <2>1, <2>2, <2>3, <3>2
  <2>4. CASE /\ Len(got'[s]) = Len(got[s]) + d
             /\ \A i \in 1 .. Len(got[s]) : got'[s][i] = got[s][i]
             /\ \A i \in 1 .. d : got'[s][Len(got[s]) + i] = Trail[i + 1]
             /\ \A k \in 2 .. d + 1 : PayloadOf(Trail[k], s) /\ Trail[k].i = Len(got[s]) + k - 1
             /\ \A t \in Senders : Len(got[s]) + d <= Sent(t, s)
    <3>1. PICK m \in Nat : m = g + d
      OBVIOUS
    <3>2. \A k \in 2 .. d + 1 : PayloadOf(q[k], s) /\ q[k].i = g + k - 1
      BY <1>1, <2>1, <2>4
    <3>3. /\ Ascends(r, s, m)
          /\ \A top \in Nat : Covers(q, s, g, top) => Covers(r, s, m, top)
      BY <1>3, <2>2, <3>1, <3>2, OrderDrop
    <3>4. ASSUME NEW i \in 1 .. m
          PROVE  ~got'[s][i].hdr /\ got'[s][i].frame.sid = s /\ got'[s][i].i = i
      <4>1. CASE i <= g
        <5>1. i \in 1 .. g
          BY <4>1
        <5>. QED
          BY <2>1, <2>2, <2>4, <5>1
      <4>2. CASE i > g
        <5>1. PICK j \in 1 .. d : i = g + j
          <6>1. i - g \in 1 .. d /\ i = g + (i - g)
            BY <3>1, <4>2
          <6>. QED
            BY <6>1
        <5>2. got'[s][i] = q[j + 1]
          BY <1>1, <2>1, <2>4, <5>1
        <5>3. j + 1 \in 2 .. d + 1 /\ g + (j + 1) - 1 = i
          BY <5>1
        <5>. QED
          BY <3>2, <5>2, <5>3 DEF PayloadOf
      <4>. QED
        BY <4>1, <4>2
    <3>5. Len(got'[s]) = m
      BY <2>1, <2>4, <3>1
    <3>6. \A t \in Senders : m <= Sent(t, s)
      BY <2>1, <2>4, <3>1
    <3>. QED
      BY <1>4, <2>2, <3>3, <3>4, <3>5, <3>6
  <2>. QED
    BY <2>3, <2>4
<1>. QED
  BY <1>2, <1>4, <1>5 DEF Delivery

\* What session_handle_data appends to a stream are the bytes that come next for it.
LEMMA AppendNext ==
  ASSUME Intact, rx = "payload", frame_remain # 0, recv_buf # << >>, hdr.sid \in Known,
         AppendToStream(Taken(size))
  PROVE  \E d \in 1 .. frame_remain, s \in Known :
           /\ d = Taken(size) /\ d <= Len(recv_buf) /\ s = hdr.sid
           /\ got' = [got EXCEPT ![s] = @ \o SubSeq(recv_buf, 1, d)]
           /\ \A z : z # s => \A k \in 2 .. d + 1 : ~PayloadOf(Trail[k], z)
           /\ \A k \in 2 .. d + 1 : PayloadOf(Trail[k], s) /\ Trail[k].i = Len(got[s]) + k - 1
           /\ \A t \in Senders : Len(got[s]) + d <= Sent(t, s)
           /\ Len(got'[s]) = Len(got[s]) + d
           /\ \A i \in 1 .. Len(got[s]) : got'[s][i] = got[s][i]
           /\ \A i \in 1 .. d : got'[s][Len(got[s]) + i] = Trail[i + 1]
<1>0. TypeInv /\ TypeOK /\ Framing /\ Delivery /\ Pings
  BY DEF Intact, TypeInv
<1>1. /\ recv_buf \in Seq(SaneByte) /\ Len(recv_buf) \in Nat /\ frame_remain \in Nat
      /\ got \in [Known -> Seq(Byte)]
  BY <1>0 DEF TypeInv, TypeOK, Sane
<1>2. PICK d \in 1 .. frame_remain : d = Taken(size) /\ d <= Len(recv_buf)
  <2>1. Len(recv_buf) >= 1 /\ frame_remain >= 1
    BY <1>1
  <2>2. Taken(size) \in 1 .. frame_remain /\ Taken(size) <= Len(recv_buf)
    BY <1>1, <2>1, SizeFacts DEF Taken, size, Least
  <2>. QED
    BY <2>2
<1>3. PICK s \in Known : s = hdr.sid
  OBVIOUS
<1>4. got' = [got EXCEPT ![s] = @ \o SubSeq(recv_buf, 1, d)]
  <2>1. Least(d, Len(recv_buf)) = d
    BY <1>1, <1>2 DEF Least
  <2>. QED
    BY <1>2, <1>3, <2>1 DEF AppendToStream
<1>6. PICK q : q = Trail
  OBVIOUS
<1>7. \A k \in 2 .. d + 1 : /\ q[k].frame = hdr /\ ~q[k].hdr
                            /\ q[k].i = (hdr.hi - frame_remain) + (k - 1)
  BY <1>0, <1>2, <1>6, PayloadNext
<1>8. PICK g \in Nat : g = Len(got[s])
  BY <1>1
<1>9. /\ \A k \in 2 .. d + 1 : PayloadOf(q[k], s)
      /\ \A z : z # s => \A k \in 2 .. d + 1 : ~PayloadOf(q[k], z)
  BY <1>3, <1>7 DEF PayloadOf
<1>10. /\ Len(q) \in Nat /\ Len(q) >= d + 1 /\ d \in Nat /\ d >= 1
       /\ \A i \in 1 .. Len(recv_buf) : q[i + 1] = recv_buf[i]
  <2>1. Placed
    BY <1>0 DEF Framing, Placed
  <2>. QED
    BY <1>0, <1>1, <1>2, <1>6, <2>1, TrailFacts
<1>11. hdr.hi - frame_remain = g
  <2>1. Ascends(q, s, g)
    BY <1>0, <1>6, <1>8 DEF Delivery
  <2>2. 2 \in 2 .. Len(q) /\ 2 \in 2 .. d + 1
    BY <1>10
  <2>3. PayloadOf(q[2], s) /\ q[2].i = (hdr.hi - frame_remain) + (2 - 1)
    BY <1>7, <1>9, <2>2
  <2>4. g < q[2].i
    BY <2>1, <2>2, <2>3 DEF Ascends
  <2>5. \A x \in g + 1 .. q[2].i - 1 : \E j \in 2 .. 2 - 1 : PayloadOf(q[j], s) /\ q[j].i = x
    BY <2>1, <2>2, <2>3 DEF Ascends
  <2>6. hdr.hi \in Nat
    BY <1>0, SaneFacts DEF TypeInv, Sane
  <2>7. ~(g + 1 \in g + 1 .. q[2].i - 1)
    <3>1. \A j \in 2 .. 2 - 1 : FALSE
      OBVIOUS
    <3>. QED
      BY <2>5, <3>1
  <2>8. q[2].i \in Int
    BY <1>1, <2>3, <2>6
  <2>. QED
    BY <1>1, <2>3, <2>4, <2>6, <2>7, <2>8
<1>12. \A k \in 2 .. d + 1 : PayloadOf(q[k], s) /\ q[k].i = g + k - 1
  <2>1. \A k \in 2 .. d + 1 : g + (k - 1) = g + k - 1
    BY <1>10
  <2>. QED
    BY <1>7, <1>9, <1>11, <2>1
<1>13. \A t \in Senders : g + d <= Sent(t, s)
  <2> SUFFICES ASSUME NEW t \in Senders PROVE g + d <= Sent(t, s)
    OBVIOUS
  <2>1. Covers(q, s, g, Sent(t, s))
    BY <1>0, <1>6, <1>8 DEF Delivery
  <2>2. d + 1 \in 2 .. d + 1 /\ d + 1 \in 2 .. Len(q) /\ g + (d + 1) - 1 = g + d
    BY <1>10
  <2>. QED
    BY <1>12, <2>1, <2>2 DEF Covers
<1>14. /\ Len(got'[s]) = g + d
       /\ \A i \in 1 .. g : got'[s][i] = got[s][i]
       /\ \A i \in 1 .. d : got'[s][g + i] = q[i + 1]
  <2>1. PICK a \in Seq(Byte) : a = got[s]
    BY <1>1
  <2>2. PICK b : b = SubSeq(recv_buf, 1, d)
    OBVIOUS
  <2>3. b \in Seq(SaneByte) /\ Len(b) = d /\ \A i \in 1 .. d : b[i] = recv_buf[i]
    <3>1. /\ SubSeq(recv_buf, 1, d) \in Seq(SaneByte)
          /\ Len(SubSeq(recv_buf, 1, d)) = IF 1 <= d THEN d - 1 + 1 ELSE 0
          /\ \A i \in 1 .. d - 1 + 1 : SubSeq(recv_buf, 1, d)[i] = recv_buf[1 + i - 1]
      BY <1>1, <1>2, <1>10, PieceType
    <3>2. \A i \in 1 .. d : i \in 1 .. d - 1 + 1 /\ 1 + i - 1 = i
      BY <1>10
    <3>. QED
      BY <1>10, <2>2, <3>1, <3>2
  <2>4. b \in Seq(Byte)
    BY <2>3, SaneFacts
  <2>5. got'[s] = a \o b
    BY <1>1, <1>4, <2>1, <2>2
  <2>6. PICK c : c = a \o b
    OBVIOUS
  <2>7. /\ Len(c) = Len(a) + Len(b)
        /\ \A i \in 1 .. Len(a) + Len(b) : c[i] = IF i <= Len(a) THEN a[i] ELSE b[i - Len(a)]
    BY <2>4, <2>6, ConcatProperties
  <2>8. \A i \in 1 .. g : i \in 1 .. Len(a) + Len(b) /\ i <= Len(a)
    BY <1>8, <1>10, <2>1, <2>3
  <2>9. \A i \in 1 .. d : /\ g + i \in 1 .. Len(a) + Len(b) /\ ~(g + i <= Len(a))
                          /\ (g + i) - Len(a) = i /\ i \in 1 .. Len(recv_buf)
    BY <1>1, <1>2, <1>8, <1>10, <2>1, <2>3
  <2>10. ASSUME NEW i \in 1 .. d PROVE c[g + i] = q[i + 1]
    <3>1. c[g + i] = b[i]
      BY <2>7, <2>9
    <3>2. b[i] = recv_buf[i] /\ recv_buf[i] = q[i + 1]
      BY <1>10, <2>3, <2>9
    <3>. QED
      BY <3>1, <3>2
  <2>11. \A i \in 1 .. g : c[i] = a[i]
    BY <2>7, <2>8
  <2>. QED
    BY <1>8, <2>1, <2>3, <2>5, <2>6, <2>7, <2>10, <2>11
<1>15. /\ d = Taken(size) /\ d <= Len(recv_buf) /\ s = hdr.sid
       /\ got' = [got EXCEPT ![s] = @ \o SubSeq(recv_buf, 1, d)]
       /\ \A z : z # s => \A k \in 2 .. d + 1 : ~PayloadOf(Trail[k], z)
       /\ \A k \in 2 .. d + 1 : PayloadOf(Trail[k], s) /\ Trail[k].i = Len(got[s]) + k - 1
       /\ \A t \in Senders : Len(got[s]) + d <= Sent(t, s)
       /\ Len(got'[s]) = Len(got[s]) + d
       /\ \A i \in 1 .. Len(got[s]) : got'[s][i] = got[s][i]
       /\ \A i \in 1 .. d : got'[s][Len(got[s]) + i] = Trail[i + 1]
  BY <1>2, <1>3, <1>4, <1>6, <1>8, <1>9, <1>12, <1>13, <1>14
<1>. QED
  BY <1>15, Zenon

\* Payload goes to its stream, in order.
LEMMA DeliverInv ==
  ASSUME Intact, TypeInv', Deliver
  PROVE  Intact'
<1>0. TypeInv /\ TypeOK /\ Framing /\ Delivery /\ Pings
  BY DEF Intact, TypeInv
<1>1. /\ rx = "payload" /\ frame_remain # 0 /\ recv_buf # << >> /\ hdr.sid \in Known
      /\ AppendToStream(Taken(size))
  BY DEF Deliver
<1>2. PICK d \in 1 .. frame_remain, s \in Known :
        /\ d = Taken(size) /\ d <= Len(recv_buf) /\ s = hdr.sid
        /\ got' = [got EXCEPT ![s] = @ \o SubSeq(recv_buf, 1, d)]
        /\ \A z : z # s => \A k \in 2 .. d + 1 : ~PayloadOf(Trail[k], z)
        /\ \A k \in 2 .. d + 1 : PayloadOf(Trail[k], s) /\ Trail[k].i = Len(got[s]) + k - 1
        /\ \A t \in Senders : Len(got[s]) + d <= Sent(t, s)
        /\ Len(got'[s]) = Len(got[s]) + d
        /\ \A i \in 1 .. Len(got[s]) : got'[s][i] = got[s][i]
        /\ \A i \in 1 .. d : got'[s][Len(got[s]) + i] = Trail[i + 1]
  BY <1>1, AppendNext
<1>3. d \in Nat
  BY <1>0 DEF TypeOK
<1>4. /\ recv_buf' = SubSeq(recv_buf, d + 1, Len(recv_buf))
      /\ frame_remain' = frame_remain - d
      /\ UNCHANGED <<sending, wire, rx, hdr, new_frame, pongs, fault>>
  BY <1>2 DEF Deliver
<1>5. Drops(Trail, d, Trail') /\ Framing'
  BY <1>0, <1>1, <1>2, <1>4, TakePayload
<1>6. Delivery'
  <2>1. \A z \in Known :
           \/ got'[z] = got[z] /\ \A k \in 2 .. d + 1 : ~PayloadOf(Trail[k], z)
           \/ /\ Len(got'[z]) = Len(got[z]) + d
              /\ \A i \in 1 .. Len(got[z]) : got'[z][i] = got[z][i]
              /\ \A i \in 1 .. d : got'[z][Len(got[z]) + i] = Trail[i + 1]
              /\ \A k \in 2 .. d + 1 : PayloadOf(Trail[k], z) /\ Trail[k].i = Len(got[z]) + k - 1
              /\ \A t \in Senders : Len(got[z]) + d <= Sent(t, z)
    <3> SUFFICES ASSUME NEW z \in Known
                 PROVE  \/ got'[z] = got[z] /\ \A k \in 2 .. d + 1 : ~PayloadOf(Trail[k], z)
                        \/ /\ Len(got'[z]) = Len(got[z]) + d
                           /\ \A i \in 1 .. Len(got[z]) : got'[z][i] = got[z][i]
                           /\ \A i \in 1 .. d : got'[z][Len(got[z]) + i] = Trail[i + 1]
                           /\ \A k \in 2 .. d + 1 : PayloadOf(Trail[k], z) /\ Trail[k].i = Len(got[z]) + k - 1
                           /\ \A t \in Senders : Len(got[z]) + d <= Sent(t, z)
      OBVIOUS
    <3>1. CASE z # s
      <4>1. got'[z] = got[z]
        BY <1>0, <1>2, <3>1 DEF TypeOK
      <4>. QED
        BY <1>2, <3>1, <4>1
    <3>2. CASE z = s
      BY <1>2, <3>2
    <3>. QED
      BY <3>1, <3>2
  <2>2. UNCHANGED <<pc, cur, written>>
    BY <1>4 DEF sending
  <2>. QED
    BY <1>0, <1>3, <1>5, <2>1, <2>2, DropDelivery
<1>7. Pings'
  <2>1. UNCHANGED <<count, pongs>> /\ rx' # "handle"
    BY <1>1, <1>4 DEF sending
  <2>. QED
    BY <1>0, <1>5, <2>1, DropPings
<1>. QED
  BY <1>5, <1>6, <1>7 DEF Intact

\* A delivery that fails ends the receiver with every stream still in order, also
\* when the chunk is in the stream and stream_readable_notify failed behind it.
LEMMA DeliverFailInv ==
  ASSUME Intact, DeliverFail
  PROVE  InOrder'
<1>0. TypeInv /\ TypeOK /\ Delivery /\ Pings
  BY DEF Intact, TypeInv
<1>1. /\ \A s \in Known : \A i \in 1 .. Len(got[s]) :
            ~got[s][i].hdr /\ got[s][i].frame.sid = s /\ got[s][i].i = i
      /\ \A i, j \in 1 .. Len(pongs) : i < j => pongs[i] < pongs[j]
  BY <1>0 DEF Delivery, Pings
<1>2. pongs' = pongs
  BY DEF DeliverFail
<1>3. CASE got' = got
  BY <1>1, <1>2, <1>3 DEF InOrder
<1>4. CASE AppendToStream(Taken(size))
  <2>1. PICK d \in 1 .. frame_remain, s \in Known :
          /\ got' = [got EXCEPT ![s] = @ \o SubSeq(recv_buf, 1, d)]
          /\ \A k \in 2 .. d + 1 : PayloadOf(Trail[k], s) /\ Trail[k].i = Len(got[s]) + k - 1
          /\ Len(got'[s]) = Len(got[s]) + d
          /\ \A i \in 1 .. Len(got[s]) : got'[s][i] = got[s][i]
          /\ \A i \in 1 .. d : got'[s][Len(got[s]) + i] = Trail[i + 1]
    BY <1>4, AppendNext DEF DeliverFail
  <2>2. PICK g \in Nat : g = Len(got[s])
    BY <1>0 DEF TypeOK
  <2>3. d \in Nat
    BY <1>0 DEF TypeOK
  <2>4. ASSUME NEW i \in 1 .. Len(got'[s])
        PROVE  ~got'[s][i].hdr /\ got'[s][i].frame.sid = s /\ got'[s][i].i = i
    <3>1. CASE i <= g
      <4>1. i \in 1 .. Len(got[s])
        BY <2>2, <3>1
      <4>. QED
        BY <1>1, <2>1, <4>1
    <3>2. CASE i > g
      <4>1. PICK j \in 1 .. d : i = g + j /\ j + 1 \in 2 .. d + 1 /\ g + (j + 1) - 1 = i
        <5>0. i \in 1 .. g + d
          BY <2>1, <2>2, <2>4
        <5>1. i - g \in 1 .. d /\ i = g + (i - g) /\ (i - g) + 1 \in 2 .. d + 1
              /\ g + ((i - g) + 1) - 1 = i
          BY <2>3, <3>2, <5>0
        <5>. QED
          BY <5>1
      <4>2. got'[s][i] = Trail[j + 1]
        BY <2>1, <2>2, <4>1
      <4>3. PayloadOf(Trail[j + 1], s) /\ Trail[j + 1].i = i
        BY <2>1, <2>2, <4>1
      <4>. QED
        BY <4>2, <4>3 DEF PayloadOf
    <3>. QED
      BY <2>2, <3>1, <3>2
  <2>5. \A z \in Known : z # s => got'[z] = got[z]
    BY <1>0, <2>1 DEF TypeOK
  <2>. QED
    BY <1>1, <1>2, <2>4, <2>5 DEF InOrder
<1>. QED
  BY <1>3, <1>4 DEF DeliverFail

\* The one byte for a missing stream is skipped, and nothing else.
LEMMA SkipInv ==
  ASSUME MissingFits, Intact, TypeInv', Skip
  PROVE  Intact'
<1>0. TypeInv /\ TypeOK /\ Framing /\ Delivery /\ Pings
  BY DEF Intact, TypeInv
<1>1. /\ recv_buf \in Seq(SaneByte) /\ Len(recv_buf) \in Nat /\ frame_remain \in Nat
      /\ frame_remain # 0 /\ recv_buf # << >> /\ hdr.sid \notin Known /\ rx = "payload"
  BY <1>0 DEF TypeInv, TypeOK, Sane, Skip
<1>2. 1 \in 1 .. frame_remain /\ 1 <= Len(recv_buf)
  BY <1>1
<1>3. hdr.type = "DATA" /\ Legal(hdr) /\ frame_remain <= hdr_length(hdr)
  BY <1>0, <1>1, <1>2, PayloadNext DEF Framing
<1>4. frame_remain = 1
  <2>1. hdr_length(hdr) \in {0, 1}
    BY <1>1, <1>3 DEF Legal, MissingFits, hdr_length
  <2>. QED
    BY <1>1, <1>3, <2>1
<1>5. size = 1
  BY <1>4, SizeFacts DEF size, Least
<1>6. /\ recv_buf' = SubSeq(recv_buf, 1 + 1, Len(recv_buf)) /\ frame_remain' = frame_remain - 1
      /\ UNCHANGED <<sending, wire, rx, hdr, new_frame, got, pongs, fault>>
  BY <1>5 DEF Skip
<1>7. Drops(Trail, 1, Trail') /\ Framing'
  BY <1>0, <1>1, <1>2, <1>6, TakePayload
<1>8. \A k \in 2 .. 1 + 1 : Trail[k].frame = hdr
  BY <1>0, <1>1, <1>2, PayloadNext
<1>9. Delivery'
  <2>1. \A s \in Known : got'[s] = got[s] /\ \A k \in 2 .. 1 + 1 : ~PayloadOf(Trail[k], s)
    BY <1>1, <1>6, <1>8 DEF PayloadOf
  <2>2. UNCHANGED <<pc, cur, written>>
    BY <1>6 DEF sending
  <2>3. 1 \in Nat
    OBVIOUS
  <2>. QED
    BY <1>0, <1>7, <2>1, <2>2, <2>3, DropDelivery
<1>10. Pings'
  <2>1. UNCHANGED <<count, pongs>> /\ rx' # "handle"
    BY <1>1, <1>6 DEF sending
  <2>. QED
    BY <1>0, <1>7, <2>1, DropPings
<1>. QED
  BY <1>7, <1>9, <1>10 DEF Intact

-----------------------------------------------------------------------------
(* The theorems. *)

\* At first the receiver stands behind an empty frame.
LEMMA InitInv == Init => Intact
<1> SUFFICES ASSUME Init PROVE Intact
  OBVIOUS
<1>1. TypeInv
  BY InitType
<1>2. Legal(hdr) /\ hdr_length(hdr) = 0 /\ hdr = NoFrame /\ frame_remain = 0 /\ new_frame
  BY DEF Init, NoFrame, Legal, Frame, hdr_length
<1>3. Placed
  BY <1>2 DEF Placed
<1>4. Place = Total(hdr)
  BY <1>2, LegalFacts DEF Init, Place
<1>5. PICK q : q = Trail
  OBVIOUS
<1>6. /\ q \in Seq(SaneByte) /\ Len(q) = 1 /\ q[1] = ByteAt(hdr, Total(hdr))
      /\ Total(hdr) \in 1 .. Total(hdr) /\ Off(q[1]) = Total(hdr) /\ q[1].frame = hdr
  <2>1. /\ Trail \in Seq(SaneByte) /\ Trail[1] = LastTaken /\ LastTaken = ByteAt(hdr, Place)
        /\ Place \in 1 .. Total(hdr) /\ LastTaken.frame = hdr /\ Off(LastTaken) = Place
    BY <1>1, <1>3, TrailFacts
  <2>2. Len(Trail) = 1
    <3>1. PICK e \in Seq(SaneByte) : e = << >> /\ Len(e) = 0
      BY EmptySeq
    <3>2. PICK j : j = Join(e, e, e, 0)
      OBVIOUS
    <3>3. j \in Seq(SaneByte) /\ Len(j) = 0
      <4>1. 0 \in 0 .. Len(e)
        BY <3>1
      <4>2. Join(e, e, e, 0) \in Seq(SaneByte) /\ Len(Join(e, e, e, 0)) = Len(e) + Len(e) + (Len(e) - 0)
        BY <4>1, JoinFacts
      <4>. QED
        BY <3>1, <3>2, <4>2
    <3>4. Trail = << LastTaken >> \o j
      BY <3>1, <3>2 DEF Init, Trail, Unsent, Join
    <3>5. LastTaken \in SaneByte
      BY <1>2, <2>1, ByteAtFacts
    <3>. QED
      BY <3>3, <3>4, <3>5, ConsFacts
  <2>. QED
    BY <1>4, <1>5, <2>1, <2>2
<1>7. Framing
  <2>1. Whole(q[1])
    BY <1>2, <1>6, ByteAtFacts
  <2>2. Framed(q)
    <3>1. \A k \in 1 .. Len(q) : k = 1
      BY <1>6
    <3>2. \A m \in 0 .. Len(q) - 1 : m = 0 /\ 1 + m = 1 /\ Off(q[1]) + m = Total(hdr)
      BY <1>6
    <3>3. \A k \in 1 .. Len(q) - 1 : FALSE
      BY <1>6
    <3>4. \A k \in 1 .. Len(q) : \A m \in 0 .. Len(q) - k :
            q[k + m] = ByteAt(q[k].frame, Off(q[k]) + m)
      BY <1>6, <3>1, <3>2
    <3>. QED
      BY <2>1, <3>1, <3>3, <3>4 DEF Framed
  <2>3. \A t \in Senders : Continues(q, t)
    BY <1>6 DEF Continues, Init
  <2>. QED
    BY <1>2, <1>3, <1>5, <2>2, <2>3 DEF Framing, Placed, Init
<1>8. \A k \in 2 .. Len(q) : FALSE
  BY <1>6
<1>9. Delivery
  <2>1. \A s \in Known : Len(got[s]) = 0 /\ \A i \in 1 .. Len(got[s]) : FALSE
    BY DEF Init
  <2>2. \A t \in Senders : \A s \in Known : Sent(t, s) = 0
    BY SizeFacts DEF Init, Sent
  <2>3. \A s : Ascends(q, s, 0) /\ Covers(q, s, 0, 0)
    BY <1>8 DEF Ascends, Covers
  <2>4. \A t \in Senders : pc[t] = "idle"
    BY DEF Init
  <2>. QED
    BY <1>5, <2>1, <2>2, <2>3, <2>4 DEF Delivery
<1>10. Pings
  <2>1. \A i \in 1 .. Len(pongs) : FALSE
    BY DEF Init
  <2>2. rx = "idle"
    BY DEF Init
  <2>. QED
    BY <1>5, <1>8, <2>1, <2>2 DEF Pings, PingsAscend
<1>. QED
  BY <1>1, <1>7, <1>9, <1>10 DEF Intact

\* Every step of a receiver that reads on, with no frame torn.
LEMMA NextIntact ==
  ASSUME OneSender, MissingFits, Intact, [Next]_vars, TypeInv',
         ~torn', rx' # "dead"
  PROVE  Intact'
<1>1. CASE UNCHANGED vars \/ \E t \in Senders : SendHeaderFail(t)
  <2>1. UNCHANGED <<send_buf, unconsumed, written, pc, cur, count, wire, recv_buf, rx,
                    hdr, new_frame, frame_remain, got, pongs>>
    BY <1>1 DEF vars, sending, parsing, SendHeaderFail
  <2>2. Trail' = Trail
    BY <2>1 DEF Trail, Unsent, LastTaken
  <2>3. /\ Framing /\ Delivery /\ Pings /\ frame_remain <= hdr_length(hdr) /\ rx # "desync"
        /\ (new_frame => frame_remain = 0) /\ (rx = "handle" => new_frame)
    BY DEF Intact, Framing
  <2>4. Framing' /\ Delivery'
    BY <2>1, <2>2, <2>3, SameTrail
  <2>5. Pings'
    BY <2>1, <2>2, <2>3, SamePings
  <2>. QED
    BY <2>4, <2>5 DEF Intact
<1>2. ASSUME NEW t \in Senders, Begin(t) \/ SendPayload(t) PROVE Intact'
  BY <1>2, SendHeaderInv, SendPingInv, SendPayloadInv DEF Begin
<1>3. CASE SendLoop \/ SendLoopConsume \/ RecvLoop
  BY <1>3, LoopInv
<1>4. CASE Process
  BY <1>4, ProcessSameInv, ReadHdrInv, DeliverInv, SkipInv DEF Process
<1>5. ~(\E t \in Senders : SendPayloadFail(t))
  BY DEF SendPayloadFail
<1>6. ~RecvLoopFail /\ ~DeliverFail /\ ~HandlePingFail
  BY DEF RecvLoopFail, DeliverFail, HandlePingFail
<1>. QED
  BY <1>1, <1>2, <1>3, <1>4, <1>5, <1>6 DEF Next, Fail

\* A receiver that gave up delivers nothing more, and its last step left the
\* streams in order.
LEMMA NextDead ==
  ASSUME IInv, [Next]_vars, ~torn, rx' = "dead"
  PROVE  InOrder'
<1>1. InOrder /\ (rx # "dead" => Intact)
  BY DEF IInv
<1>2. CASE DeliverFail
  <2>1. rx # "dead"
    BY <1>2 DEF DeliverFail
  <2>. QED
    BY <1>1, <1>2, <2>1, DeliverFailInv
<1>3. CASE UNCHANGED <<got, pongs>>
  BY <1>1, <1>3 DEF InOrder
<1>4. CASE UNCHANGED vars
  BY <1>3, <1>4 DEF vars, parsing
<1>5. ASSUME NEW t \in Senders,
             Begin(t) \/ SendPayload(t) \/ SendHeaderFail(t) \/ SendPayloadFail(t)
      PROVE  UNCHANGED <<got, pongs>>
  BY <1>5 DEF Begin, SendHeader, SendPing, SendPayload, SendHeaderFail, SendPayloadFail, parsing
<1>6. SendLoop \/ SendLoopConsume \/ RecvLoopFail \/ HandlePingFail => UNCHANGED <<got, pongs>>
  BY DEF SendLoop, SendLoopConsume, RecvLoopFail, HandlePingFail, parsing
<1>7. ~RecvLoop
  BY DEF RecvLoop
<1>8. ~Process
  <2>1. ~ProcessReturn /\ ~ResumeFrame /\ ~EndData /\ ~HandlePing
    BY DEF ProcessReturn, ResumeFrame, EndData, HandlePing
  <2>2. ~ReadHdr
    BY DEF ReadHdr
  <2>3. ~HandleData
    BY DEF HandleData
  <2>4. ~Deliver /\ ~Skip
    BY DEF Deliver, Skip
  <2>. QED
    BY <2>1, <2>2, <2>3, <2>4 DEF Process
<1>. QED
  BY <1>2, <1>3, <1>4, <1>5, <1>6, <1>7, <1>8 DEF Next, Fail

\* Every step preserves the invariant.
LEMMA NextInv ==
  ASSUME OneSender, MissingFits, IInv, [Next]_vars
  PROVE  IInv'
<1>1. TypeInv /\ TypeInv'
  BY NextType DEF IInv
<1>2. CASE torn'
  BY <1>1, <1>2 DEF IInv, InOrder
<1>3. CASE ~torn'
  <2>1. ~torn
    <3>1. torn => torn'
      <4>1. CASE UNCHANGED vars
        BY <4>1 DEF vars, fault
      <4>2. ASSUME NEW t \in Senders,
                   Begin(t) \/ SendPayload(t) \/ SendHeaderFail(t) \/ SendPayloadFail(t)
            PROVE  torn => torn'
        BY <4>2 DEF Begin, SendHeader, SendPing, SendPayload, SendHeaderFail, SendPayloadFail, fault
      <4>3. CASE SendLoop \/ SendLoopConsume \/ RecvLoop \/ RecvLoopFail \/ DeliverFail \/ HandlePingFail
        BY <4>3 DEF SendLoop, SendLoopConsume, RecvLoop, RecvLoopFail, DeliverFail,
                    HandlePingFail, fault
      <4>4. CASE Process
        BY <4>4 DEF Process, ProcessReturn, ReadHdr, ResumeFrame, HandleData, Deliver, Skip,
                    EndData, HandlePing, fault
      <4>. QED
        BY <4>1, <4>2, <4>3, <4>4 DEF Next, Fail
    <3>. QED
      BY <1>3, <3>1
  <2>2. CASE rx' = "dead"
    BY <1>1, <2>1, <2>2, NextDead DEF IInv
  <2>3. CASE rx' # "dead"
    <3>1. rx # "dead"
      <4>1. CASE UNCHANGED vars
        BY <2>3, <4>1 DEF vars
      <4>2. CASE \E t \in Senders :
                   Begin(t) \/ SendPayload(t) \/ SendHeaderFail(t) \/ SendPayloadFail(t)
        BY <2>3, <4>2
        DEF Begin, SendHeader, SendPing, SendPayload, SendHeaderFail, SendPayloadFail
      <4>3. CASE SendLoop \/ SendLoopConsume
        BY <2>3, <4>3 DEF SendLoop, SendLoopConsume
      <4>4. CASE RecvLoop \/ RecvLoopFail \/ DeliverFail \/ HandlePingFail
        BY <4>4 DEF RecvLoop, RecvLoopFail, DeliverFail, HandlePingFail
      <4>5. CASE Process
        BY <4>5 DEF Process, ProcessReturn, ReadHdr, ResumeFrame, HandleData, Deliver, Skip,
                    EndData, HandlePing
      <4>. QED
        BY <4>1, <4>2, <4>3, <4>4, <4>5 DEF Next, Fail
    <3>2. Intact'
      BY <1>1, <1>3, <2>1, <2>3, <3>1, NextIntact DEF IInv
    <3>3. InOrder'
      BY <3>2 DEF Intact, Delivery, Pings, InOrder
    <3>. QED
      BY <1>1, <3>2, <3>3 DEF IInv
  <2>. QED
    BY <2>2, <2>3
<1>. QED
  BY <1>2, <1>3

\* The invariant holds in every behaviour.
THEOREM Invariance ==
  ASSUME OneSender, MissingFits
  PROVE  Spec => []IInv
<1>1. IInv /\ [Next]_vars => IInv'
  BY NextInv
<1>2. Init => IInv
  <2>1. Init => InOrder
    BY DEF Init, InOrder
  <2>. QED
    BY <2>1, InitInv DEF IInv, Intact
<1>. QED
  BY <1>1, <1>2, PTL DEF Spec

\* With one thread that queues frames, and nothing longer than a byte for streams
\* the receiver lacks, session_process reads every header from exactly the bytes
\* of one header, whatever the sizes of header, chunks and payloads, however the
\* bytes are cut on the way, and whichever call fails, except a payload behind its
\* header (mux.c:630), after which torn holds and nothing is claimed.
THEOREM AlignedCorrect ==
  ASSUME OneSender, MissingFits
  PROVE  Spec => []Aligned
<1>1. IInv => Aligned
  BY DEF IInv, Intact, Framing, Aligned, HeadersAligned
<1>. QED
  BY <1>1, Invariance, PTL

\* Under the same conditions, and with the same exception, each stream gets its
\* own bytes, in the order they were written and without a gap, also from a
\* receiver that fails half way, and PINGs are answered in their order.
THEOREM InOrderCorrect ==
  ASSUME OneSender, MissingFits
  PROVE  Spec => []InOrder
<1>1. IInv => InOrder
  BY DEF IInv
<1>. QED
  BY <1>1, Invariance, PTL

\* What is on its way is the trail without its first byte.
LEMMA TrailBehind ==
  ASSUME TypeInv, Placed
  PROVE  /\ OnItsWay \in Seq(SaneByte) /\ Len(Trail) = Len(OnItsWay) + 1
         /\ \A k \in 1 .. Len(OnItsWay) : Trail[k + 1] = OnItsWay[k]
<1>1. /\ recv_buf \in Seq(SaneByte) /\ wire \in Seq(SaneByte) /\ send_buf \in Seq(SaneByte)
      /\ unconsumed \in 0 .. Len(send_buf)
  BY DEF TypeInv, TypeOK, Sane
<1>2. PICK j : j = Join(recv_buf, wire, send_buf, unconsumed)
  OBVIOUS
<1>3. j \in Seq(SaneByte)
  BY <1>1, <1>2, JoinFacts
<1>4. Trail = << LastTaken >> \o j /\ OnItsWay = j
  BY <1>2 DEF Trail, Unsent, Join, OnItsWay
<1>5. LastTaken \in SaneByte
  <2>1. LastTaken = Trail[1] /\ Trail \in Seq(SaneByte) /\ 1 \in 1 .. Len(Trail)
    BY TrailFacts
  <2>. QED
    BY <2>1
<1>. QED
  BY <1>3, <1>4, <1>5, ConsFacts

\* Under the same conditions no byte of a known stream is lost and none is there
\* twice: what the stream has and what is on its way make up what was queued.
THEOREM ConservedCorrect ==
  ASSUME OneSender, MissingFits
  PROVE  Spec => []Conserved
<1>1. IInv => Conserved
  <2> SUFFICES ASSUME IInv, ~torn, rx # "dead", NEW s \in Known
               PROVE  /\ \A t \in Senders : {OnItsWay[k].i : k \in PayloadAt(s)}
                                               = Len(got[s]) + 1 .. Sent(t, s)
                      /\ \A j, k \in PayloadAt(s) : j < k => OnItsWay[j].i < OnItsWay[k].i
    BY DEF Conserved
  <2>1. TypeInv /\ Framing /\ Delivery
    BY DEF IInv, Intact
  <2>2. Placed
    BY <2>1 DEF Framing, Placed
  <2>3. PICK q : q = Trail
    OBVIOUS
  <2>4. PICK w \in Seq(SaneByte) : w = OnItsWay
    BY <2>1, <2>2, TrailBehind
  <2>5. Len(q) = Len(w) + 1 /\ \A k \in 1 .. Len(w) : q[k + 1] = w[k]
    BY <2>1, <2>2, <2>3, <2>4, TrailBehind
  <2>6. PICK g \in Nat : g = Len(got[s])
    BY <2>1 DEF TypeInv, TypeOK
  <2>7. PICK at : /\ at = PayloadAt(s)
                  /\ \A k : k \in at <=> /\ k \in 1 .. Len(w)
                                        /\ ~w[k].hdr /\ w[k].frame.sid = s
    <3>1. PayloadAt(s) = {k \in 1 .. Len(w) : ~w[k].hdr /\ w[k].frame.sid = s}
      BY <2>4 DEF PayloadAt
    <3>. QED
      BY <3>1, Zenon
  <2>8. Ascends(q, s, g)
    BY <2>1, <2>3, <2>6 DEF Delivery
  <2>9. ASSUME NEW k \in at
        PROVE  k + 1 \in 2 .. Len(q) /\ PayloadOf(q[k + 1], s) /\ q[k + 1] = w[k]
    <3>1. k \in 1 .. Len(w) /\ ~w[k].hdr /\ w[k].frame.sid = s
      BY <2>7
    <3>. QED
      BY <2>5, <3>1 DEF PayloadOf
  <2>10. ASSUME NEW t \in Senders
         PROVE  {w[k].i : k \in at} = g + 1 .. Sent(t, s)
    <3>1. PICK top \in Nat : top = Sent(t, s)
      <4>1. cur[t].lo \in Nat /\ written[s] \in Nat
        BY <2>1, SaneFacts, SizeFacts DEF TypeOK, TypeInv, Sane
      <4>. QED
        BY <4>1 DEF Sent
    <3>2. Covers(q, s, g, top)
      BY <2>1, <2>3, <2>6, <3>1 DEF Delivery
    <3>3. ASSUME NEW k \in at
          PROVE  w[k].i \in g + 1 .. top
      <4>1. g < w[k].i /\ w[k].i <= top
        BY <2>8, <2>9, <3>2 DEF Ascends, Covers
      <4>2. w[k] \in SaneByte
        BY <2>7
      <4>3. w[k].i \in Nat
        BY <4>2 DEF SaneByte
      <4>. QED
        BY <4>1, <4>3
    <3>4. ASSUME NEW x \in g + 1 .. top
          PROVE  \E k \in at : w[k].i = x
      <4>1. PICK j \in 2 .. Len(q) : PayloadOf(q[j], s) /\ q[j].i = x
        BY <3>2, <3>4 DEF Covers
      <4>2. j - 1 \in 1 .. Len(w) /\ (j - 1) + 1 = j
        BY <2>5
      <4>3. q[j] = w[j - 1]
        BY <2>5, <4>2
      <4>4. j - 1 \in at
        BY <2>7, <4>1, <4>2, <4>3 DEF PayloadOf
      <4>. QED
        BY <4>1, <4>3, <4>4
    <3>. QED
      BY <3>1, <3>3, <3>4
  <2>11. ASSUME NEW j \in at, NEW k \in at, j < k
         PROVE  w[j].i < w[k].i
    <3>1. /\ j \in 1 .. Len(w) /\ k \in 1 .. Len(w)
      BY <2>7
    <3>2. j + 1 < k + 1
      BY <2>11, <3>1
    <3>3. q[j + 1].i < q[k + 1].i
      BY <2>8, <2>9, <3>2 DEF Ascends
    <3>. QED
      BY <2>9, <3>3
  <2>. QED
    BY <2>4, <2>6, <2>7, <2>10, <2>11
<1>. QED
  BY <1>1, Invariance, PTL
=============================================================================
