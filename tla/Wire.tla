-------------------------------- MODULE Wire --------------------------------
(***************************************************************************)
(* How frames become bytes and frames again.  Threads of one session queue *)
(* headers and payloads into send_buf, each in a section of send_lock of   *)
(* its own; the loops of the program that owns the connection (send_loop   *)
(* and recv_loop of tests/main.c) move bytes in pieces of any size; and    *)
(* session_process of the other session puts the frames together again,    *)
(* across as many calls as it takes.                                       *)
(*                                                                         *)
(* A byte is known by the frame it belongs to and its place in it.  DATA   *)
(* carries the run [lo, hi) of the bytes written to its stream; a PING,    *)
(* which stands for the frames without payload, carries a number in its    *)
(* length field.                                                           *)
(***************************************************************************)
EXTENDS Integers, Sequences

CONSTANTS
  HdrSize,      \* sizeof(hdr)
  Chunk,        \* sizeof(buf) in session_handle_data and in send_loop
  Senders,      \* the threads that queue frames
  Sids, Known,  \* stream ids in use, and those in the receiver's tree
  Sizes,        \* per stream: the payload sizes that are sent
  MaxFrames,    \* bound: frames queued by each sender
  Failures      \* "may": a local operation fails once; "never": none does

ASSUME WireAssumption ==
  /\ HdrSize \in Nat \ {0} /\ Chunk \in Nat \ {0}
  /\ Sids \subseteq Nat /\ Known \subseteq Sids
  /\ Sizes \in [Sids -> SUBSET Nat]
  /\ MaxFrames \in Nat /\ Failures \subseteq {"may", "never"}

Frame == [type : {"DATA", "PING"}, sid : Nat, lo : Nat, hi : Nat]
hdr_length(f) == f.hi - f.lo

Byte == [hdr : BOOLEAN, frame : Frame, i : Nat]
Header(f) == [i \in 1 .. HdrSize |-> [hdr |-> TRUE, frame |-> f, i |-> i]]
Payload(f, n) == [i \in 1 .. n |-> [hdr |-> FALSE, frame |-> f, i |-> f.lo + i]]

VARIABLES
  send_buf, wire, recv_buf,
  unconsumed,                   \* bytes send_loop has sent and not yet consumed
  written,                      \* per stream: bytes given to stream_write
  pc, cur, count,               \* per sender: position, frame, frames begun
  rx,                           \* where session_process is
  hdr, new_frame, frame_remain,
  got,                          \* per known stream: the bytes appended to it
  pongs,                        \* the PING replies queued, by their number
  failure, torn                 \* torn: it left a header without its payload

sending == <<send_buf, unconsumed, written, pc, cur, count>>
parsing == <<hdr, new_frame, frame_remain, got, pongs>>
fault == <<failure, torn>>
vars == <<sending, wire, recv_buf, rx, parsing, fault>>

NoFrame == [type |-> "PING", sid |-> 0, lo |-> 0, hi |-> 0]

Init ==
  /\ send_buf = << >> /\ wire = << >> /\ recv_buf = << >>
  /\ unconsumed = 0 /\ written = [s \in Sids |-> 0]
  /\ pc = [t \in Senders |-> "idle"] /\ cur = [t \in Senders |-> NoFrame]
  /\ count = [t \in Senders |-> 0]
  /\ rx = "idle" /\ hdr = NoFrame /\ new_frame = TRUE /\ frame_remain = 0
  /\ got = [s \in Known |-> << >>] /\ pongs = << >>
  /\ failure \in Failures /\ torn = FALSE

\* One local operation of the run fails.
Fails == failure = "may" /\ failure' = "came"

-----------------------------------------------------------------------------
(* The senders: stream_write, and session_send_buf_write of a lone header. *)

\* stream_write queues the header in one section of send_lock ...
SendHeader(t, s, n) ==
  LET f == [type |-> "DATA", sid |-> s, lo |-> written[s], hi |-> written[s] + n]
  IN  /\ pc[t] = "idle" /\ count[t] < MaxFrames
      /\ send_buf' = send_buf \o Header(f)
      /\ written' = [written EXCEPT ![s] = @ + n]
      /\ cur' = [cur EXCEPT ![t] = f]
      /\ pc' = [pc EXCEPT ![t] = "payload"]
      /\ count' = [count EXCEPT ![t] = @ + 1]
      /\ UNCHANGED <<unconsumed, wire, recv_buf, rx, parsing, fault>>

\* ... and the payload in the next.
SendPayload(t) ==
  /\ pc[t] = "payload"
  /\ send_buf' = send_buf \o Payload(cur[t], hdr_length(cur[t]))
  /\ pc' = [pc EXCEPT ![t] = "idle"]
  /\ UNCHANGED <<unconsumed, wire, recv_buf, rx, parsing, written, cur, count, fault>>

\* bio_write fails after some of the payload, and the header is queued already:
\* stream_write returns -1 (mux.c:630) and the next call begins another frame.
SendPayloadFail(t) ==
  /\ pc[t] = "payload" /\ hdr_length(cur[t]) > 0 /\ Fails
  /\ \E k \in 0 .. hdr_length(cur[t]) - 1 :
       send_buf' = send_buf \o Payload(cur[t], k)
  /\ torn' = TRUE
  /\ pc' = [pc EXCEPT ![t] = "idle"]
  /\ UNCHANGED <<unconsumed, wire, recv_buf, rx, parsing, written, cur, count>>

\* A frame that is only a header.
SendPing(t) ==
  LET f == [type |-> "PING", sid |-> 0, lo |-> count[t], hi |-> count[t]]
  IN  /\ pc[t] = "idle" /\ count[t] < MaxFrames
      /\ send_buf' = send_buf \o Header(f)
      /\ count' = [count EXCEPT ![t] = @ + 1]
      /\ UNCHANGED <<unconsumed, wire, recv_buf, rx, parsing, written, pc, cur, fault>>

\* A header is one chunk of bio_write: when that fails the call returns -1 and the
\* buffer is as before.
SendHeaderFail(t) ==
  /\ pc[t] = "idle" /\ count[t] < MaxFrames /\ Fails
  /\ UNCHANGED <<sending, wire, recv_buf, rx, parsing, torn>>

Least(a, b) == IF a < b THEN a ELSE b

\* Mutant: all that was peeked is consumed, although the connection took less.
session_send_buf_consume_peeked(n) ==
  send_buf' = SubSeq(send_buf, Least(Chunk, Len(send_buf)) + 1, Len(send_buf))

session_send_buf_peek(n) == SubSeq(send_buf, 1, Least(n, Len(send_buf)))
session_send_buf_consume(n) == send_buf' = SubSeq(send_buf, n + 1, Len(send_buf))

\* send_loop: peek, and write as much of that as the connection takes ...
SendLoop ==
  /\ unconsumed = 0
  /\ \E r \in 1 .. Len(session_send_buf_peek(Chunk)) :
       /\ wire' = wire \o SubSeq(session_send_buf_peek(Chunk), 1, r)
       /\ unconsumed' = r
  /\ UNCHANGED <<send_buf, recv_buf, rx, parsing, written, pc, cur, count, fault>>

\* ... then consume that much, behind which others may have queued more.
SendLoopConsume ==
  /\ unconsumed > 0
  /\ session_send_buf_consume(unconsumed)
  /\ unconsumed' = 0
  /\ UNCHANGED <<wire, recv_buf, rx, parsing, written, pc, cur, count, fault>>

-----------------------------------------------------------------------------
(* The receiver: recv_loop and session_process. *)

\* recv_loop: session_recv_buf_write of what has arrived, then session_process.
RecvLoop ==
  /\ rx = "idle"
  /\ \E r \in 1 .. Len(wire) :
       /\ recv_buf' = recv_buf \o SubSeq(wire, 1, r)
       /\ wire' = SubSeq(wire, r + 1, Len(wire))
  /\ rx' = "process"
  /\ UNCHANGED <<sending, parsing, fault>>

\* session_recv_buf_write fails, which ends recv_loop.
RecvLoopFail ==
  /\ rx = "idle" /\ wire # << >> /\ Fails
  /\ rx' = "dead"
  /\ UNCHANGED <<sending, wire, recv_buf, parsing, torn>>

\* Mutant: the last byte of a header is not waited for.
EnoughForHdrLess == Len(recv_buf) >= HdrSize - 1

EnoughForHdr == Len(recv_buf) >= HdrSize

\* Nothing, or too little for a header: session_process returns.
ProcessReturn ==
  /\ rx = "process"
  /\ recv_buf = << >> \/ (new_frame /\ ~EnoughForHdr)
  /\ rx' = "idle"
  /\ UNCHANGED <<sending, wire, recv_buf, parsing, fault>>

\* Twelve bytes that are not one header mean anything: version, type, id and
\* length come from other bytes, and the rest of the connection is lost.
IsHeader(bytes) == bytes # << >> /\ bytes = Header(bytes[1].frame)

ReadHdr ==
  LET bytes == SubSeq(recv_buf, 1, Least(HdrSize, Len(recv_buf))) IN
  /\ rx = "process" /\ new_frame /\ recv_buf # << >> /\ EnoughForHdr
  /\ rx' = IF IsHeader(bytes) THEN "handle" ELSE "desync"
  /\ hdr' = IF IsHeader(bytes) THEN bytes[1].frame ELSE hdr
  /\ recv_buf' = SubSeq(recv_buf, HdrSize + 1, Len(recv_buf))
  /\ UNCHANGED <<sending, wire, new_frame, frame_remain, got, pongs, fault>>

\* session_process calls session_handle again for the frame it is in.
ResumeFrame ==
  /\ rx = "process" /\ ~new_frame /\ recv_buf # << >>
  /\ rx' = "payload"
  /\ UNCHANGED <<sending, wire, recv_buf, parsing, fault>>

\* A frame without data for a stream that exists ends with its flags.
HasPayload(f) == f.sid \notin Known \/ hdr_length(f) > 0

HandleData ==
  /\ rx = "handle" /\ hdr.type = "DATA"
  /\ \/ ~HasPayload(hdr) /\ rx' = "process" /\ UNCHANGED <<frame_remain, new_frame>>
     \/ /\ HasPayload(hdr)
        /\ frame_remain' = hdr_length(hdr) /\ new_frame' = FALSE /\ rx' = "payload"
  /\ UNCHANGED <<sending, wire, recv_buf, hdr, got, pongs, fault>>

\* Mutant: a chunk may reach beyond the frame.
sizeFull == Chunk

size == Least(frame_remain, Chunk)

\* Mutant: a chunk is taken for full although less has arrived.
TakenSize(n) == n

\* bio_peek and bio_consume give no more than there is.
Taken(n) == Least(n, Len(recv_buf))

\* bio_peek of the session's buffer, bio_write to the stream's.
AppendToStream(r) ==
  got' = [got EXCEPT ![hdr.sid] = @ \o SubSeq(recv_buf, 1, Least(r, Len(recv_buf)))]

\* Payload for a stream that exists: what has arrived is appended to it.
Deliver ==
  LET r == Taken(size) IN
  /\ rx = "payload" /\ frame_remain # 0 /\ recv_buf # << >> /\ hdr.sid \in Known
  /\ AppendToStream(r)
  /\ recv_buf' = SubSeq(recv_buf, r + 1, Len(recv_buf))
  /\ frame_remain' = frame_remain - r
  /\ UNCHANGED <<sending, wire, rx, hdr, new_frame, pongs, fault>>

\* bio_write to the stream fails, a chunk being all or nothing, or what fails is
\* stream_readable_notify, with the chunk in the stream and not yet consumed here.
DeliverFail ==
  /\ rx = "payload" /\ frame_remain # 0 /\ recv_buf # << >> /\ hdr.sid \in Known
  /\ Fails
  /\ UNCHANGED got \/ AppendToStream(Taken(size))
  /\ rx' = "dead"
  /\ UNCHANGED <<sending, wire, recv_buf, hdr, new_frame, frame_remain, pongs, torn>>

\* Payload for a missing stream: r is a whole chunk, whatever has arrived.
Skip ==
  /\ rx = "payload" /\ frame_remain # 0 /\ recv_buf # << >> /\ hdr.sid \notin Known
  /\ recv_buf' = SubSeq(recv_buf, size + 1, Len(recv_buf))
  /\ frame_remain' = frame_remain - size
  /\ UNCHANGED <<sending, wire, rx, hdr, new_frame, got, pongs, fault>>

\* The frame is complete, or more of it has to arrive.
EndData ==
  /\ rx = "payload" /\ (frame_remain = 0 \/ recv_buf = << >>)
  /\ new_frame' = (frame_remain = 0)
  /\ rx' = "process"
  /\ UNCHANGED <<sending, wire, recv_buf, hdr, frame_remain, got, pongs, fault>>

\* session_handle_ping queues the reply.
HandlePing ==
  /\ rx = "handle" /\ hdr.type = "PING"
  /\ pongs' = Append(pongs, hdr.lo)
  /\ rx' = "process"
  /\ UNCHANGED <<sending, wire, recv_buf, hdr, new_frame, frame_remain, got, fault>>

HandlePingFail ==
  /\ rx = "handle" /\ hdr.type = "PING" /\ Fails
  /\ rx' = "dead"
  /\ UNCHANGED <<sending, wire, recv_buf, parsing, torn>>

-----------------------------------------------------------------------------

Begin(t) ==
  SendPing(t) \/ \E s \in Sids : \E n \in Sizes[s] : SendHeader(t, s, n)

Process ==
  \/ ProcessReturn \/ ReadHdr \/ ResumeFrame \/ HandleData
  \/ Deliver \/ Skip \/ EndData \/ HandlePing

Fail ==
  \/ \E t \in Senders : SendHeaderFail(t) \/ SendPayloadFail(t)
  \/ RecvLoopFail \/ DeliverFail \/ HandlePingFail

Next ==
  \/ \E t \in Senders : Begin(t) \/ SendPayload(t)
  \/ SendLoop \/ SendLoopConsume \/ RecvLoop \/ Process \/ Fail

\* Both loops and the sender's call keep running.
Fairness ==
  /\ \A t \in Senders : WF_vars(SendPayload(t))
  /\ WF_vars(SendLoop \/ SendLoopConsume) /\ WF_vars(RecvLoop) /\ WF_vars(Process)

Spec == Init /\ [][Next]_vars
FairSpec == Spec /\ Fairness

-----------------------------------------------------------------------------
(* Properties. *)

\* Every variable keeps its type; frame_remain, a uint32_t, never wraps.
TypeOK ==
  /\ send_buf \in Seq(Byte) /\ wire \in Seq(Byte) /\ recv_buf \in Seq(Byte)
  /\ unconsumed \in 0 .. Len(send_buf) /\ written \in [Sids -> Nat]
  /\ pc \in [Senders -> {"idle", "payload"}]
  /\ cur \in [Senders -> Frame] /\ count \in [Senders -> Nat]
  /\ rx \in {"idle", "process", "handle", "payload", "desync", "dead"}
  /\ hdr \in Frame /\ new_frame \in BOOLEAN /\ frame_remain \in Nat
  /\ got \in [Known -> Seq(Byte)] /\ pongs \in Seq(Nat)
  /\ failure \in {"never", "may", "came"} /\ torn \in BOOLEAN

\* Every header is read from exactly the bytes of one header, in whatever
\* pieces it arrived: the receiver never takes payload for a header (mux.c:794).
\* False of the code when stream_write fails between a header and the end of its
\* payload (mux.c:630): payload_failure.cfg.
HeadersAligned == rx # "desync"

\* The same as long as no payload has failed behind its header: ~torn exempts
\* that one failure, at mux.c:630, and every other failure is included.
Aligned == ~torn => HeadersAligned

\* A stream gets its own bytes, in the order they were written, and nothing
\* from a header or from another stream; PINGs are answered in their order.
\* As in Aligned, ~torn exempts the failure at mux.c:630 and no other.
InOrder ==
  ~torn => /\ \A s \in Known : \A i \in 1 .. Len(got[s]) :
                ~got[s][i].hdr /\ got[s][i].frame.sid = s /\ got[s][i].i = i
           /\ \A i, j \in 1 .. Len(pongs) : i < j => pongs[i] < pongs[j]

\* What is between the senders and the streams: the bytes send_loop has sent and
\* not consumed are counted on the wire, not in send_buf.
OnItsWay ==
  (recv_buf \o wire) \o SubSeq(send_buf, unconsumed + 1, Len(send_buf))

\* How much of stream s is queued, less the frame whose payload t still holds.
Sent(t, s) == IF pc[t] = "payload" /\ cur[t].sid = s THEN cur[t].lo ELSE written[s]

\* Where on the way the payload of stream s is.
PayloadAt(s) == {j \in 1 .. Len(OnItsWay) :
                   ~OnItsWay[j].hdr /\ OnItsWay[j].frame.sid = s}

\* No byte is lost and none is there twice: the payload of a known stream that is
\* on its way is what was queued less what the stream has, in order, through the
\* peek and the later consume of send_loop, all cuts, and headers that failed.
\* ~torn exempts the failure at mux.c:630, "dead" a receiver that has given up.
Conserved ==
  ~torn /\ rx # "dead" =>
    \A s \in Known :
      /\ \A t \in Senders :
           {OnItsWay[k].i : k \in PayloadAt(s)} = Len(got[s]) + 1 .. Sent(t, s)
      /\ \A j, k \in PayloadAt(s) : j < k => OnItsWay[j].i < OnItsWay[k].i

\* If nothing fails, all that was queued arrives: every byte written to a known
\* stream is appended to it, and no frame is left in a buffer on the way.
AllArrives ==
  []<>(failure # "came" =>
         /\ send_buf = << >> /\ wire = << >> /\ recv_buf = << >> /\ rx = "idle"
         /\ \A s \in Known : Len(got[s]) = written[s])
=============================================================================
