-------------------------- MODULE StreamLifeProofs --------------------------
(***************************************************************************)
(* Proofs about the life of a stream (module Stream), in five parts:       *)
(*                                                                         *)
(*   - types and the bounded buffer, for any number of threads on an end;  *)
(*   - the assertion of stream_read, which takes one reader;               *)
(*   - opening: where the SYN is, and what each end knows of the stream by *)
(*     then (Life), from which no closed direction is ever reopened;       *)
(*   - closing: while nobody closes twice, every end can take the frame    *)
(*     that is under way (Clean), so no session ends over a close;         *)
(*   - the end of file: no byte of a live stream is lost (Whole) and a FIN *)
(*     is behind all of them (Silence), so EOF comes after the last byte.  *)
(*                                                                         *)
(* The last two rest on the flow-control ledger of StreamProofs as well.   *)
(***************************************************************************)
EXTENDS StreamProofs

-----------------------------------------------------------------------------
(* Types, for any number of threads on an end. *)

\* A frame whose run does not end before it begins, and whose credit is a uint32_t.
SmallFrame ==
  {f \in Frame : f.lo <= f.hi /\ (f.type = "WINDOW_UPDATE" => f.hi - f.lo < Word)}

Returns == {"none", "ok", "again", "eof", "error", "closed"}

LocalsOK ==
  /\ pc \in [Threads -> PCs] /\ arg \in [Threads -> Nat] /\ val \in [Threads -> Nat]
  /\ ret \in [Threads -> Returns]
  /\ \A t \in Writers : val[t] < Word

FlagsOK ==
  /\ state \in [Ends -> States]
  /\ readable \in [Ends -> BOOLEAN] /\ writeable \in [Ends -> BOOLEAN]
  /\ rx \in [Ends -> RxStates]
  /\ local_go_away \in [Ends -> BOOLEAN] /\ remote_go_away \in [Ends -> BOOLEAN]
  /\ backlog \in [Ends -> BOOLEAN] /\ fin \in [Ends -> Nat]

NumbersOK ==
  /\ send_window \in [Ends -> 0 .. Word - 1] /\ recv_window \in [Ends -> 0 .. Word - 1]
  /\ got \in [Ends -> Nat] /\ taken \in [Ends -> Nat] /\ out \in [Ends -> Nat]
  /\ granted \in [Ends -> Nat] /\ applied \in [Ends -> Nat]
  /\ frame_remain \in [Ends -> Nat]

ChanOK == chan \in [Ends -> Seq(SmallFrame)]
HdrOK == hdr \in [Updaters -> SmallFrame]

\* The rest of a frame that session_handle_data let in still fits the window.
RestFits == \A e \in Ends : frame_remain[e] <= recv_window[e]

TypeInv ==
  LocalsOK /\ FlagsOK /\ NumbersOK /\ ChanOK /\ HdrOK /\ RecvLedger /\ RestFits

\* Sequences of small frames are sequences of frames.
LEMMA SmallFrames ==
  /\ \A q \in Seq(SmallFrame) : q \in Seq(Frame)
  /\ \A f \in SmallFrame : f \in Frame /\ f.lo \in Nat /\ f.hi \in Nat /\ f.lo <= f.hi
<1>1. \A f \in SmallFrame : f \in Frame /\ f.lo \in Nat /\ f.hi \in Nat /\ f.lo <= f.hi
  BY DEF SmallFrame, Frame
<1>2. ASSUME NEW q \in Seq(SmallFrame)
      PROVE  q \in Seq(Frame)
  <2>1. q \in [1 .. Len(q) -> SmallFrame] /\ Len(q) \in Nat
    OBVIOUS
  <2>2. q \in [1 .. Len(q) -> Frame]
    BY <1>1, <2>1
  <2>. QED
    BY <2>1, <2>2
<1>. QED
  BY <1>1, <1>2

\* The parts make up the type invariant.
LEMMA TypeParts == TypeInv => TypeOK
<1> SUFFICES ASSUME TypeInv PROVE TypeOK
  OBVIOUS
<1>1. chan \in [Ends -> Seq(Frame)]
  BY SmallFrames DEF TypeInv, ChanOK
<1>2. hdr \in [Updaters -> Frame]
  BY SmallFrames DEF TypeInv, HdrOK
<1>3. LocalsOK /\ FlagsOK /\ NumbersOK
  BY DEF TypeInv
<1>. QED
  BY <1>1, <1>2, <1>3 DEF LocalsOK, FlagsOK, NumbersOK, RxStates, Returns, TypeOK

\* The frames that mux.c builds.
LEMMA FrameTypes ==
  /\ NoFrame \in SmallFrame
  /\ \A flags \in SUBSET Flags : hdr_encode("WINDOW_UPDATE", flags, 0, 0) \in SmallFrame
  /\ \A r \in {GO_AWAY_NORMAL, GO_AWAY_PROTO_ERR, GO_AWAY_INTERNAL_ERR} :
       GoAwayFrame(r) \in SmallFrame
  /\ \A flags \in SUBSET Flags, a \in Nat, n \in Nat :
       /\ hdr_encode("DATA", flags, a, a + n) \in SmallFrame
       /\ n < Word => hdr_encode("WINDOW_UPDATE", flags, a, a + n) \in SmallFrame
BY NumberFacts DEF NoFrame, GoAwayFrame, hdr_encode, SmallFrame, Frame, Types, Flags,
   GO_AWAY_NORMAL, GO_AWAY_PROTO_ERR, GO_AWAY_INTERNAL_ERR

\* What a step does to the queue of frames on their way to d.
Same(d) == chan'[d] = chan[d]
Took(d) == chan[d] # << >> /\ chan'[d] = Tail(chan[d])
Put(d, f) == f \in SmallFrame /\ chan'[d] = Append(chan[d], f)

\* A frame is queued for the other end.
LEMMA QueueStep ==
  ASSUME ChanOK, NEW e \in Ends, NEW f \in SmallFrame, Queue(e, f)
  PROVE  ChanOK' /\ Put(Other(e), f) /\ Same(e)
<1>1. Other(e) \in Ends /\ Other(e) # e
  BY EndFacts
<1>2. Append(chan[Other(e)], f) \in Seq(SmallFrame)
  BY <1>1 DEF ChanOK
<1>. QED
  BY <1>1, <1>2 DEF Queue, ChanOK, Put, Same

\* The receive thread takes a frame.
LEMMA DiscardStep ==
  ASSUME ChanOK, NEW e \in Ends, chan[e] # << >>, Discard(e)
  PROVE  ChanOK' /\ Took(e) /\ Same(Other(e))
<1>1. Other(e) \in Ends /\ Other(e) # e
  BY EndFacts
<1>2. Tail(chan[e]) \in Seq(SmallFrame)
  BY DEF ChanOK
<1>. QED
  BY <1>1, <1>2 DEF Discard, ChanOK, Took, Same

\* The receive thread takes a frame and answers it.
LEMMA ReplyStep ==
  ASSUME ChanOK, NEW e \in Ends, NEW f \in SmallFrame, chan[e] # << >>, Reply(e, f)
  PROVE  ChanOK' /\ Took(e) /\ Put(Other(e), f)
<1>1. Other(e) \in Ends /\ Other(e) # e
  BY EndFacts
<1>2. Tail(chan[e]) \in Seq(SmallFrame) /\ Append(chan[Other(e)], f) \in Seq(SmallFrame)
  BY <1>1 DEF ChanOK
<1>. QED
  BY <1>1, <1>2 DEF Reply, ChanOK, Took, Put

Reasons == {GO_AWAY_NORMAL, GO_AWAY_PROTO_ERR, GO_AWAY_INTERNAL_ERR}

\* session_go_away_for_reason queues a header, or fails to.
LEMMA GoAwayStep ==
  ASSUME ChanOK, FlagsOK, NEW e \in Ends, NEW r \in Reasons, GoAway(e, r)
  PROVE  /\ ChanOK' /\ local_go_away' \in [Ends -> BOOLEAN]
         /\ Same(e)
         /\ Put(Other(e), GoAwayFrame(r)) \/ (Failures /\ Same(Other(e)))
<1>1. GoAwayFrame(r) \in SmallFrame
  BY FrameTypes DEF Reasons
<1>2. local_go_away' \in [Ends -> BOOLEAN]
  BY DEF GoAway, FlagsOK
<1>3. CASE Queue(e, GoAwayFrame(r))
  BY <1>1, <1>2, <1>3, QueueStep
<1>4. CASE Failures /\ UNCHANGED chan
  BY <1>2, <1>4 DEF ChanOK, Same
<1>. QED
  BY <1>3, <1>4 DEF GoAway

\* The same, after the frame that is to blame has been taken.
LEMMA GoAwayReplyStep ==
  ASSUME ChanOK, FlagsOK, NEW e \in Ends, NEW r \in Reasons, chan[e] # << >>,
         GoAwayReply(e, r)
  PROVE  /\ ChanOK' /\ local_go_away' \in [Ends -> BOOLEAN]
         /\ Took(e)
         /\ Put(Other(e), GoAwayFrame(r)) \/ (Failures /\ Same(Other(e)))
<1>1. GoAwayFrame(r) \in SmallFrame
  BY FrameTypes DEF Reasons
<1>2. local_go_away' \in [Ends -> BOOLEAN]
  BY DEF GoAwayReply, FlagsOK
<1>3. CASE Reply(e, GoAwayFrame(r))
  BY <1>1, <1>2, <1>3, ReplyStep
<1>4. CASE Failures /\ Discard(e)
  BY <1>2, <1>4, DiscardStep
<1>. QED
  BY <1>3, <1>4 DEF GoAwayReply

\* Goto keeps the locals of every thread in type.
LEMMA GotoLocals ==
  ASSUME LocalsOK, NEW t \in Threads, NEW l \in PCs, Goto(t, l)
  PROVE  LocalsOK'
BY DEF LocalsOK, Goto

\* So does Return.
LEMMA ReturnLocals ==
  ASSUME LocalsOK, NEW t \in Threads, NEW r \in Returns, Return(t, r)
  PROVE  LocalsOK'
<1>1. /\ pc' \in [Threads -> PCs] /\ arg' \in [Threads -> Nat] /\ val' \in [Threads -> Nat]
      /\ ret' \in [Threads -> Returns]
  BY DEF LocalsOK, Return, PCs
<1>2. \A u \in Writers : u \in Threads /\ val'[u] < Word
  BY ThreadFacts, NumberFacts DEF LocalsOK, Return
<1>. QED
  BY <1>1, <1>2 DEF LocalsOK

\* What an untouched group of variables keeps.
LEMMA SameGroups ==
  /\ LocalsOK /\ UNCHANGED <<pc, arg, val, ret>> => LocalsOK'
  /\ FlagsOK /\ UNCHANGED <<state, ready, rx, local_go_away, remote_go_away, backlog, fin>>
       => FlagsOK'
  /\ NumbersOK /\ RecvLedger /\ RestFits /\ UNCHANGED <<window, buffer, frame_remain>>
       => NumbersOK' /\ RecvLedger' /\ RestFits'
  /\ ChanOK /\ UNCHANGED chan => ChanOK'
  /\ HdrOK /\ UNCHANGED hdr => HdrOK'
<1>1. LocalsOK /\ UNCHANGED <<pc, arg, val, ret>> => LocalsOK'
  BY DEF LocalsOK
<1>2. FlagsOK /\ UNCHANGED <<state, ready, rx, local_go_away, remote_go_away, backlog, fin>>
        => FlagsOK'
  BY DEF FlagsOK, ready
<1>3. NumbersOK /\ RecvLedger /\ RestFits /\ UNCHANGED <<window, buffer, frame_remain>>
        => NumbersOK' /\ RecvLedger' /\ RestFits'
  BY DEF NumbersOK, RecvLedger, RestFits, window, buffer
<1>4. ChanOK /\ UNCHANGED chan => ChanOK'
  BY DEF ChanOK
<1>5. HdrOK /\ UNCHANGED hdr => HdrOK'
  BY DEF HdrOK
<1>. QED
  BY <1>1, <1>2, <1>3, <1>4, <1>5

\* session_open and session_accept.
LEMMA BootType ==
  ASSUME TypeInv, BootStep \/ OpenNewFail \/ AcceptFail
  PROVE  TypeInv'
<1>0. /\ LocalsOK /\ FlagsOK /\ NumbersOK /\ ChanOK /\ HdrOK /\ RecvLedger /\ RestFits
      /\ "open" \in Threads /\ "accept" \in Threads /\ "s" \in Ends /\ "c" \in Ends
  BY ThreadFacts, EndFacts DEF TypeInv
<1>1. NumbersOK' /\ RecvLedger' /\ RestFits' /\ HdrOK'
  <2>1. UNCHANGED <<window, buffer, frame_remain, hdr>>
    BY DEF BootStep, OpenCheck, OpenNew, AcceptTake, OpenNewFail, AcceptFail, rxvars
  <2>. QED
    BY <1>0, <2>1, SameGroups
<1>2. LocalsOK'
  <2>1. CASE OpenCheck
    BY <1>0, <2>1 DEF OpenCheck, LocalsOK, PCs
  <2>2. CASE OpenNew \/ OpenNewFail \/ AcceptTake \/ AcceptFail
    BY <1>0, <2>2, GotoLocals DEF OpenNew, OpenNewFail, AcceptTake, AcceptFail, PCs
  <2>. QED
    BY <2>1, <2>2 DEF BootStep
<1>3. ChanOK' /\ local_go_away' \in [Ends -> BOOLEAN]
  <2>1. CASE AcceptFail
    BY <1>0, <2>1, GoAwayStep DEF AcceptFail, Reasons
  <2>2. CASE OpenCheck \/ OpenNew \/ OpenNewFail \/ AcceptTake
    <3>1. UNCHANGED <<chan, local_go_away>>
      BY <2>2 DEF OpenCheck, OpenNew, AcceptTake, OpenNewFail, session
    <3>. QED
      BY <1>0, <3>1, SameGroups DEF FlagsOK
  <2>. QED
    BY <2>1, <2>2 DEF BootStep
<1>4. FlagsOK'
  <2>1. UNCHANGED <<readable, writeable, rx, remote_go_away, fin>>
    BY DEF BootStep, OpenCheck, OpenNew, AcceptTake, OpenNewFail, AcceptFail, rxvars,
       session, ready
  <2>2. state' \in [Ends -> States] /\ backlog' \in [Ends -> BOOLEAN]
    BY <1>0 DEF BootStep, OpenCheck, OpenNew, AcceptTake, OpenNewFail, AcceptFail,
       session, FlagsOK, States
  <2>. QED
    BY <1>0, <1>3, <2>1, <2>2 DEF FlagsOK
<1>. QED
  BY <1>1, <1>2, <1>3, <1>4 DEF TypeInv

\* The flags and the state that stream_send_flags leaves.
LEMMA SendFlagsType ==
  ASSUME NEW st \in States
  PROVE  SentState(st) \in States /\ SendFlags(st) \in SUBSET Flags
BY DEF SentState, SendFlags, States, Flags

\* The steps of stream_write.
LEMMA WriteType ==
  ASSUME TypeInv, NEW t \in Writers,
         \/ WriteCall(t) \/ WriteCheck(t) \/ WriteWindow(t) \/ WriteSelect(t)
         \/ WriteSend(t) \/ WriteFail(t) \/ WriteReduce(t) \/ WriteFill(t)
         \/ WriteFillFail(t) \/ SelectFail(t)
  PROVE  TypeInv'
<1>0. /\ LocalsOK /\ FlagsOK /\ NumbersOK /\ ChanOK /\ HdrOK /\ RecvLedger /\ RestFits
      /\ t \in Threads /\ Home[t] \in Ends
  BY ThreadFacts DEF TypeInv
<1>1. PICK e \in Ends : e = Home[t] /\ Other(e) \in Ends
  BY <1>0, EndFacts
<1>2. HdrOK'
  BY <1>0, SameGroups DEF WriteCall, WriteCheck, WriteWindow, WriteSelect, WriteSend,
     WriteFail, WriteReduce, WriteFill, WriteFillFail, SelectFail
<1>3. LocalsOK'
  <2>1. CASE WriteCall(t)
    <3>1. PICK n \in Nat : arg' = [arg EXCEPT ![t] = n]
      BY <2>1, StreamAssumption DEF WriteCall, StreamAssumption
    <3>. QED
      BY <1>0, <2>1, <3>1 DEF WriteCall, LocalsOK, PCs
  <2>2. CASE \/ WriteCheck(t) \/ WriteSelect(t) \/ WriteFail(t) \/ WriteReduce(t)
             \/ WriteFill(t) \/ WriteFillFail(t) \/ SelectFail(t)
    BY <1>0, <2>2, GotoLocals, ReturnLocals DEF WriteCheck, WriteSelect, WriteFail,
       WriteReduce, WriteFill, WriteFillFail, SelectFail, PCs, Returns
  <2>3. CASE WriteWindow(t)
    <3>1. CASE val' = [val EXCEPT ![t] = send_window[e]] /\ pc' = [pc EXCEPT ![t] = "send"]
               /\ UNCHANGED <<arg, ret>>
      <4>1. send_window[e] \in Nat /\ send_window[e] < Word
        BY <1>0, NumberFacts DEF NumbersOK
      <4>2. \A u \in Writers : u \in Threads /\ val'[u] < Word
        BY <1>0, <3>1, <4>1, ThreadFacts DEF LocalsOK
      <4>3. /\ pc' \in [Threads -> PCs] /\ val' \in [Threads -> Nat]
            /\ arg' \in [Threads -> Nat] /\ ret' \in [Threads -> Returns]
        BY <1>0, <3>1, <4>1 DEF LocalsOK, PCs
      <4>. QED
        BY <4>2, <4>3 DEF LocalsOK
    <3>2. CASE Goto(t, "select") \/ Return(t, "again")
      BY <1>0, <3>2, GotoLocals, ReturnLocals DEF PCs, Returns
    <3>. QED
      BY <1>1, <2>3, <3>1, <3>2 DEF WriteWindow
  <2>4. CASE WriteSend(t)
    <3>0. val[t] \in Nat /\ arg[t] \in Nat /\ val[t] < Word
      BY <1>0 DEF LocalsOK
    <3>a. SendSize(t) \in Nat /\ SendSize(t) < Word
      BY <3>0, NumberFacts DEF SendSize, MIN
    <3>1. PICK n \in Nat : n = SendSize(t) /\ n < Word
      BY <3>a
    <3>2. /\ val' = [val EXCEPT ![t] = n] /\ pc' = [pc EXCEPT ![t] = "reduce"]
          /\ UNCHANGED <<arg, ret>>
      BY <2>4, <3>1 DEF WriteSend
    <3>3. \A u \in Writers : u \in Threads /\ val'[u] < Word
      BY <1>0, <3>1, <3>2, ThreadFacts DEF LocalsOK
    <3>4. /\ pc' \in [Threads -> PCs] /\ val' \in [Threads -> Nat]
          /\ arg' \in [Threads -> Nat] /\ ret' \in [Threads -> Returns]
      BY <1>0, <3>1, <3>2 DEF LocalsOK, PCs
    <3>. QED
      BY <3>3, <3>4 DEF LocalsOK
  <2>. QED
    BY <2>1, <2>2, <2>3, <2>4
<1>4. NumbersOK' /\ RecvLedger' /\ RestFits'
  <2>1. CASE \/ WriteCall(t) \/ WriteCheck(t) \/ WriteSelect(t) \/ WriteFail(t) \/ WriteWindow(t)
             \/ WriteFill(t) \/ WriteFillFail(t) \/ SelectFail(t)
    <3>1. UNCHANGED <<window, buffer, frame_remain>>
      BY <2>1 DEF WriteCall, WriteCheck, WriteWindow, WriteSelect, WriteFail, WriteFill,
         WriteFillFail, SelectFail, rxvars
    <3>. QED
      BY <1>0, <3>1, SameGroups
  <2>2. CASE WriteSend(t)
    <3>1. UNCHANGED <<window, got, taken, frame_remain>> /\ out' = [out EXCEPT ![e] = @ + SendSize(t)]
      BY <1>1, <2>2 DEF WriteSend, rxvars
    <3>2. SendSize(t) \in Nat
      BY <1>0 DEF SendSize, MIN, LocalsOK
    <3>. QED
      BY <1>0, <3>1, <3>2 DEF NumbersOK, RecvLedger, RestFits, window
  <2>3. CASE WriteReduce(t)
    <3>1. /\ UNCHANGED <<recv_window, granted, applied, buffer, frame_remain>>
          /\ send_window' = [send_window EXCEPT ![e] = Sub32(send_window[e], val[t])]
      BY <1>1, <2>3 DEF WriteReduce, rxvars
    <3>2. Sub32(send_window[e], val[t]) \in 0 .. Word - 1
      <4>1. /\ send_window[e] \in 0 .. Word - 1 /\ val[t] \in Nat /\ val[t] < Word
        BY <1>0 DEF NumbersOK, LocalsOK
      <4>. QED
        BY <4>1, NumberFacts DEF Sub32
    <3>. QED
      BY <1>0, <3>1, <3>2 DEF NumbersOK, RecvLedger, RestFits, buffer
  <2>. QED
    BY <2>1, <2>2, <2>3
<1>5. ChanOK' /\ local_go_away' \in [Ends -> BOOLEAN]
  <2>1. CASE \/ WriteCall(t) \/ WriteCheck(t) \/ WriteSelect(t) \/ WriteFail(t) \/ WriteWindow(t)
             \/ WriteFill(t) \/ WriteReduce(t) \/ SelectFail(t)
    <3>1. UNCHANGED <<chan, local_go_away>>
      BY <2>1 DEF WriteCall, WriteCheck, WriteWindow, WriteSelect, WriteFail, WriteFill,
         WriteReduce, SelectFail, session
    <3>. QED
      BY <1>0, <3>1, SameGroups DEF FlagsOK
  <2>2. CASE WriteFillFail(t)
    BY <1>0, <1>1, <2>2, GoAwayStep DEF WriteFillFail, Reasons
  <2>3. CASE WriteSend(t)
    <3>1. PICK last \in BOOLEAN :
            Queue(e, hdr_encode("DATA", SendFlags(state[e]) \cup (IF last THEN {"FIN"} ELSE {}),
                                out[e], out[e] + SendSize(t)))
      BY <1>1, <2>3 DEF WriteSend
    <3>2. SendSize(t) \in Nat /\ out[e] \in Nat /\ state[e] \in States
      BY <1>0 DEF SendSize, MIN, LocalsOK, NumbersOK, FlagsOK
    <3>3. SendFlags(state[e]) \cup (IF last THEN {"FIN"} ELSE {}) \in SUBSET Flags
      BY <3>2, SendFlagsType DEF Flags
    <3>4. PICK f \in SmallFrame :
            f = hdr_encode("DATA", SendFlags(state[e]) \cup (IF last THEN {"FIN"} ELSE {}),
                           out[e], out[e] + SendSize(t))
      BY <3>2, <3>3, FrameTypes
    <3>5. ChanOK'
      BY <1>0, <3>1, <3>4, QueueStep
    <3>6. UNCHANGED local_go_away
      BY <2>3 DEF WriteSend
    <3>. QED
      BY <1>0, <3>5, <3>6 DEF FlagsOK
  <2>. QED
    BY <2>1, <2>2, <2>3
<1>6. FlagsOK'
  <2>1. UNCHANGED <<readable, rx, remote_go_away, backlog>>
    BY DEF WriteCall, WriteCheck, WriteWindow, WriteSelect, WriteSend, WriteFail,
       WriteReduce, WriteFill, WriteFillFail, SelectFail, rxvars, session, ready
  <2>2. state' = state \/ state' = [state EXCEPT ![e] = SentState(@)]
    BY <1>1 DEF WriteCall, WriteCheck, WriteWindow, WriteSelect, WriteSend, WriteFail,
       WriteReduce, WriteFill, WriteFillFail, SelectFail
  <2>3. state' \in [Ends -> States]
    BY <1>0, <2>2, SendFlagsType DEF FlagsOK
  <2>4. writeable' = writeable \/ writeable' = [writeable EXCEPT ![e] = FALSE]
    BY <1>1 DEF WriteCall, WriteCheck, WriteWindow, WriteSelect, WriteSend, WriteFail,
       WriteReduce, WriteFill, WriteFillFail, SelectFail, ready
  <2>5. fin' = fin \/ fin' = [fin EXCEPT ![e] = fin[e] + 1]
    BY <1>0, <1>1 DEF WriteCall, WriteCheck, WriteWindow, WriteSelect, WriteSend, WriteFail,
       WriteReduce, WriteFill, WriteFillFail, SelectFail, session, FlagsOK
  <2>6. writeable' \in [Ends -> BOOLEAN]
    BY <1>0, <2>4 DEF FlagsOK
  <2>7. fin' \in [Ends -> Nat]
    BY <1>0, <2>5 DEF FlagsOK
  <2>. QED
    BY <1>0, <1>5, <2>1, <2>3, <2>6, <2>7 DEF FlagsOK
<1>. QED
  BY <1>2, <1>3, <1>4, <1>5, <1>6 DEF TypeInv

\* The steps of stream_read.
LEMMA ReadType ==
  ASSUME TypeInv, NEW t \in Readers,
         \/ ReadCall(t) \/ ReadCheck(t) \/ ReadPending(t) \/ ReadSelect(t) \/ ReadTake(t)
         \/ ReadClear(t) \/ ReadClearFail(t) \/ SelectFail(t)
  PROVE  TypeInv'
<1>0. /\ LocalsOK /\ FlagsOK /\ NumbersOK /\ ChanOK /\ HdrOK /\ RecvLedger /\ RestFits
      /\ t \in Threads /\ Home[t] \in Ends /\ t \notin Writers
  BY ThreadFacts DEF TypeInv
<1>1. PICK e \in Ends : e = Home[t]
  BY <1>0
<1>2. HdrOK' /\ ChanOK'
  BY <1>0, SameGroups DEF ReadCall, ReadCheck, ReadPending, ReadSelect, ReadTake,
     ReadClear, ReadClearFail, SelectFail
<1>3. /\ got[e] \in Nat /\ taken[e] \in Nat /\ taken[e] <= got[e] /\ granted[e] \in Nat
      /\ granted[e] <= taken[e] /\ arg[t] \in Nat
  BY <1>0 DEF NumbersOK, RecvLedger, LocalsOK
<1>4. PICK r \in Nat : r = MIN(bio_pending(e), arg[t]) /\ r <= got[e] - taken[e]
  <2>1. MIN(bio_pending(e), arg[t]) \in Nat /\ MIN(bio_pending(e), arg[t]) <= got[e] - taken[e]
    BY <1>3 DEF MIN, bio_pending
  <2>. QED
    BY <2>1
<1>5. LocalsOK'
  <2>1. CASE ReadCall(t)
    <3>1. PICK n \in Nat : arg' = [arg EXCEPT ![t] = n]
      BY <2>1, StreamAssumption DEF ReadCall, StreamAssumption
    <3>. QED
      BY <1>0, <2>1, <3>1 DEF ReadCall, LocalsOK, PCs
  <2>2. CASE \/ ReadCheck(t) \/ ReadPending(t) \/ ReadSelect(t) \/ ReadClear(t)
             \/ ReadClearFail(t) \/ SelectFail(t)
    BY <1>0, <2>2, GotoLocals, ReturnLocals DEF ReadCheck, ReadPending, ReadSelect,
       ReadClear, ReadClearFail, SelectFail, PCs, Returns
  <2>3. CASE ReadTake(t)
    <3>1. /\ val' = [val EXCEPT ![t] = r] /\ UNCHANGED <<arg, ret>>
          /\ pc' = [pc EXCEPT ![t] = IF bio_pending(e) = r THEN "clear" ELSE "update"]
      BY <1>1, <1>4, <2>3 DEF ReadTake
    <3>2. \A u \in Writers : u \in Threads /\ val'[u] = val[u]
      BY <1>0, <3>1, ThreadFacts DEF LocalsOK
    <3>. QED
      BY <1>0, <3>1, <3>2 DEF LocalsOK, PCs
  <2>. QED
    BY <2>1, <2>2, <2>3
<1>6. NumbersOK' /\ RecvLedger' /\ RestFits'
  <2>1. CASE \/ ReadCall(t) \/ ReadCheck(t) \/ ReadPending(t) \/ ReadSelect(t) \/ ReadClear(t)
             \/ ReadClearFail(t) \/ SelectFail(t)
    <3>1. UNCHANGED <<window, buffer, frame_remain>>
      BY <2>1 DEF ReadCall, ReadCheck, ReadPending, ReadSelect, ReadClear, ReadClearFail,
         SelectFail, rxvars
    <3>. QED
      BY <1>0, <3>1, SameGroups
  <2>2. CASE ReadTake(t)
    <3>1. UNCHANGED <<window, got, out, frame_remain>> /\ taken' = [taken EXCEPT ![e] = @ + r]
      BY <1>1, <1>4, <2>2 DEF ReadTake, rxvars
    <3>2. NumbersOK' /\ RestFits'
      BY <1>0, <3>1 DEF NumbersOK, RestFits, window
    <3>3. RecvLedger'
      <4> SUFFICES ASSUME NEW d \in Ends
                   PROVE  /\ recv_window[d] = MAX_STREAM_WINDOW_SIZE + granted[d] - got[d]
                          /\ granted[d] <= taken'[d] /\ taken'[d] <= got[d]
        BY <3>1 DEF RecvLedger, window
      <4>1. taken'[d] = IF d = e THEN taken[e] + r ELSE taken[d]
        BY <1>0, <3>1 DEF NumbersOK
      <4>2. /\ recv_window[d] = MAX_STREAM_WINDOW_SIZE + granted[d] - got[d]
            /\ granted[d] <= taken[d] /\ taken[d] <= got[d]
        BY <1>0 DEF RecvLedger
      <4>3. taken[e] + r <= got[e] /\ granted[e] <= taken[e] + r
        BY <1>3, <1>4
      <4>. QED
        BY <4>1, <4>2, <4>3
    <3>. QED
      BY <3>2, <3>3
  <2>. QED
    BY <2>1, <2>2
<1>7. FlagsOK'
  <2>1. UNCHANGED <<state, writeable, rx, local_go_away, remote_go_away, backlog, fin>>
    BY DEF ReadCall, ReadCheck, ReadPending, ReadSelect, ReadTake, ReadClear,
       ReadClearFail, SelectFail, rxvars, session, ready
  <2>2. readable' = readable \/ readable' = [readable EXCEPT ![e] = FALSE]
    BY <1>1 DEF ReadCall, ReadCheck, ReadPending, ReadSelect, ReadTake, ReadClear,
       ReadClearFail, SelectFail, ready
  <2>3. readable' \in [Ends -> BOOLEAN]
    BY <1>0, <2>2 DEF FlagsOK
  <2>. QED
    BY <1>0, <2>1, <2>3 DEF FlagsOK
<1>. QED
  BY <1>2, <1>5, <1>6, <1>7 DEF TypeInv

\* send_window_update.
LEMMA UpdateType ==
  ASSUME TypeInv, NEW t \in Updaters, WindowUpdate(t) \/ Announce(t) \/ AnnounceFail(t)
  PROVE  TypeInv'
<1>0. /\ LocalsOK /\ FlagsOK /\ NumbersOK /\ ChanOK /\ HdrOK /\ RecvLedger /\ RestFits
      /\ t \in Threads /\ Home[t] \in Ends /\ TypeOK /\ "c" \in Ends
  BY ThreadFacts, EndFacts, TypeParts DEF TypeInv
<1>1. PICK e \in Ends : e = Home[t]
  BY <1>0
<1>2. LocalsOK'
  BY <1>0, GotoLocals, ReturnLocals DEF WindowUpdate, Announce, AnnounceFail, PCs, Returns
<1>3. FlagsOK'
  <2>1. UNCHANGED <<ready, rx, local_go_away, remote_go_away, backlog, fin>>
    BY DEF WindowUpdate, Announce, AnnounceFail, rxvars, session
  <2>2. \/ state' = state \/ state' = [state EXCEPT ![e] = SentState(@)]
        \/ state' = [state EXCEPT !["c"] = "NONE"]
    BY <1>1 DEF WindowUpdate, Announce, AnnounceFail
  <2>3. state' \in [Ends -> States]
    BY <1>0, <2>2, SendFlagsType DEF FlagsOK, States
  <2>. QED
    BY <1>0, <2>1, <2>3 DEF FlagsOK, ready
<1>4. CASE Announce(t) \/ AnnounceFail(t)
  <2>1. UNCHANGED <<window, buffer, frame_remain>> /\ hdr' = [hdr EXCEPT ![t] = NoFrame]
    BY <1>4 DEF Announce, AnnounceFail, rxvars
  <2>2. NumbersOK' /\ RecvLedger' /\ RestFits'
    BY <1>0, <2>1, SameGroups
  <2>3. HdrOK'
    BY <1>0, <2>1, FrameTypes DEF HdrOK
  <2>4. ChanOK'
    <3>1. CASE Announce(t)
      <4>1. PICK f \in SmallFrame : f = hdr[t]
        BY <1>0 DEF HdrOK
      <4>. QED
        BY <1>0, <1>1, <3>1, <4>1, QueueStep DEF Announce
    <3>2. CASE AnnounceFail(t)
      BY <1>0, <3>2, SameGroups DEF AnnounceFail
    <3>. QED
      BY <1>4, <3>1, <3>2
  <2>. QED
    BY <1>2, <1>3, <2>2, <2>3, <2>4 DEF TypeInv
<1>5. CASE WindowUpdate(t)
  <2>1. ChanOK' /\ UNCHANGED <<send_window, applied, buffer, frame_remain>>
    BY <1>0, <1>5, SameGroups DEF WindowUpdate, rxvars
  <2>2. CASE UNCHANGED <<recv_window, granted, hdr>>
    <3>1. UNCHANGED <<window, buffer, frame_remain>> /\ UNCHANGED hdr
      BY <2>1, <2>2 DEF window
    <3>. QED
      BY <1>0, <1>2, <1>3, <2>1, <3>1, SameGroups DEF TypeInv
  <2>3. CASE /\ recv_window' = [recv_window EXCEPT ![e] = Add32(@, Delta(e))]
             /\ granted' = [granted EXCEPT ![e] = @ + Delta(e)]
             /\ hdr' = [hdr EXCEPT ![t] = hdr_encode("WINDOW_UPDATE", SendFlags(state[e]),
                                            granted[e], granted[e] + Delta(e))]
    <3>1. PICK d \in Nat : /\ d = Delta(e) /\ d = taken[e] - granted[e]
                           /\ Add32(recv_window[e], d) = recv_window[e] + d
                           /\ recv_window[e] + d \in 0 .. Word - 1
      BY <1>0, DeltaFacts
    <3>2. /\ recv_window[e] \in Nat /\ granted[e] \in Nat /\ taken[e] \in Nat /\ got[e] \in Nat
          /\ state[e] \in States /\ frame_remain[e] \in Nat
      BY <1>0, Numbers DEF FlagsOK
    <3>3. /\ recv_window' = [recv_window EXCEPT ![e] = recv_window[e] + d]
          /\ granted' = [granted EXCEPT ![e] = granted[e] + d]
      BY <2>3, <3>1
    <3>4. d < Word
      BY <3>1, <3>2, NumberFacts
    <3>5. hdr_encode("WINDOW_UPDATE", SendFlags(state[e]), granted[e], granted[e] + d) \in SmallFrame
      BY <3>2, <3>4, SendFlagsType, FrameTypes
    <3>6. HdrOK'
      BY <1>0, <2>3, <3>1, <3>5 DEF HdrOK
    <3>7. NumbersOK'
      BY <1>0, <2>1, <3>1, <3>2, <3>3 DEF NumbersOK, buffer
    <3>8. /\ recv_window'[e] = recv_window[e] + d /\ granted'[e] = granted[e] + d
          /\ \A x \in Ends : x # e => recv_window'[x] = recv_window[x] /\ granted'[x] = granted[x]
          /\ UNCHANGED <<got, taken, frame_remain>>
      BY <1>0, <2>1, <3>3 DEF NumbersOK, buffer
    <3>9. /\ recv_window[e] + d = MAX_STREAM_WINDOW_SIZE + (granted[e] + d) - got[e]
          /\ granted[e] + d <= taken[e] /\ taken[e] <= got[e]
      <4>1. recv_window[e] = MAX_STREAM_WINDOW_SIZE + granted[e] - got[e] /\ taken[e] <= got[e]
        BY <1>0 DEF RecvLedger
      <4>. QED
        BY <3>1, <3>2, <4>1, NumberFacts
    <3>10. RecvLedger'
      BY <1>0, <3>8, <3>9 DEF RecvLedger
    <3>11. frame_remain[e] <= recv_window[e] + d
      <4>1. frame_remain[e] <= recv_window[e]
        BY <1>0 DEF RestFits
      <4>. QED
        BY <3>2, <4>1
    <3>12. RestFits'
      BY <1>0, <3>8, <3>11 DEF RestFits
    <3>. QED
      BY <1>2, <1>3, <2>1, <3>6, <3>7, <3>10, <3>12 DEF TypeInv
  <2>. QED
    BY <1>1, <1>5, <2>2, <2>3 DEF WindowUpdate
<1>. QED
  BY <1>4, <1>5

\* The receive thread, in the steps that move no payload and no credit.
LEMMA RxControlType ==
  ASSUME TypeInv, NEW e \in Ends,
         \/ RxRefuse(e) \/ RxMissing(e) \/ RxProtocolError(e) \/ RxWindowExceeded(e)
         \/ RxNotify(e) \/ RxWriteableNotify(e) \/ RxGoAway(e)
         \/ RxFail(e) \/ RxIncomingFail(e) \/ RxRefuseFail(e)
  PROVE  TypeInv'
<1>0. /\ LocalsOK /\ FlagsOK /\ NumbersOK /\ ChanOK /\ HdrOK /\ RecvLedger /\ RestFits
      /\ TypeOK
  BY TypeParts DEF TypeInv
<1>1. UNCHANGED <<window, buffer, frame_remain, local>>
  BY DEF RxRefuse, RxMissing, RxProtocolError, RxWindowExceeded, RxNotify,
     RxWriteableNotify, RxGoAway, RxFail, RxIncomingFail, RxRefuseFail, rxvars
<1>2. LocalsOK' /\ NumbersOK' /\ HdrOK' /\ RecvLedger' /\ RestFits'
  BY <1>0, <1>1, SameGroups DEF local
<1>3. ChanOK' /\ local_go_away' \in [Ends -> BOOLEAN]
  <2>1. CASE RxRefuse(e)
    <3>1. /\ chan[e] # << >> /\ Reply(e, hdr_encode("WINDOW_UPDATE", {"RST"}, 0, 0))
          /\ UNCHANGED local_go_away
      BY <2>1 DEF RxRefuse, StreamFrame, Arrived, session
    <3>2. hdr_encode("WINDOW_UPDATE", {"RST"}, 0, 0) \in SmallFrame
      BY FrameTypes DEF Flags
    <3>. QED
      BY <1>0, <3>1, <3>2, ReplyStep DEF FlagsOK
  <2>2. CASE RxMissing(e) \/ RxGoAway(e) \/ RxRefuseFail(e)
    <3>1. chan[e] # << >> /\ Discard(e) /\ UNCHANGED local_go_away
      BY <2>2 DEF RxMissing, RxGoAway, RxRefuseFail, StreamFrame, Arrived, session
    <3>. QED
      BY <1>0, <3>1, DiscardStep DEF FlagsOK
  <2>3. CASE RxProtocolError(e) \/ RxWindowExceeded(e) \/ RxIncomingFail(e)
    <3>1. chan[e] # << >> /\ \E r \in Reasons : GoAwayReply(e, r)
      BY <2>3 DEF RxProtocolError, RxWindowExceeded, RxIncomingFail, StreamFrame, Arrived, Reasons
    <3>. QED
      BY <1>0, <3>1, GoAwayReplyStep
  <2>4. CASE RxFail(e)
    BY <1>0, <2>4, GoAwayStep DEF RxFail, Reasons
  <2>5. CASE RxNotify(e) \/ RxWriteableNotify(e)
    <3>1. UNCHANGED <<chan, local_go_away>>
      BY <2>5 DEF RxNotify, RxWriteableNotify, session
    <3>. QED
      BY <1>0, <3>1, SameGroups DEF FlagsOK
  <2>. QED
    BY <2>1, <2>2, <2>3, <2>4, <2>5
<1>4. rx' \in [Ends -> RxStates]
  BY <1>0 DEF RxRefuse, RxMissing, RxProtocolError, RxWindowExceeded, RxNotify,
     RxWriteableNotify, RxGoAway, RxFail, RxIncomingFail, RxRefuseFail, rxvars, FlagsOK, RxStates
<1>5. /\ state' \in [Ends -> States] /\ backlog' \in [Ends -> BOOLEAN]
      /\ readable' \in [Ends -> BOOLEAN] /\ writeable' \in [Ends -> BOOLEAN]
  <2>1. CASE RxWindowExceeded(e)
    BY <1>0, <2>1, IncomingType DEF RxWindowExceeded
  <2>2. CASE RxNotify(e) \/ RxWriteableNotify(e)
    <3>1. UNCHANGED <<state, backlog>>
      BY <2>2 DEF RxNotify, RxWriteableNotify, session
    <3>2. readable' = readable \/ readable' = [readable EXCEPT ![e] = TRUE]
      BY <2>2 DEF RxNotify, RxWriteableNotify, stream_readable_notify
    <3>3. writeable' = writeable \/ writeable' = [writeable EXCEPT ![e] = TRUE]
      BY <2>2 DEF RxNotify, RxWriteableNotify
    <3>4. readable' \in [Ends -> BOOLEAN]
      BY <1>0, <3>2 DEF FlagsOK
    <3>5. writeable' \in [Ends -> BOOLEAN]
      BY <1>0, <3>3 DEF FlagsOK
    <3>. QED
      BY <1>0, <3>1, <3>4, <3>5 DEF FlagsOK
  <2>3. CASE \/ RxRefuse(e) \/ RxMissing(e) \/ RxProtocolError(e)
             \/ RxGoAway(e) \/ RxFail(e) \/ RxIncomingFail(e) \/ RxRefuseFail(e)
    <3>1. UNCHANGED <<state, ready, backlog>>
      BY <2>3 DEF RxRefuse, RxMissing, RxProtocolError, RxGoAway, RxFail, RxIncomingFail,
         RxRefuseFail, session
    <3>. QED
      BY <1>0, <3>1 DEF FlagsOK, ready
  <2>. QED
    BY <2>1, <2>2, <2>3
<1>6. fin' = fin /\ remote_go_away' \in [Ends -> BOOLEAN]
  BY <1>0 DEF RxRefuse, RxMissing, RxProtocolError, RxWindowExceeded, RxNotify,
     RxWriteableNotify, RxGoAway, RxFail, RxIncomingFail, RxRefuseFail, session, FlagsOK
<1>7. FlagsOK'
  BY <1>0, <1>3, <1>4, <1>5, <1>6 DEF FlagsOK
<1>. QED
  BY <1>2, <1>3, <1>7 DEF TypeInv

\* The receive thread, where payload and credit move.
LEMMA RxMovesType ==
  ASSUME TypeInv, NEW e \in Ends, RxData(e) \/ RxChunk(e) \/ RxWindowUpdate(e)
  PROVE  TypeInv'
<1>0. /\ LocalsOK /\ FlagsOK /\ NumbersOK /\ ChanOK /\ HdrOK /\ RecvLedger /\ RestFits
      /\ TypeOK
  BY TypeParts DEF TypeInv
<1>1. LocalsOK' /\ HdrOK'
  <2>1. UNCHANGED local
    BY DEF RxData, RxChunk, RxWindowUpdate
  <2>. QED
    BY <1>0, <2>1, SameGroups DEF local
<1>2. /\ send_window[e] \in Nat /\ recv_window[e] \in Nat /\ send_window[e] < Word
      /\ recv_window[e] < Word /\ got[e] \in Nat /\ taken[e] \in Nat /\ granted[e] \in Nat
      /\ applied[e] \in Nat /\ frame_remain[e] \in Nat /\ frame_remain[e] <= recv_window[e]
  BY <1>0, Numbers DEF RestFits
<1>3. CASE RxChunk(e)
  <2>1. PICK r \in 1 .. ChunkSize(e) :
          /\ got' = [got EXCEPT ![e] = @ + r]
          /\ recv_window' = [recv_window EXCEPT ![e] = Sub32(@, r)]
          /\ frame_remain' = [frame_remain EXCEPT ![e] = @ - r]
    BY <1>3 DEF RxChunk
  <2>2. r \in Nat /\ r <= frame_remain[e]
    BY <1>2, <2>1, NumberFacts DEF ChunkSize, MIN
  <2>3. /\ Sub32(recv_window[e], r) = recv_window[e] - r /\ recv_window[e] - r \in 0 .. Word - 1
        /\ frame_remain[e] - r \in Nat /\ frame_remain[e] - r <= recv_window[e] - r
    BY <1>2, <2>2, NumberFacts DEF Sub32
  <2>4. /\ UNCHANGED <<send_window, granted, applied, taken, out, chan>>
        /\ UNCHANGED <<state, ready, local_go_away, remote_go_away, backlog, fin>>
        /\ rx' = [rx EXCEPT ![e] = "notify"]
    BY <1>3 DEF RxChunk, session
  <2>5. /\ recv_window' = [recv_window EXCEPT ![e] = recv_window[e] - r]
        /\ frame_remain' = [frame_remain EXCEPT ![e] = frame_remain[e] - r]
        /\ got' = [got EXCEPT ![e] = got[e] + r]
    BY <2>1, <2>3
  <2>6. NumbersOK'
    BY <1>0, <1>2, <2>2, <2>3, <2>4, <2>5 DEF NumbersOK
  <2>7. /\ recv_window'[e] = recv_window[e] - r /\ got'[e] = got[e] + r
        /\ frame_remain'[e] = frame_remain[e] - r
        /\ \A d \in Ends : d # e => /\ recv_window'[d] = recv_window[d] /\ got'[d] = got[d]
                                    /\ frame_remain'[d] = frame_remain[d]
    BY <1>0, <2>5 DEF NumbersOK
  <2>8. /\ recv_window[e] - r = MAX_STREAM_WINDOW_SIZE + granted[e] - (got[e] + r)
        /\ granted[e] <= taken[e] /\ taken[e] <= got[e] + r
    <3>1. /\ recv_window[e] = MAX_STREAM_WINDOW_SIZE + granted[e] - got[e]
          /\ granted[e] <= taken[e] /\ taken[e] <= got[e]
      BY <1>0 DEF RecvLedger
    <3>. QED
      BY <1>2, <2>2, <3>1, NumberFacts
  <2>9. RecvLedger'
    BY <1>0, <2>4, <2>7, <2>8 DEF RecvLedger
  <2>10. RestFits'
    BY <1>0, <2>3, <2>7 DEF RestFits
  <2>11. FlagsOK' /\ ChanOK'
    BY <1>0, <2>4, SameGroups DEF FlagsOK, ready, RxStates
  <2>. QED
    BY <1>1, <2>6, <2>9, <2>10, <2>11 DEF TypeInv
<1>4. CASE RxData(e) \/ RxWindowUpdate(e)
  <2>0. PICK f \in SmallFrame : f = Head(chan[e])
    <3>1. chan[e] \in Seq(SmallFrame) /\ chan[e] # << >>
      BY <1>0, <1>4 DEF RxData, RxWindowUpdate, Arrived, ChanOK
    <3>. QED
      BY <3>1
  <2>1. PICK n \in Nat : n = hdr_length(f) /\ (f.type = "WINDOW_UPDATE" => n < Word)
    <3>1. f.lo \in Nat /\ f.hi \in Nat /\ f.lo <= f.hi
      BY SmallFrames
    <3>2. f.hi - f.lo \in Nat /\ (f.type = "WINDOW_UPDATE" => f.hi - f.lo < Word)
      BY <3>1 DEF SmallFrame
    <3>. QED
      BY <3>2 DEF hdr_length
  <2>2. /\ state' \in [Ends -> States] /\ backlog' \in [Ends -> BOOLEAN]
        /\ readable' \in [Ends -> BOOLEAN] /\ writeable' \in [Ends -> BOOLEAN]
    BY <1>0, <1>4, IncomingType DEF RxData, RxWindowUpdate
  <2>3. ChanOK'
    <3>1. chan[e] # << >> /\ Discard(e)
      BY <1>4 DEF RxData, RxWindowUpdate, Arrived
    <3>. QED
      BY <1>0, <3>1, DiscardStep
  <2>4. FlagsOK'
    <3>1. rx' \in [Ends -> RxStates]
      BY <1>0, <1>4 DEF RxData, RxWindowUpdate, FlagsOK, RxStates
    <3>2. UNCHANGED <<local_go_away, remote_go_away, fin>>
      BY <1>4 DEF RxData, RxWindowUpdate
    <3>. QED
      BY <1>0, <2>2, <3>1, <3>2 DEF FlagsOK
  <2>5. CASE RxData(e)
    <3>1. /\ UNCHANGED <<window, buffer>> /\ frame_remain' = [frame_remain EXCEPT ![e] = n]
          /\ n <= recv_window[e]
      <4>1. f.type = "DATA" /\ ~WindowExceeded(e, f)
        BY <2>0, <2>5 DEF RxData, Arrived, Deliverable
      <4>2. ~(n > recv_window[e])
        BY <2>1, <4>1 DEF WindowExceeded
      <4>. QED
        BY <1>2, <2>0, <2>1, <2>5, <4>2 DEF RxData
    <3>2. NumbersOK'
      BY <1>0, <3>1 DEF NumbersOK, window, buffer
    <3>3. RecvLedger'
      BY <1>0, <3>1 DEF RecvLedger, window, buffer
    <3>4. RestFits'
      <4>1. \A d \in Ends : frame_remain'[d] = IF d = e THEN n ELSE frame_remain[d]
        BY <1>0, <3>1 DEF NumbersOK
      <4>. QED
        BY <1>0, <3>1, <4>1 DEF RestFits, window
    <3>. QED
      BY <1>1, <2>3, <2>4, <3>2, <3>3, <3>4 DEF TypeInv
  <2>6. CASE RxWindowUpdate(e)
    <3>1. /\ UNCHANGED <<recv_window, granted, buffer, frame_remain>>
          /\ send_window' = [send_window EXCEPT ![e] = Add32(@, n)]
          /\ applied' = [applied EXCEPT ![e] = @ + n] /\ n < Word
      BY <2>0, <2>1, <2>6 DEF RxWindowUpdate, Arrived
    <3>2. Add32(send_window[e], n) \in 0 .. Word - 1
      BY <1>2, <3>1, NumberFacts DEF Add32
    <3>3. NumbersOK'
      BY <1>0, <1>2, <3>1, <3>2 DEF NumbersOK, buffer
    <3>4. RecvLedger' /\ RestFits'
      BY <1>0, <3>1 DEF RecvLedger, RestFits, buffer
    <3>. QED
      BY <1>1, <2>3, <2>4, <3>3, <3>4 DEF TypeInv
  <2>. QED
    BY <1>4, <2>5, <2>6
<1>. QED
  BY <1>3, <1>4

\* Going away, and the peer's way of closing.
LEMMA PeerType ==
  ASSUME TypeInv, NEW e \in Ends, SessionGoAway(e) \/ PeerClose(e)
  PROVE  TypeInv'
<1>0. /\ LocalsOK /\ FlagsOK /\ NumbersOK /\ ChanOK /\ HdrOK /\ RecvLedger /\ RestFits
  BY DEF TypeInv
<1>1. UNCHANGED <<window, buffer, frame_remain, local, ready, rx, remote_go_away, backlog>>
  BY DEF SessionGoAway, PeerClose, rxvars
<1>2. LocalsOK' /\ NumbersOK' /\ HdrOK' /\ RecvLedger' /\ RestFits'
  BY <1>0, <1>1, SameGroups DEF local
<1>3. CASE SessionGoAway(e)
  <2>1. ChanOK' /\ local_go_away' \in [Ends -> BOOLEAN]
    BY <1>0, <1>3, GoAwayStep DEF SessionGoAway, Reasons
  <2>2. UNCHANGED <<state, fin>>
    BY <1>3 DEF SessionGoAway
  <2>. QED
    BY <1>0, <1>1, <1>2, <2>1, <2>2 DEF FlagsOK, ready, TypeInv
<1>4. CASE PeerClose(e)
  <2>1. PICK how \in Closing \ {"data-fin"} :
          /\ state' = [state EXCEPT ![e] = CASE how = "rst" -> "RESET"
                         [] how = "fin" /\ @ \in {"REMOTE_CLOSE", "CLOSED"} -> "CLOSED"
                         [] OTHER -> "LOCAL_CLOSE"]
          /\ Queue(e, hdr_encode("WINDOW_UPDATE", {IF how = "rst" THEN "RST" ELSE "FIN"}, 0, 0))
    BY <1>4 DEF PeerClose
  <2>2. hdr_encode("WINDOW_UPDATE", {IF how = "rst" THEN "RST" ELSE "FIN"}, 0, 0) \in SmallFrame
    <3>1. {IF how = "rst" THEN "RST" ELSE "FIN"} \in SUBSET Flags
      BY DEF Flags
    <3>. QED
      BY <3>1, FrameTypes
  <2>3. ChanOK'
    BY <1>0, <2>1, <2>2, QueueStep
  <2>4. state' \in [Ends -> States]
    BY <1>0, <2>1 DEF FlagsOK, States
  <2>5. fin' \in [Ends -> Nat] /\ UNCHANGED local_go_away
    BY <1>0, <1>4 DEF PeerClose, FlagsOK
  <2>. QED
    BY <1>0, <1>1, <1>2, <2>3, <2>4, <2>5 DEF FlagsOK, ready, TypeInv
<1>. QED
  BY <1>3, <1>4

\* Initially everything has its type.
LEMMA InitTypes == Init => TypeInv
<1> SUFFICES ASSUME Init PROVE TypeInv
  OBVIOUS
<1>1. LocalsOK
  BY ThreadFacts, NumberFacts DEF Init, LocalsOK, PCs, Returns
<1>2. FlagsOK
  BY DEF Init, FlagsOK, States, RxStates
<1>3. NumbersOK /\ RecvLedger /\ RestFits
  BY NumberFacts DEF Init, NumbersOK, RecvLedger, RestFits
<1>4. ChanOK
  BY DEF Init, ChanOK
<1>5. HdrOK
  BY FrameTypes DEF Init, HdrOK
<1>. QED
  BY <1>1, <1>2, <1>3, <1>4, <1>5 DEF TypeInv

\* A step of a thread belongs to stream_write, stream_read or send_window_update.
LEMMA ThreadCases ==
  ASSUME NEW t \in Threads, WriteCall(t) \/ ThreadStep(t) \/ ThreadFail(t)
  PROVE  \/ /\ t \in Writers /\ t \notin Updaters
            /\ \/ WriteCall(t) \/ WriteCheck(t) \/ WriteWindow(t) \/ WriteSelect(t)
               \/ WriteSend(t) \/ WriteFail(t) \/ WriteReduce(t) \/ WriteFill(t)
               \/ WriteFillFail(t) \/ SelectFail(t)
         \/ /\ t \in Readers
            /\ \/ ReadCall(t) \/ ReadCheck(t) \/ ReadPending(t) \/ ReadSelect(t) \/ ReadTake(t)
               \/ ReadClear(t) \/ ReadClearFail(t) \/ SelectFail(t)
         \/ t \in Updaters /\ (WindowUpdate(t) \/ Announce(t) \/ AnnounceFail(t))
<1>1. CASE t \in Writers
  <2>1. ~WindowUpdate(t) /\ ~Announce(t) /\ ~AnnounceFail(t) /\ t \notin Updaters
    BY <1>1, ThreadFacts DEF WindowUpdate, Announce, AnnounceFail
  <2>2. /\ ~ReadCall(t) /\ ~ReadCheck(t) /\ ~ReadPending(t) /\ ~ReadSelect(t)
        /\ ~ReadTake(t) /\ ~ReadClear(t) /\ ~ReadClearFail(t)
    BY <1>1, ThreadFacts DEF ReadCall, ReadCheck, ReadPending, ReadSelect, ReadTake,
       ReadClear, ReadClearFail
  <2>. QED
    BY <1>1, <2>1, <2>2 DEF ThreadStep, ThreadFail
<1>2. CASE t \notin Writers
  <2>1. /\ ~WriteCall(t) /\ ~WriteCheck(t) /\ ~WriteWindow(t) /\ ~WriteSelect(t)
        /\ ~WriteSend(t) /\ ~WriteReduce(t) /\ ~WriteFill(t) /\ ~WriteFail(t)
        /\ ~WriteFillFail(t)
    BY <1>2 DEF WriteCall, WriteCheck, WriteWindow, WriteSelect, WriteSend, WriteReduce,
       WriteFill, WriteFail, WriteFillFail
  <2>2. CASE WindowUpdate(t) \/ Announce(t) \/ AnnounceFail(t)
    BY <2>2 DEF WindowUpdate, Announce, AnnounceFail
  <2>3. CASE \/ ReadCall(t) \/ ReadCheck(t) \/ ReadPending(t) \/ ReadSelect(t)
             \/ ReadTake(t) \/ ReadClear(t) \/ ReadClearFail(t) \/ SelectFail(t)
    BY <1>2, <2>3 DEF ReadCall, ReadCheck, ReadPending, ReadSelect, ReadTake, ReadClear,
       ReadClearFail, SelectFail
  <2>. QED
    BY <2>1, <2>2, <2>3 DEF ThreadStep, ThreadFail
<1>. QED
  BY <1>1, <1>2

\* Every step keeps the types.
LEMMA NextTypes == TypeInv /\ [Next]_vars => TypeInv'
<1> SUFFICES ASSUME TypeInv, [Next]_vars PROVE TypeInv'
  OBVIOUS
<1>1. CASE UNCHANGED vars
  <2>1. /\ UNCHANGED <<pc, arg, val, ret>> /\ UNCHANGED hdr /\ UNCHANGED chan
        /\ UNCHANGED <<window, buffer, frame_remain>>
        /\ UNCHANGED <<state, ready, rx, local_go_away, remote_go_away, backlog, fin>>
    BY <1>1 DEF vars, rxvars, session, local
  <2>. QED
    BY <2>1, SameGroups DEF TypeInv
<1>2. CASE BootStep \/ OpenNewFail \/ AcceptFail
  BY <1>2, BootType
<1>3. ASSUME NEW t \in Threads, WriteCall(t) \/ ThreadStep(t) \/ ThreadFail(t)
      PROVE  TypeInv'
  BY <1>3, ThreadCases, WriteType, ReadType, UpdateType
<1>4. ASSUME NEW e \in Ends, RxStep(e) \/ RxFailStep(e)
      PROVE  TypeInv'
  BY <1>4, RxControlType, RxMovesType DEF RxStep, RxFailStep
<1>5. ASSUME NEW e \in Ends, SessionGoAway(e) \/ PeerClose(e)
      PROVE  TypeInv'
  BY <1>5, PeerType
<1>. QED
  BY <1>1, <1>2, <1>3, <1>4, <1>5 DEF Next

\* Every variable keeps its type, however many threads use an end and whatever
\* fails: recv_window stays below 2^32 without ever wrapping, and send_window is a
\* uint32_t although stream_write reduces it by a size that it computed before it
\* took the lock (mux.c:601, :638); that this does not wrap takes one writer, and
\* is part of FlowLedger.
THEOREM TypeCorrect == Spec => []TypeOK
<1>. QED
  BY InitTypes, NextTypes, TypeParts, PTL DEF Spec

\* Unread data and the open window never exceed the maximum, however many threads
\* use an end and whatever fails: the check against recv_window in
\* session_handle_data (mux.c:782) is enough, so that the subtraction in
\* send_window_update (mux.c:430) never wraps.
THEOREM BufferCorrect == Spec => []BufferFits
<1>1. TypeInv => BufferFits
  <2> SUFFICES ASSUME TypeInv, NEW e \in Ends
               PROVE  bio_pending(e) + recv_window[e] <= MAX_STREAM_WINDOW_SIZE
    BY DEF BufferFits
  <2>1. TypeOK /\ RecvLedger
    BY TypeParts DEF TypeInv
  <2>2. /\ recv_window[e] = MAX_STREAM_WINDOW_SIZE + granted[e] - got[e]
        /\ granted[e] <= taken[e]
    BY <2>1 DEF RecvLedger
  <2>3. granted[e] \in Nat /\ got[e] \in Nat /\ taken[e] \in Nat
    BY <2>1, Numbers
  <2>. QED
    BY <2>2, <2>3, NumberFacts DEF bio_pending
<1>. QED
  BY <1>1, InitTypes, NextTypes, PTL DEF Spec

-----------------------------------------------------------------------------
(* The assertion of stream_read. *)

OneReader == \A t, u \in Readers : Home[t] = Home[u] => t = u

\* A reader asked for something, found something, and took something.
Reading ==
  \A t \in Readers :
    /\ pc[t] # "idle" => arg[t] > 0
    /\ pc[t] = "take" => bio_pending(Home[t]) > 0
    /\ pc[t] \in {"clear", "update", "announce"} => val[t] > 0

\* A step that is no reader's only adds to what readers find.
LEMMA ReadingApart ==
  ASSUME TypeInv, TypeInv', Reading, UNCHANGED taken,
         \A u \in Readers : pc'[u] = pc[u] /\ arg'[u] = arg[u] /\ val'[u] = val[u],
         \A e \in Ends : got[e] <= got'[e]
  PROVE  Reading'
<1>1. \A e \in Ends : bio_pending(e) > 0 => bio_pending(e)' > 0
  <2> SUFFICES ASSUME NEW e \in Ends, bio_pending(e) > 0 PROVE bio_pending(e)' > 0
    OBVIOUS
  <2>1. got[e] \in Nat /\ got'[e] \in Nat /\ taken[e] \in Nat /\ got[e] <= got'[e]
    BY DEF TypeInv, NumbersOK
  <2>. QED
    BY <2>1 DEF bio_pending
<1>. QED
  BY <1>1, ThreadFacts DEF Reading

\* Steps of threads that do not read.
LEMMA ReadingOthers ==
  ASSUME TypeInv, TypeInv', Reading,
         \/ BootStep \/ OpenNewFail \/ AcceptFail
         \/ \E t \in Writers :
              \/ WriteCall(t) \/ WriteCheck(t) \/ WriteWindow(t) \/ WriteSelect(t)
              \/ WriteSend(t) \/ WriteFail(t) \/ WriteReduce(t) \/ WriteFill(t)
              \/ WriteFillFail(t) \/ SelectFail(t)
         \/ \E t \in Boot : WindowUpdate(t) \/ Announce(t) \/ AnnounceFail(t)
  PROVE  Reading'
<1>1. /\ UNCHANGED <<taken, got>>
  BY DEF BootStep, OpenCheck, OpenNew, AcceptTake, OpenNewFail, AcceptFail, WriteCall,
     WriteCheck, WriteWindow, WriteSelect, WriteSend, WriteFail, WriteReduce, WriteFill,
     WriteFillFail, SelectFail, WindowUpdate, Announce, AnnounceFail, buffer
<1>2. \E t \in Writers \cup Boot :
        \A u \in Threads : u # t => pc'[u] = pc[u] /\ arg'[u] = arg[u] /\ val'[u] = val[u]
  <2>0. LocalsOK /\ "open" \in Boot /\ "accept" \in Boot
    BY ThreadFacts, SMTT(20) DEF TypeInv
  <2>1. CASE BootStep \/ OpenNewFail \/ AcceptFail
    BY <2>0, <2>1, SMTT(20) DEF BootStep, OpenCheck, OpenNew, AcceptTake, OpenNewFail, AcceptFail, Goto,
       LocalsOK
  <2>2. ASSUME NEW t \in Writers,
               \/ WriteCall(t) \/ WriteCheck(t) \/ WriteWindow(t) \/ WriteSelect(t)
               \/ WriteSend(t) \/ WriteFail(t) \/ WriteReduce(t) \/ WriteFill(t)
               \/ WriteFillFail(t) \/ SelectFail(t)
        PROVE  \A u \in Threads : u # t => pc'[u] = pc[u] /\ arg'[u] = arg[u] /\ val'[u] = val[u]
    BY <2>0, <2>2 DEF WriteCall, WriteCheck, WriteWindow, WriteSelect, WriteSend, WriteFail,
       WriteReduce, WriteFill, WriteFillFail, SelectFail, Goto, Return, LocalsOK
  <2>3. ASSUME NEW t \in Boot, WindowUpdate(t) \/ Announce(t) \/ AnnounceFail(t)
        PROVE  \A u \in Threads : u # t => pc'[u] = pc[u] /\ arg'[u] = arg[u] /\ val'[u] = val[u]
    BY <2>0, <2>3 DEF WindowUpdate, Announce, AnnounceFail, Goto, Return, LocalsOK
  <2>. QED
    BY <2>1, <2>2, <2>3
<1>3. \A u \in Readers : pc'[u] = pc[u] /\ arg'[u] = arg[u] /\ val'[u] = val[u]
  BY <1>2, ThreadFacts
<1>4. \A e \in Ends : got[e] <= got'[e]
  BY <1>1 DEF TypeInv, NumbersOK
<1>. QED
  BY <1>1, <1>3, <1>4, ReadingApart

\* Steps of the receive threads and of the peer.
LEMMA ReadingRx ==
  ASSUME TypeInv, TypeInv', Reading, NEW e \in Ends,
         RxStep(e) \/ RxFailStep(e) \/ SessionGoAway(e) \/ PeerClose(e)
  PROVE  Reading'
<1>1. UNCHANGED <<taken, local>>
  BY DEF RxStep, RxFailStep, RxRefuse, RxMissing, RxProtocolError, RxWindowExceeded,
     RxData, RxChunk, RxNotify, RxWindowUpdate, RxWriteableNotify, RxGoAway, RxFail,
     RxIncomingFail, RxRefuseFail, SessionGoAway, PeerClose, buffer
<1>2. \A d \in Ends : got[d] \in Nat
  BY DEF TypeInv, NumbersOK
<1>3. got' = got \/ \E r \in 1 .. ChunkSize(e) : got' = [got EXCEPT ![e] = @ + r]
  BY DEF RxStep, RxFailStep, RxRefuse, RxMissing, RxProtocolError, RxWindowExceeded,
     RxData, RxChunk, RxNotify, RxWindowUpdate, RxWriteableNotify, RxGoAway, RxFail,
     RxIncomingFail, RxRefuseFail, SessionGoAway, PeerClose, buffer
<1>4. \A d \in Ends : got[d] <= got'[d]
  BY <1>2, <1>3 DEF TypeInv, NumbersOK
<1>. QED
  BY <1>1, <1>4, ReadingApart DEF local

\* The reader's own steps.
LEMMA ReadingOwn ==
  ASSUME TypeInv, TypeInv', Reading, OneReader, NEW t \in Readers,
         \/ ReadCall(t) \/ ReadCheck(t) \/ ReadPending(t) \/ ReadSelect(t) \/ ReadTake(t)
         \/ ReadClear(t) \/ ReadClearFail(t) \/ SelectFail(t)
         \/ WindowUpdate(t) \/ Announce(t) \/ AnnounceFail(t)
  PROVE  Reading'
<1>0. LocalsOK /\ NumbersOK /\ t \in Threads /\ t \notin Boot /\ Home[t] \in Ends
  BY ThreadFacts DEF TypeInv
<1>1. PICK e \in Ends : e = Home[t]
  BY <1>0
<1>2. \A u \in Threads : u # t => pc'[u] = pc[u] /\ arg'[u] = arg[u] /\ val'[u] = val[u]
  BY <1>0 DEF ReadCall, ReadCheck, ReadPending, ReadSelect, ReadTake, ReadClear, ReadClearFail,
     SelectFail, WindowUpdate, Announce, AnnounceFail, Goto, Return, LocalsOK
<1>3. /\ pc[t] # "idle" => arg[t] > 0
      /\ pc[t] = "take" => bio_pending(e) > 0
      /\ pc[t] \in {"clear", "update", "announce"} => val[t] > 0
      /\ arg[t] \in Nat
  BY <1>0, <1>1 DEF Reading, LocalsOK
<1>4. CASE ReadTake(t)
  <2>1. /\ taken' = [taken EXCEPT ![e] = @ + MIN(bio_pending(e), arg[t])] /\ got' = got
        /\ val' = [val EXCEPT ![t] = MIN(bio_pending(e), arg[t])] /\ arg' = arg
        /\ pc' = [pc EXCEPT ![t] = IF bio_pending(e) = MIN(bio_pending(e), arg[t])
                                   THEN "clear" ELSE "update"]
        /\ pc[t] = "take"
    BY <1>1, <1>4 DEF ReadTake
  <2>2. MIN(bio_pending(e), arg[t]) > 0
    BY <1>3, <2>1 DEF MIN
  <2>3. val'[t] > 0 /\ arg'[t] > 0 /\ pc'[t] \in {"clear", "update"}
    BY <1>0, <1>3, <2>1, <2>2 DEF LocalsOK
  <2>4. ASSUME NEW u \in Readers, u # t
        PROVE  bio_pending(Home[u])' = bio_pending(Home[u])
    <3>1. Home[u] # e /\ Home[u] \in Ends
      BY <1>1, <2>4, ThreadFacts DEF OneReader
    <3>. QED
      BY <1>0, <2>1, <3>1 DEF bio_pending, NumbersOK
  <2>5. \A u \in Readers : u \in Threads
    BY ThreadFacts
  <2>. QED
    BY <1>2, <2>3, <2>4, <2>5 DEF Reading
<1>5. CASE ~ReadTake(t)
  <2>1. UNCHANGED <<got, taken>>
    BY <1>5 DEF ReadCall, ReadCheck, ReadPending, ReadSelect, ReadClear, ReadClearFail,
     SelectFail, WindowUpdate, Announce, AnnounceFail, buffer
  <2>2. \A d \in Ends : bio_pending(d)' = bio_pending(d)
    BY <2>1 DEF bio_pending
  <2>3. /\ pc'[t] # "idle" => arg'[t] > 0
        /\ pc'[t] = "take" => bio_pending(e) > 0
        /\ pc'[t] \in {"clear", "update", "announce"} => val'[t] > 0
    <3>1. CASE ReadCall(t)
      <4>1. PICK n \in ReadSizes : arg' = [arg EXCEPT ![t] = n]
        BY <3>1 DEF ReadCall
      <4>2. n > 0 /\ pc'[t] = "check" /\ arg'[t] = n
        BY <1>0, <3>1, <4>1, StreamAssumption DEF ReadCall, LocalsOK, StreamAssumption
      <4>. QED
        BY <4>2
    <3>2. CASE ReadCheck(t) \/ ReadSelect(t) \/ ReadClearFail(t) \/ SelectFail(t) \/ Announce(t)
               \/ AnnounceFail(t)
      BY <1>0, <1>3, <3>2 DEF ReadCheck, ReadSelect, ReadClearFail, SelectFail, Announce,
         AnnounceFail, Goto, Return, LocalsOK
    <3>3. CASE ReadPending(t)
      BY <1>0, <1>1, <1>3, <3>3 DEF ReadPending, Goto, Return, LocalsOK, HasData
    <3>4. CASE ReadClear(t)
      BY <1>0, <1>3, <3>4 DEF ReadClear, Goto, LocalsOK
    <3>5. CASE WindowUpdate(t)
      <4>1. pc[t] = "update" /\ (Return(t, "ok") \/ Goto(t, "announce"))
        BY <3>5 DEF WindowUpdate
      <4>. QED
        BY <1>0, <1>3, <4>1 DEF Goto, Return, LocalsOK
    <3>. QED
      BY <1>5, <3>1, <3>2, <3>3, <3>4, <3>5
  <2>4. \A u \in Readers : u \in Threads /\ Home[u] \in Ends
    BY ThreadFacts
  <2>. QED
    BY <1>1, <1>2, <2>2, <2>3, <2>4 DEF Reading
<1>. QED
  BY <1>4, <1>5

\* With one reader per end, bio_read after a look at bio_pending finds what was
\* seen, although recv_lock was released in between: the assertion r > 0
\* (mux.c:558) holds.  A second reader breaks it.
THEOREM ReadCorrect ==
  ASSUME OneReader
  PROVE  Spec => []ReadTookData
<1>1. Init => Reading
  BY ThreadFacts DEF Init, Reading
<1>2. TypeInv /\ Reading /\ [Next]_vars => Reading'
  <2> SUFFICES ASSUME TypeInv, Reading, [Next]_vars PROVE Reading'
    OBVIOUS
  <2>0. TypeInv'
    BY NextTypes
  <2>1. CASE UNCHANGED vars
    <3>1. UNCHANGED <<taken, got, pc, arg, val>>
      BY <2>1 DEF vars, buffer, local
    <3>. QED
      BY <3>1 DEF Reading, bio_pending
  <2>2. CASE BootStep \/ OpenNewFail \/ AcceptFail
    BY <2>0, <2>2, ReadingOthers
  <2>3. ASSUME NEW t \in Threads, WriteCall(t) \/ ThreadStep(t) \/ ThreadFail(t)
        PROVE  Reading'
    <3>1. t \in Updaters => t \in Readers \/ t \in Boot
      BY DEF Updaters
    <3>. QED
      BY <2>0, <2>3, <3>1, ThreadCases, ReadingOthers, ReadingOwn
  <2>4. ASSUME NEW e \in Ends, RxStep(e) \/ RxFailStep(e) \/ SessionGoAway(e) \/ PeerClose(e)
        PROVE  Reading'
    BY <2>0, <2>4, ReadingRx
  <2>. QED
    BY <2>1, <2>2, <2>3, <2>4 DEF Next
<1>3. Reading => ReadTookData
  BY DEF Reading, ReadTookData
<1>. QED
  BY <1>1, <1>2, <1>3, InitTypes, NextTypes, PTL DEF Spec

-----------------------------------------------------------------------------
(* The life of the stream: opened once, announced once, known to the peer    *)
(* only from then on.                                                        *)

Silent(f) == f.type = "GO_AWAY" /\ f.flags = {}
OnlyGoAways(q) == \A i \in 1 .. Len(q) : Silent(q[i])
NoSyn(q) == \A i \in 1 .. Len(q) : "SYN" \notin q[i].flags
SynFirst(q) ==
  \A i \in 1 .. Len(q) : "SYN" \in q[i].flags =>
    /\ \A j \in 1 .. Len(q) : j < i => Silent(q[j])
    /\ \A j \in 1 .. Len(q) : j > i => "SYN" \notin q[j].flags

\* The peer has not seen the SYN: it was not queued, or it is on its way.
Unborn == pc["open"] # "done" \/ ~NoSyn(chan["s"])

\* Who is in a call has the stream, and so has who closed it.
Shape ==
  /\ pc["open"] \in {"idle", "new", "update", "announce", "done", "failed"}
  /\ pc["accept"] \in {"idle", "update", "announce", "done", "failed"}
  /\ \A t \in Writers \cup Readers : pc[t] # "idle" => HasStream(Home[t])
  /\ \A e \in Ends : fin[e] > 0 => e \in Foreign /\ HasStream(e)

\* The opening end, by the position of session_open.
Opening ==
  /\ pc["open"] \in {"idle", "new", "failed"} => state["c"] = "NONE"
  /\ pc["open"] = "update" => state["c"] = "INIT"
  /\ pc["open"] = "announce" => state["c"] = "SYN_SENT"
  /\ pc["open"] = "done" => state["c"] \notin {"NONE", "INIT"}
  /\ pc["open"] # "done" => OnlyGoAways(chan["s"]) /\ out["c"] = 0

\* The accepting end has nothing of a stream that is unborn, and a stream that
\* was accepted exists.
Birth ==
  /\ state["s"] # "INIT"
  /\ Unborn => /\ state["s"] = "NONE" /\ ~backlog["s"] /\ pc["accept"] \in {"idle", "failed"}
               /\ OnlyGoAways(chan["c"]) /\ out["s"] = 0
  /\ backlog["s"] \/ pc["accept"] \in {"update", "announce", "done"} => state["s"] # "NONE"
  /\ NoSyn(chan["c"]) /\ SynFirst(chan["s"])

\* The header that send_window_update is about to queue: only session_open sends SYN.
Headers ==
  \A t \in Updaters : pc[t] = "announce" =>
    /\ hdr[t].type = "WINDOW_UPDATE"
    /\ t = "open" => hdr[t].flags = {"SYN"}
    /\ t # "open" => hdr[t].flags \subseteq {"ACK"}

Life == Shape /\ Opening /\ Birth /\ Headers

\* A queue that grows.
LEMMA SynAppend ==
  ASSUME NEW q \in Seq(SmallFrame), NEW f \in SmallFrame, NEW r, r = Append(q, f)
  PROVE  /\ OnlyGoAways(q) /\ Silent(f) => OnlyGoAways(r)
         /\ "SYN" \notin f.flags => (NoSyn(r) <=> NoSyn(q))
         /\ SynFirst(q) /\ "SYN" \notin f.flags => SynFirst(r)
         /\ OnlyGoAways(q) => SynFirst(r)
<1>1. /\ r \in Seq(SmallFrame) /\ Len(r) = Len(q) + 1 /\ Len(q) \in Nat
      /\ \A i \in 1 .. Len(q) : r[i] = q[i]
      /\ r[Len(q) + 1] = f
  BY AppendFacts
<1>2. /\ \A i \in 1 .. Len(r) : i \in 1 .. Len(q) \/ i = Len(q) + 1
      /\ \A i \in 1 .. Len(q) : i \in 1 .. Len(r) /\ ~(i > Len(q) + 1) /\ i < Len(q) + 1
  BY <1>1
<1>3. OnlyGoAways(q) /\ Silent(f) => OnlyGoAways(r)
  BY <1>1, <1>2 DEF OnlyGoAways
<1>4. "SYN" \notin f.flags => (NoSyn(r) <=> NoSyn(q))
  BY <1>1, <1>2 DEF NoSyn
<1>5. SynFirst(q) /\ "SYN" \notin f.flags => SynFirst(r)
  <2> SUFFICES ASSUME SynFirst(q), "SYN" \notin f.flags, NEW i \in 1 .. Len(r),
                      "SYN" \in r[i].flags
               PROVE  /\ \A j \in 1 .. Len(r) : j < i => Silent(r[j])
                      /\ \A j \in 1 .. Len(r) : j > i => "SYN" \notin r[j].flags
    BY DEF SynFirst
  <2>1. i \in 1 .. Len(q)
    BY <1>1, <1>2
  <2>2. \A j \in 1 .. Len(r) : j < i => j \in 1 .. Len(q)
    BY <1>1, <2>1
  <2>. QED
    BY <1>1, <1>2, <2>1, <2>2 DEF SynFirst
<1>6. OnlyGoAways(q) => SynFirst(r)
  <2>1. ASSUME OnlyGoAways(q), NEW i \in 1 .. Len(r), "SYN" \in r[i].flags
        PROVE  /\ \A j \in 1 .. Len(r) : j < i => Silent(r[j])
               /\ \A j \in 1 .. Len(r) : j > i => "SYN" \notin r[j].flags
    <3>1. i = Len(q) + 1
      BY <1>1, <1>2, <2>1 DEF OnlyGoAways, Silent
    <3>2. \A j \in 1 .. Len(r) : ~(j > i) /\ (j < i => j \in 1 .. Len(q))
      BY <1>1, <3>1
    <3>. QED
      BY <1>1, <2>1, <3>2 DEF OnlyGoAways
  <2>. QED
    BY <2>1 DEF SynFirst
<1>. QED
  BY <1>3, <1>4, <1>5, <1>6

\* A queue that loses its head.
LEMMA SynTail ==
  ASSUME NEW q \in Seq(SmallFrame), q # << >>, NEW r, r = Tail(q), NEW f, f = Head(q)
  PROVE  /\ OnlyGoAways(q) => OnlyGoAways(r) /\ Silent(f)
         /\ NoSyn(q) => NoSyn(r) /\ "SYN" \notin f.flags
         /\ SynFirst(q) => SynFirst(r)
         /\ SynFirst(q) /\ "SYN" \in f.flags => NoSyn(r)
         /\ NoSyn(r) /\ "SYN" \notin f.flags => NoSyn(q)
         /\ SynFirst(q) /\ ~NoSyn(q) /\ ~Silent(f) => "SYN" \in f.flags
<1>1. /\ r \in Seq(SmallFrame) /\ Len(r) = Len(q) - 1 /\ Len(q) \in Nat \ {0}
      /\ \A i \in 1 .. Len(q) - 1 : r[i] = q[i + 1]
      /\ f = q[1]
  BY TailFacts
<1>2. /\ \A i \in 1 .. Len(r) : r[i] = q[i + 1] /\ i + 1 \in 1 .. Len(q) /\ i + 1 > 1
      /\ 1 \in 1 .. Len(q)
      /\ \A i \in 1 .. Len(q) : i = 1 \/ (i > 1 /\ 1 < i)
  BY <1>1
<1>3. \A i \in 1 .. Len(q) : i = 1 \/ (\E k \in 1 .. Len(r) : i = k + 1)
  <2>1. \A i \in 1 .. Len(q) : i = 1 \/ (i - 1 \in 1 .. Len(r) /\ i = (i - 1) + 1)
    BY <1>1
  <2>. QED
    BY <2>1
<1>4. OnlyGoAways(q) => OnlyGoAways(r) /\ Silent(f)
  BY <1>1, <1>2 DEF OnlyGoAways
<1>5. NoSyn(q) => NoSyn(r) /\ "SYN" \notin f.flags
  BY <1>1, <1>2 DEF NoSyn
<1>6. SynFirst(q) => SynFirst(r)
  <2>1. \A i, j \in 1 .. Len(r) : (j < i => j + 1 < i + 1) /\ (j > i => j + 1 > i + 1)
    BY <1>1
  <2>. QED
    BY <1>2, <2>1 DEF SynFirst
<1>7. SynFirst(q) /\ "SYN" \in f.flags => NoSyn(r)
  BY <1>1, <1>2 DEF SynFirst, NoSyn
<1>8. NoSyn(r) /\ "SYN" \notin f.flags => NoSyn(q)
  BY <1>1, <1>2, <1>3 DEF NoSyn
<1>9. SynFirst(q) /\ ~NoSyn(q) /\ ~Silent(f) => "SYN" \in f.flags
  BY <1>1, <1>2 DEF SynFirst, NoSyn
<1>. QED
  BY <1>4, <1>5, <1>6, <1>7, <1>8, <1>9

\* Steps that queue nothing but GO_AWAYs leave the SYN where it is.
LEMMA QuietChan ==
  ASSUME ChanOK, Opening, Birth,
         \A d \in Ends : Same(d) \/ \E f : Put(d, f) /\ Silent(f)
  PROVE  /\ \A d \in Ends : OnlyGoAways(chan[d]) => OnlyGoAways(chan'[d])
         /\ NoSyn(chan'["s"]) <=> NoSyn(chan["s"])
         /\ NoSyn(chan'["c"]) /\ SynFirst(chan'["s"])
<1>1. "c" \in Ends /\ "s" \in Ends
  BY EndFacts
<1>2. ASSUME NEW d \in Ends
      PROVE  /\ OnlyGoAways(chan[d]) => OnlyGoAways(chan'[d])
             /\ NoSyn(chan'[d]) <=> NoSyn(chan[d])
             /\ SynFirst(chan[d]) => SynFirst(chan'[d])
  <2>1. CASE Same(d)
    BY <2>1 DEF Same
  <2>2. ASSUME NEW f, Put(d, f), Silent(f)
        PROVE  /\ OnlyGoAways(chan[d]) => OnlyGoAways(chan'[d])
               /\ NoSyn(chan'[d]) <=> NoSyn(chan[d])
               /\ SynFirst(chan[d]) => SynFirst(chan'[d])
    <3>1. PICK q, r : q \in Seq(SmallFrame) /\ q = chan[d] /\ r = chan'[d]
      BY DEF ChanOK
    <3>2. f \in SmallFrame /\ r = Append(q, f) /\ "SYN" \notin f.flags
      BY <2>2, <3>1 DEF Put, Silent
    <3>3. /\ OnlyGoAways(q) /\ Silent(f) => OnlyGoAways(r)
          /\ "SYN" \notin f.flags => (NoSyn(r) <=> NoSyn(q))
          /\ SynFirst(q) /\ "SYN" \notin f.flags => SynFirst(r)
      BY <3>1, <3>2, SynAppend
    <3>. QED
      BY <2>2, <3>1, <3>2, <3>3
  <2>. QED
    BY <1>2, <2>1, <2>2
<1>. QED
  BY <1>1, <1>2 DEF Birth

\* The GO_AWAY that session_go_away_for_reason may queue.
LEMMA GoAwayQuiet ==
  ASSUME ChanOK, FlagsOK, NEW e \in Ends, NEW r \in Reasons, GoAway(e, r)
  PROVE  \A d \in Ends : Same(d) \/ \E f : Put(d, f) /\ Silent(f)
<1>1. Silent(GoAwayFrame(r))
  BY DEF GoAwayFrame, hdr_encode, Silent
<1>2. Same(e) /\ (Put(Other(e), GoAwayFrame(r)) \/ Same(Other(e)))
  BY GoAwayStep
<1>. QED
  BY <1>1, <1>2, EndFacts

\* A thread that is not in session_open or session_accept moves on in its call,
\* and nothing is queued but GO_AWAYs.
Private(t, l) ==
  /\ t \in Writers \cup Readers /\ pc' = [pc EXCEPT ![t] = l]
  /\ l # "idle" => HasStream(Home[t])
  /\ l # "announce"
  /\ UNCHANGED <<state, out, backlog, fin>>
  /\ \A u \in Updaters : u # t => hdr'[u] = hdr[u]

\* Such a step leaves the life of the stream alone.
LEMMA PrivateLife ==
  ASSUME TypeInv, Life, NEW t, NEW l, Private(t, l),
         \A d \in Ends : Same(d) \/ \E f : Put(d, f) /\ Silent(f)
  PROVE  Life'
<1>0. /\ LocalsOK /\ ChanOK /\ Shape /\ Opening /\ Birth /\ Headers
      /\ "c" \in Ends /\ "s" \in Ends /\ "open" \in Threads /\ "accept" \in Threads
  BY ThreadFacts, EndFacts DEF Life, TypeInv
<1>1. t \in Threads /\ t # "open" /\ t # "accept"
  BY ThreadFacts DEF Private
<1>2. /\ pc'["open"] = pc["open"] /\ pc'["accept"] = pc["accept"] /\ pc'[t] = l
      /\ \A u \in Threads : u # t => pc'[u] = pc[u]
      /\ UNCHANGED <<state, out, backlog, fin>>
  BY <1>0, <1>1 DEF Private, LocalsOK
<1>3. \A d : HasStream(d)' <=> HasStream(d)
  BY <1>2 DEF HasStream
<1>4. Shape'
  BY <1>0, <1>2, <1>3, ThreadFacts DEF Shape, Private
<1>5. /\ \A d \in Ends : OnlyGoAways(chan[d]) => OnlyGoAways(chan'[d])
      /\ NoSyn(chan'["s"]) <=> NoSyn(chan["s"])
      /\ NoSyn(chan'["c"]) /\ SynFirst(chan'["s"])
  BY <1>0, QuietChan
<1>6. Opening'
  BY <1>0, <1>2, <1>5 DEF Opening
<1>7. Birth'
  BY <1>0, <1>2, <1>5 DEF Birth, Unborn
<1>8. Headers'
  BY <1>0, <1>2, ThreadFacts DEF Headers, Private
<1>. QED
  BY <1>4, <1>6, <1>7, <1>8 DEF Life

\* The steps of stream_write and stream_read that are private.
LEMMA CallLife ==
  ASSUME TypeInv, Life, NEW t,
         \/ /\ t \in Writers
            /\ \/ WriteCall(t) \/ WriteCheck(t) \/ WriteWindow(t) \/ WriteSelect(t)
               \/ WriteReduce(t) \/ WriteFill(t) \/ WriteFillFail(t) \/ SelectFail(t)
         \/ /\ t \in Readers
            /\ \/ ReadCall(t) \/ ReadCheck(t) \/ ReadPending(t) \/ ReadSelect(t) \/ ReadTake(t)
               \/ ReadClear(t) \/ ReadClearFail(t) \/ SelectFail(t)
  PROVE  Life'
<1>0. /\ ChanOK /\ FlagsOK /\ Shape /\ t \notin Boot /\ Home[t] \in Ends
  BY ThreadFacts DEF Life, TypeInv
<1>1. pc[t] # "idle" => HasStream(Home[t])
  BY <1>0 DEF Shape
<1>2. UNCHANGED <<state, out, backlog, fin, hdr>>
  BY DEF WriteCall, WriteCheck, WriteWindow, WriteSelect, WriteReduce, WriteFill,
     WriteFillFail, SelectFail, ReadCall, ReadCheck, ReadPending, ReadSelect, ReadTake,
     ReadClear, ReadClearFail, buffer, session
<1>3. \E l : /\ pc' = [pc EXCEPT ![t] = l] /\ l # "announce"
             /\ l # "idle" => HasStream(Home[t])
  <2>1. CASE WriteCall(t) \/ ReadCall(t)
    BY <2>1 DEF WriteCall, ReadCall
  <2>2. CASE \/ WriteCheck(t) \/ WriteSelect(t) \/ WriteReduce(t) \/ WriteFill(t)
             \/ WriteFillFail(t) \/ SelectFail(t)
    BY <1>0, <1>1, <2>2 DEF WriteCheck, WriteSelect, WriteReduce, WriteFill,
       WriteFillFail, SelectFail, Goto, Return
  <2>3. CASE WriteWindow(t)
    BY <1>0, <1>1, <2>3 DEF WriteWindow, Goto, Return
  <2>4. CASE ReadCheck(t) \/ ReadPending(t) \/ ReadSelect(t) \/ ReadClear(t) \/ ReadClearFail(t)
    BY <1>0, <1>1, <2>4 DEF ReadCheck, ReadPending, ReadSelect, ReadClear, ReadClearFail,
       Goto, Return
  <2>5. CASE ReadTake(t)
    BY <1>0, <1>1, <2>5 DEF ReadTake
  <2>. QED
    BY <2>1, <2>2, <2>3, <2>4, <2>5
<1>4. \E l : Private(t, l)
  BY <1>2, <1>3 DEF Private
<1>5. \A d \in Ends : Same(d) \/ \E f : Put(d, f) /\ Silent(f)
  <2>1. CASE WriteFillFail(t)
    BY <1>0, <2>1, GoAwayQuiet DEF WriteFillFail, Reasons
  <2>2. CASE ~WriteFillFail(t)
    <3>1. UNCHANGED chan
      BY <2>2 DEF WriteCall, WriteCheck, WriteWindow, WriteSelect, WriteReduce, WriteFill,
         SelectFail, ReadCall, ReadCheck, ReadPending, ReadSelect, ReadTake, ReadClear,
         ReadClearFail
    <3>. QED
      BY <3>1 DEF Same
  <2>. QED
    BY <2>1, <2>2
<1>. QED
  BY <1>4, <1>5, PrivateLife

\* session_open and session_accept before send_window_update.
LEMMA BootLife ==
  ASSUME TypeInv, Life, BootStep \/ OpenNewFail \/ AcceptFail
  PROVE  Life'
<1>0. /\ LocalsOK /\ ChanOK /\ FlagsOK /\ Shape /\ Opening /\ Birth /\ Headers
      /\ "c" \in Ends /\ "s" \in Ends /\ "open" \in Threads /\ "accept" \in Threads
      /\ "open" \in Updaters /\ "accept" \in Updaters
  BY ThreadFacts, EndFacts DEF Life, TypeInv
<1>1. \A d \in Ends : Same(d) \/ \E f : Put(d, f) /\ Silent(f)
  <2>1. CASE AcceptFail
    BY <1>0, <2>1, GoAwayQuiet DEF AcceptFail, Reasons
  <2>2. CASE ~AcceptFail
    BY <2>2 DEF BootStep, OpenCheck, OpenNew, AcceptTake, OpenNewFail, Same
  <2>. QED
    BY <2>1, <2>2
<1>2. /\ \A d \in Ends : OnlyGoAways(chan[d]) => OnlyGoAways(chan'[d])
      /\ NoSyn(chan'["s"]) <=> NoSyn(chan["s"])
      /\ NoSyn(chan'["c"]) /\ SynFirst(chan'["s"])
  BY <1>0, <1>1, QuietChan
<1>3. UNCHANGED <<out, fin, hdr>>
  BY DEF BootStep, OpenCheck, OpenNew, AcceptTake, OpenNewFail, AcceptFail, buffer, session
<1>4. CASE OpenCheck \/ OpenNew \/ OpenNewFail
  <2>1. /\ pc["open"] \in {"idle", "new"} /\ pc'["open"] \in {"new", "update", "failed"}
        /\ \A u \in Threads : u # "open" => pc'[u] = pc[u]
        /\ UNCHANGED backlog
    BY <1>0, <1>4 DEF OpenCheck, OpenNew, OpenNewFail, Goto, LocalsOK, session
  <2>2. /\ state'["s"] = state["s"]
        /\ pc'["open"] = "update" => state'["c"] = "INIT"
        /\ pc'["open"] # "update" => state'["c"] = "NONE"
    BY <1>0, <1>4 DEF OpenCheck, OpenNew, OpenNewFail, Goto, LocalsOK, FlagsOK, Opening
  <2>3. \A d : HasStream(d)' <=> HasStream(d)
    BY <1>0, <2>1 DEF HasStream
  <2>4. Shape'
    BY <1>0, <1>3, <2>1, <2>3, ThreadFacts DEF Shape
  <2>5. Opening'
    BY <1>0, <1>2, <1>3, <2>1, <2>2 DEF Opening
  <2>6. Birth'
    BY <1>0, <1>2, <1>3, <2>1, <2>2 DEF Birth, Unborn
  <2>7. Headers'
    BY <1>0, <1>3, <2>1, ThreadFacts DEF Headers
  <2>. QED
    BY <2>4, <2>5, <2>6, <2>7 DEF Life
<1>5. CASE AcceptTake \/ AcceptFail
  <2>1. /\ pc["accept"] = "idle" /\ pc'["accept"] \in {"update", "failed"}
        /\ pc'["accept"] = "update" => backlog["s"] /\ backlog'["s"] = FALSE
        /\ pc'["accept"] = "failed" => UNCHANGED backlog
        /\ \A u \in Threads : u # "accept" => pc'[u] = pc[u]
        /\ UNCHANGED state
    BY <1>0, <1>5 DEF AcceptTake, AcceptFail, Goto, LocalsOK, FlagsOK
  <2>2. \A d : HasStream(d)' <=> HasStream(d)
    BY <1>0, <2>1 DEF HasStream
  <2>3. Shape'
    BY <1>0, <1>3, <2>1, <2>2, ThreadFacts DEF Shape
  <2>4. Opening'
    BY <1>0, <1>2, <1>3, <2>1 DEF Opening
  <2>5. Birth'
    BY <1>0, <1>2, <1>3, <2>1 DEF Birth, Unborn
  <2>6. Headers'
    BY <1>0, <1>3, <2>1, ThreadFacts DEF Headers
  <2>. QED
    BY <2>3, <2>4, <2>5, <2>6 DEF Life
<1>. QED
  BY <1>4, <1>5 DEF BootStep

\* Flags turn no state into NONE or INIT.
LEMMA FlagsLife ==
  ASSUME NEW st, NEW flags
  PROVE  /\ st # "NONE" => FlagsState(st, flags) # "NONE"
         /\ st # "INIT" => FlagsState(st, flags) # "INIT"
BY DEF FlagsState, AckState

\* The first frame of a queue that is not a GO_AWAY: the SYN, or the stream is born.
LEMMA StreamFrameLife ==
  ASSUME TypeInv, Life, NEW e \in Ends, StreamFrame(e)
  PROVE  /\ chan[e] # << >> /\ Head(chan[e]) \in SmallFrame
         /\ pc["open"] = "done"
         /\ e = "c" => ~Unborn /\ "SYN" \notin Head(chan[e]).flags /\ state["c"] # "NONE"
         /\ e = "s" /\ Unborn => "SYN" \in Head(chan[e]).flags
<1>0. /\ ChanOK /\ Opening /\ Birth /\ "c" \in Ends /\ "s" \in Ends
      /\ e = "c" \/ e = "s"
  BY EndFacts DEF TypeInv, Life, Ends
<1>1. PICK q, f : q \in Seq(SmallFrame) /\ q = chan[e] /\ f = Head(q)
  BY <1>0 DEF ChanOK
<1>2. q # << >> /\ f \in SmallFrame /\ ~Silent(f)
  <2>1. q # << >> /\ f.type # "GO_AWAY"
    BY <1>1 DEF StreamFrame, Arrived
  <2>2. f \in SmallFrame
    BY <1>1, <2>1
  <2>. QED
    BY <2>1, <2>2 DEF Silent
<1>3. /\ OnlyGoAways(q) => Silent(f)
      /\ NoSyn(q) => "SYN" \notin f.flags
      /\ SynFirst(q) /\ ~NoSyn(q) /\ ~Silent(f) => "SYN" \in f.flags
  BY <1>1, <1>2, SynTail
<1>4. CASE e = "c"
  <2>1. ~Unborn
    BY <1>0, <1>1, <1>2, <1>3, <1>4 DEF Birth
  <2>. QED
    BY <1>0, <1>1, <1>2, <1>3, <1>4, <2>1 DEF Birth, Unborn, Opening
<1>5. CASE e = "s"
  <2>1. pc["open"] = "done"
    BY <1>0, <1>1, <1>2, <1>3, <1>5 DEF Opening
  <2>. QED
    BY <1>0, <1>1, <1>2, <1>3, <1>5, <2>1 DEF Birth, Unborn
<1>. QED
  BY <1>0, <1>4, <1>5

\* The receive thread takes a frame; a reply has no SYN, and only the accepting
\* end replies with more than a GO_AWAY.
Takes(e) ==
  /\ Took(e)
  /\ Same(Other(e)) \/ \E g : /\ Put(Other(e), g) /\ "SYN" \notin g.flags
                              /\ e = "c" => Silent(g)

\* The SYN on its way, when the receive thread of e has taken a frame.
LEMMA TakesChan ==
  ASSUME TypeInv, Life, NEW e \in Ends, Takes(e)
  PROVE  /\ ~NoSyn(chan'["s"]) => ~NoSyn(chan["s"])
         /\ OnlyGoAways(chan["s"]) => OnlyGoAways(chan'["s"])
         /\ NoSyn(chan'["c"]) /\ SynFirst(chan'["s"])
         /\ e = "s" /\ "SYN" \in Head(chan[e]).flags => NoSyn(chan'["s"])
         /\ e = "c" => (NoSyn(chan'["s"]) <=> NoSyn(chan["s"]))
         /\ Same("c") \/ e = "c" => (OnlyGoAways(chan["c"]) => OnlyGoAways(chan'["c"]))
<1>0. /\ ChanOK /\ NoSyn(chan["c"]) /\ SynFirst(chan["s"]) /\ "c" \in Ends /\ "s" \in Ends
      /\ e = "c" \/ e = "s"
      /\ Other("c") = "s" /\ Other("s") = "c"
  BY EndFacts DEF TypeInv, Life, Birth, Ends, Other
<1>1. PICK q, r, f :
        q \in Seq(SmallFrame) /\ q = chan[e] /\ r = chan'[e] /\ f = Head(q)
  BY <1>0 DEF ChanOK
<1>2. q # << >> /\ r = Tail(q)
  BY <1>1 DEF Takes, Took
<1>3. /\ OnlyGoAways(q) => OnlyGoAways(r)
      /\ NoSyn(q) => NoSyn(r)
      /\ SynFirst(q) => SynFirst(r)
      /\ SynFirst(q) /\ "SYN" \in f.flags => NoSyn(r)
  BY <1>1, <1>2, SynTail
<1>4. PICK d, p, w : /\ d \in Ends /\ d = Other(e)
                       /\ p \in Seq(SmallFrame) /\ p = chan[d] /\ w = chan'[d]
  <2>1. Other(e) \in Ends
    BY EndFacts
  <2>. QED
    BY <1>0, <2>1 DEF ChanOK
<1>5. /\ NoSyn(w) <=> NoSyn(p)
      /\ SynFirst(p) => SynFirst(w)
      /\ e = "c" => (OnlyGoAways(p) => OnlyGoAways(w))
  <2>1. CASE Same(d)
    BY <1>4, <2>1 DEF Same
  <2>2. ASSUME NEW g, Put(d, g), "SYN" \notin g.flags, e = "c" => Silent(g)
        PROVE  /\ NoSyn(w) <=> NoSyn(p)
               /\ SynFirst(p) => SynFirst(w)
               /\ e = "c" => (OnlyGoAways(p) => OnlyGoAways(w))
    <3>1. g \in SmallFrame /\ w = Append(p, g)
      BY <1>4, <2>2 DEF Put
    <3>2. /\ OnlyGoAways(p) /\ Silent(g) => OnlyGoAways(w)
          /\ "SYN" \notin g.flags => (NoSyn(w) <=> NoSyn(p))
          /\ SynFirst(p) /\ "SYN" \notin g.flags => SynFirst(w)
      BY <1>4, <3>1, SynAppend
    <3>. QED
      BY <2>2, <3>2
  <2>. QED
    BY <1>4, <2>1, <2>2 DEF Takes
<1>6. CASE e = "c"
  BY <1>0, <1>1, <1>3, <1>4, <1>5, <1>6
<1>7. CASE e = "s"
  BY <1>0, <1>1, <1>3, <1>4, <1>5, <1>7 DEF Same
<1>. QED
  BY <1>0, <1>6, <1>7

\* A frame of the stream is taken.
LEMMA TakesLife ==
  ASSUME TypeInv, Life, NEW e \in Ends, StreamFrame(e), Takes(e),
         UNCHANGED <<out, fin, local>>,
         \/ UNCHANGED <<state, backlog>>
         \/ Incoming(e, Head(chan[e])) /\ Accepted(e, Head(chan[e]))
  PROVE  Life'
<1>0. /\ ChanOK /\ FlagsOK /\ Shape /\ Opening /\ Birth /\ Headers
      /\ "c" \in Ends /\ "s" \in Ends
      /\ e = "c" \/ e = "s"
  BY EndFacts DEF TypeInv, Life, Ends
<1>1. /\ pc["open"] = "done"
      /\ e = "c" => ~Unborn /\ "SYN" \notin Head(chan[e]).flags /\ state["c"] # "NONE"
      /\ e = "s" /\ Unborn => "SYN" \in Head(chan[e]).flags
  BY StreamFrameLife
<1>2. /\ ~NoSyn(chan'["s"]) => ~NoSyn(chan["s"])
      /\ NoSyn(chan'["c"]) /\ SynFirst(chan'["s"])
      /\ e = "s" /\ "SYN" \in Head(chan[e]).flags => NoSyn(chan'["s"])
  BY TakesChan
<1>3. UNCHANGED <<pc, hdr, fin>>
  BY DEF local
<1>4. ~Unborn'
  BY <1>0, <1>1, <1>2, <1>3 DEF Unborn
<1>5. /\ state'["c"] \notin {"NONE", "INIT"} /\ state'["s"] # "INIT"
      /\ backlog'["s"] \/ pc["accept"] \in {"update", "announce", "done"} => state'["s"] # "NONE"
  <2>1. CASE UNCHANGED <<state, backlog>>
    BY <1>0, <1>1, <2>1 DEF Opening, Birth
  <2>2. CASE Incoming(e, Head(chan[e])) /\ Accepted(e, Head(chan[e]))
    <3>1. PICK st : st = FoundState(e, Head(chan[e]))
      OBVIOUS
    <3>2. state'[e] = FlagsState(st, Head(chan[e]).flags) /\ \A d \in Ends : d # e =>
            state'[d] = state[d] /\ backlog'[d] = backlog[d]
      BY <1>0, <2>2, <3>1 DEF Incoming, FlagsOK
    <3>3. st # "NONE" /\ st # "INIT"
      <4>1. state[e] # "INIT"
        BY <1>0, <1>1 DEF Opening, Birth
      <4>2. "SYN" \notin Head(chan[e]).flags => state[e] # "NONE"
        BY <2>2 DEF Accepted, Missing
      <4>. QED
        BY <3>1, <4>1, <4>2 DEF FoundState
    <3>4. state'[e] \notin {"NONE", "INIT"}
      BY <3>2, <3>3, FlagsLife
    <3>5. CASE e = "c"
      BY <1>0, <3>2, <3>4, <3>5 DEF Birth
    <3>6. CASE e = "s"
      BY <1>0, <1>1, <3>2, <3>4, <3>6 DEF Opening
    <3>. QED
      BY <1>0, <3>5, <3>6
  <2>. QED
    BY <2>1, <2>2
<1>6. Shape'
  <2>1. \A d : HasStream(d)' <=> HasStream(d)
    BY <1>3 DEF HasStream
  <2>. QED
    BY <1>0, <1>3, <2>1 DEF Shape
<1>7. Opening'
  BY <1>1, <1>3, <1>5 DEF Opening
<1>8. Birth'
  BY <1>2, <1>3, <1>4, <1>5 DEF Birth
<1>9. Headers'
  BY <1>0, <1>3 DEF Headers
<1>. QED
  BY <1>6, <1>7, <1>8, <1>9 DEF Life

\* A step that changes nothing of the life but queues GO_AWAYs.
LEMMA QuietLife ==
  ASSUME TypeInv, Life, UNCHANGED <<state, out, backlog, fin, pc, hdr>>,
         \A d \in Ends : Same(d) \/ \E f : Put(d, f) /\ Silent(f)
  PROVE  Life'
<1>0. /\ ChanOK /\ Shape /\ Opening /\ Birth /\ Headers /\ "c" \in Ends /\ "s" \in Ends
  BY EndFacts DEF Life, TypeInv
<1>1. /\ \A d \in Ends : OnlyGoAways(chan[d]) => OnlyGoAways(chan'[d])
      /\ NoSyn(chan'["s"]) <=> NoSyn(chan["s"])
      /\ NoSyn(chan'["c"]) /\ SynFirst(chan'["s"])
  BY <1>0, QuietChan
<1>2. Shape' /\ Headers'
  BY <1>0 DEF Shape, Headers, HasStream
<1>3. Opening' /\ Birth'
  BY <1>0, <1>1 DEF Opening, Birth, Unborn
<1>. QED
  BY <1>2, <1>3 DEF Life

\* The receive thread.
LEMMA RxLife ==
  ASSUME TypeInv, Life, NEW e \in Ends, RxStep(e) \/ RxFailStep(e)
  PROVE  Life'
<1>0. /\ ChanOK /\ FlagsOK /\ Shape /\ Opening /\ Birth /\ Headers
      /\ "c" \in Ends /\ "s" \in Ends
      /\ e = "c" \/ e = "s"
      /\ Other("c") = "s" /\ Other("s") = "c"
  BY EndFacts DEF TypeInv, Life, Ends, Other
<1>1. UNCHANGED <<out, fin, local>>
  BY DEF RxStep, RxFailStep, RxRefuse, RxMissing, RxProtocolError, RxWindowExceeded,
     RxData, RxChunk, RxNotify, RxWindowUpdate, RxWriteableNotify, RxGoAway, RxFail,
     RxIncomingFail, RxRefuseFail, buffer, session
<1>2. CASE RxRefuse(e)
  <2>1. /\ StreamFrame(e) /\ "SYN" \in Head(chan[e]).flags /\ UNCHANGED <<state, backlog>>
        /\ Reply(e, hdr_encode("WINDOW_UPDATE", {"RST"}, 0, 0))
    BY <1>2 DEF RxRefuse, Refused, session
  <2>2. chan[e] # << >> /\ e # "c"
    BY <2>1, StreamFrameLife
  <2>3. PICK g : g \in SmallFrame /\ g = hdr_encode("WINDOW_UPDATE", {"RST"}, 0, 0)
    BY FrameTypes DEF Flags
  <2>4. "SYN" \notin g.flags
    BY <2>3 DEF hdr_encode
  <2>5. Took(e) /\ Put(Other(e), g)
    BY <1>0, <2>1, <2>2, <2>3, ReplyStep
  <2>6. Takes(e)
    BY <2>2, <2>4, <2>5 DEF Takes
  <2>. QED
    BY <1>1, <2>1, <2>6, TakesLife
<1>3. CASE RxMissing(e) \/ RxData(e) \/ RxWindowUpdate(e) \/ RxRefuseFail(e)
  <2>1. StreamFrame(e) /\ Discard(e)
    BY <1>3 DEF RxMissing, RxData, RxWindowUpdate, RxRefuseFail, StreamFrame
  <2>2. Takes(e)
    <3>1. chan[e] # << >>
      BY <2>1 DEF StreamFrame, Arrived
    <3>. QED
      BY <1>0, <2>1, <3>1, DiscardStep DEF Takes
  <2>3. \/ UNCHANGED <<state, backlog>>
        \/ Incoming(e, Head(chan[e])) /\ Accepted(e, Head(chan[e]))
    BY <1>3 DEF RxMissing, RxData, RxWindowUpdate, RxRefuseFail, Deliverable, session
  <2>. QED
    BY <1>1, <2>1, <2>2, <2>3, TakesLife
<1>4. CASE RxProtocolError(e) \/ RxWindowExceeded(e) \/ RxIncomingFail(e)
  <2>1. StreamFrame(e) /\ \E r \in Reasons : GoAwayReply(e, r)
    BY <1>4 DEF RxProtocolError, RxWindowExceeded, RxIncomingFail, StreamFrame, Reasons
  <2>2. Takes(e)
    <3>1. chan[e] # << >>
      BY <2>1 DEF StreamFrame, Arrived
    <3>2. PICK r \in Reasons : GoAwayReply(e, r)
      BY <2>1
    <3>3. PICK g : g = GoAwayFrame(r)
      OBVIOUS
    <3>4. Silent(g) /\ "SYN" \notin g.flags
      BY <3>3 DEF GoAwayFrame, hdr_encode, Silent
    <3>5. Took(e) /\ (Put(Other(e), g) \/ Same(Other(e)))
      BY <1>0, <3>1, <3>2, <3>3, GoAwayReplyStep
    <3>. QED
      BY <3>4, <3>5 DEF Takes
  <2>3. \/ UNCHANGED <<state, backlog>>
        \/ Incoming(e, Head(chan[e])) /\ Accepted(e, Head(chan[e]))
    BY <1>4 DEF RxProtocolError, RxWindowExceeded, RxIncomingFail
  <2>. QED
    BY <1>1, <2>1, <2>2, <2>3, TakesLife
<1>5. CASE RxGoAway(e)
  <2>1. chan[e] # << >> /\ Discard(e) /\ UNCHANGED <<state, backlog>>
    BY <1>5 DEF RxGoAway, Arrived
  <2>2. Took(e) /\ Same(Other(e))
    BY <1>0, <2>1, DiscardStep
  <2>3. Takes(e)
    BY <2>2 DEF Takes
  <2>4. Same("c") \/ e = "c"
    BY <1>0, <2>2
  <2>5. /\ ~NoSyn(chan'["s"]) => ~NoSyn(chan["s"])
        /\ OnlyGoAways(chan["s"]) => OnlyGoAways(chan'["s"])
        /\ OnlyGoAways(chan["c"]) => OnlyGoAways(chan'["c"])
        /\ NoSyn(chan'["c"]) /\ SynFirst(chan'["s"])
    BY <2>3, <2>4, TakesChan
  <2>6. Shape' /\ Headers'
    BY <1>0, <1>1 DEF Shape, Headers, HasStream, local
  <2>7. Opening' /\ Birth'
    BY <1>0, <1>1, <2>1, <2>5 DEF Opening, Birth, Unborn, local
  <2>. QED
    BY <2>6, <2>7 DEF Life
<1>6. CASE RxChunk(e) \/ RxNotify(e) \/ RxWriteableNotify(e)
  <2>1. UNCHANGED <<state, backlog, chan>>
    BY <1>6 DEF RxChunk, RxNotify, RxWriteableNotify, session
  <2>. QED
    BY <1>1, <2>1, QuietLife DEF Same, local
<1>7. CASE RxFail(e)
  <2>1. UNCHANGED <<state, backlog>> /\ GoAway(e, GO_AWAY_INTERNAL_ERR)
    BY <1>7 DEF RxFail
  <2>2. \A d \in Ends : Same(d) \/ \E f : Put(d, f) /\ Silent(f)
    BY <1>0, <2>1, GoAwayQuiet DEF Reasons
  <2>. QED
    BY <1>1, <2>1, <2>2, QuietLife DEF local
<1>. QED
  BY <1>2, <1>3, <1>4, <1>5, <1>6, <1>7 DEF RxStep, RxFailStep

\* session_go_away changes nothing of the stream.
LEMMA GoAwayLife ==
  ASSUME TypeInv, Life, NEW e \in Ends, SessionGoAway(e)
  PROVE  Life'
<1>1. GoAway(e, GO_AWAY_NORMAL) /\ UNCHANGED <<state, out, backlog, fin, pc, hdr>>
  BY DEF SessionGoAway, buffer, local
<1>2. ChanOK /\ FlagsOK
  BY DEF TypeInv
<1>3. \A d \in Ends : Same(d) \/ \E f : Put(d, f) /\ Silent(f)
  BY <1>1, <1>2, GoAwayQuiet DEF Reasons
<1>. QED
  BY <1>1, <1>3, QuietLife

\* The application of e has the stream, or session_accept is about to return it.
Holds(e) ==
  /\ e = "c" => pc["open"] = "done"
  /\ e = "s" => pc["accept"] \in {"update", "announce", "done"}

\* Who holds the stream has one that its peer knows, or will learn of first.
LEMMA Holder ==
  ASSUME Life, NEW e \in Ends, Holds(e)
  PROVE  /\ state[e] \notin {"NONE", "INIT"}
         /\ e = "s" => ~Unborn
BY DEF Life, Opening, Birth, Holds, Ends

\* A thread inside a call holds the stream.
LEMMA CallerHolds ==
  ASSUME Life, NEW t \in Threads \ {"open"}, pc[t] # "idle",
         t = "accept" => pc[t] \in {"update", "announce"}
  PROVE  Home[t] \in Ends /\ Holds(Home[t])
<1>1. t = "accept" \/ t \in Writers \cup Readers
  BY ThreadFacts DEF Boot, Threads, Updaters
<1>2. CASE t = "accept"
  BY <1>2, StreamAssumption DEF StreamAssumption, Holds, Ends
<1>3. CASE t \in Writers \cup Readers
  BY <1>3, ThreadFacts DEF Life, Shape, HasStream, Holds, Ends
<1>. QED
  BY <1>1, <1>2, <1>3

\* A frame without SYN that a holder queues.
LEMMA HolderSends ==
  ASSUME TypeInv, Life, NEW e \in Ends, Holds(e),
         (\A d \in Ends : Same(d)) \/ (\E f : Put(Other(e), f) /\ Same(e) /\ "SYN" \notin f.flags)
  PROVE  /\ NoSyn(chan'["c"]) /\ SynFirst(chan'["s"])
         /\ NoSyn(chan'["s"]) <=> NoSyn(chan["s"])
         /\ pc["open"] # "done" => OnlyGoAways(chan'["s"])
         /\ Unborn => OnlyGoAways(chan'["c"])
<1>0. /\ ChanOK /\ NoSyn(chan["c"]) /\ SynFirst(chan["s"]) /\ "c" \in Ends /\ "s" \in Ends
      /\ e = "c" \/ e = "s"
      /\ Other("c") = "s" /\ Other("s") = "c"
      /\ pc["open"] # "done" => OnlyGoAways(chan["s"])
      /\ Unborn => OnlyGoAways(chan["c"])
  BY EndFacts DEF TypeInv, Life, Opening, Birth, Ends, Other
<1>1. CASE \A d \in Ends : Same(d)
  BY <1>0, <1>1 DEF Same
<1>2. ASSUME NEW f, Put(Other(e), f), Same(e), "SYN" \notin f.flags
      PROVE  /\ NoSyn(chan'["c"]) /\ SynFirst(chan'["s"])
             /\ NoSyn(chan'["s"]) <=> NoSyn(chan["s"])
             /\ pc["open"] # "done" => OnlyGoAways(chan'["s"])
             /\ Unborn => OnlyGoAways(chan'["c"])
  <2>1. PICK d, q, r : /\ d \in Ends /\ d = Other(e)
                       /\ q \in Seq(SmallFrame) /\ q = chan[d] /\ r = chan'[d]
    BY <1>0 DEF ChanOK
  <2>2. f \in SmallFrame /\ r = Append(q, f)
    BY <1>2, <2>1 DEF Put
  <2>3. (NoSyn(r) <=> NoSyn(q)) /\ (SynFirst(q) => SynFirst(r))
    BY <1>2, <2>1, <2>2, SynAppend
  <2>4. e = "c" => pc["open"] = "done"
    BY DEF Holds
  <2>5. e = "s" => ~Unborn
    BY Holder
  <2>6. chan'[e] = chan[e]
    BY <1>2 DEF Same
  <2>7. CASE e = "c"
    BY <1>0, <2>1, <2>3, <2>4, <2>6, <2>7
  <2>8. CASE e = "s"
    <3>1. pc["open"] = "done" /\ ~Unborn
      BY <2>5, <2>8 DEF Unborn
    <3>. QED
      BY <1>0, <2>1, <2>3, <2>6, <2>8, <3>1
  <2>. QED
    BY <1>0, <2>7, <2>8
<1>. QED
  BY <1>1, <1>2

\* A step of a thread inside a call, session_open apart.
LEMMA HolderLife ==
  ASSUME TypeInv, Life, NEW t \in Threads \ {"open"}, NEW e, e = Home[t],
         NEW l, pc' = [pc EXCEPT ![t] = l], pc[t] # "idle",
         t = "accept" => pc[t] \in {"update", "announce"} /\ l \in {"announce", "done", "failed"},
         state' = state \/ state' = [state EXCEPT ![e] = SentState(@)],
         (\A d \in Ends : Same(d)) \/ (\E f : Put(Other(e), f) /\ Same(e) /\ "SYN" \notin f.flags),
         \A d \in Ends : d # e => out'[d] = out[d] /\ fin'[d] = fin[d],
         fin'[e] > 0 => fin[e] > 0 \/ (e \in Foreign /\ HasStream(e)),
         UNCHANGED backlog,
         \A u \in Updaters : u # t => hdr'[u] = hdr[u],
         l = "announce" => hdr'[t].type = "WINDOW_UPDATE" /\ hdr'[t].flags \subseteq {"ACK"}
  PROVE  Life'
<1>0. /\ LocalsOK /\ FlagsOK /\ Shape /\ Opening /\ Birth /\ Headers
      /\ "c" \in Ends /\ "s" \in Ends /\ "open" \in Threads /\ "accept" \in Threads
  BY ThreadFacts, EndFacts DEF TypeInv, Life
<1>1. e \in Ends /\ Holds(e)
  BY CallerHolds
<1>2. state[e] \notin {"NONE", "INIT"} /\ (e = "s" => ~Unborn)
  BY <1>1, Holder
<1>3. /\ NoSyn(chan'["c"]) /\ SynFirst(chan'["s"])
      /\ NoSyn(chan'["s"]) <=> NoSyn(chan["s"])
      /\ pc["open"] # "done" => OnlyGoAways(chan'["s"])
      /\ Unborn => OnlyGoAways(chan'["c"])
  BY <1>1, HolderSends
<1>4. /\ pc'["open"] = pc["open"] /\ pc'[t] = l
      /\ \A u \in Threads : u # t => pc'[u] = pc[u]
  BY <1>0 DEF LocalsOK
<1>5. /\ state'[e] \notin {"NONE", "INIT"}
      /\ \A d \in Ends : d # e => state'[d] = state[d]
  BY <1>0, <1>1, <1>2 DEF SentState, FlagsOK
<1>6. Unborn' <=> Unborn
  BY <1>3, <1>4 DEF Unborn
<1>7. \A d \in Ends : HasStream(d) => HasStream(d)'
  <2>1. pc["accept"] = "done" => pc'["accept"] = "done"
    BY <1>0, <1>4
  <2>. QED
    BY <1>4, <2>1 DEF HasStream
<1>8. Shape'
  <2>1. pc'["accept"] \in {"idle", "update", "announce", "done", "failed"}
    BY <1>0, <1>4 DEF Shape
  <2>2. \A u \in Writers \cup Readers :
           /\ u \in Threads /\ Home[u] \in Ends
           /\ pc'[u] # "idle" => pc[u] # "idle"
    BY <1>4, ThreadFacts
  <2>3. \A d \in Ends : fin'[d] > 0 => d \in Foreign /\ HasStream(d)
    BY <1>0 DEF Shape
  <2>. QED
    BY <1>0, <1>4, <1>7, <2>1, <2>2, <2>3 DEF Shape
<1>9. Opening'
  BY <1>0, <1>1, <1>3, <1>4, <1>5 DEF Opening, Holds
<1>10. Birth'
  <2>1. Unborn => state'["s"] = "NONE" /\ out'["s"] = out["s"]
    BY <1>0, <1>2, <1>5 DEF Birth
  <2>2. Unborn => t # "accept"
    BY <1>0 DEF Birth
  <2>3. /\ Unborn => pc'["accept"] = pc["accept"]
        /\ pc'["accept"] \in {"update", "announce", "done"} =>
             pc["accept"] \in {"update", "announce", "done"}
    BY <1>0, <1>4, <2>2
  <2>4. state'["s"] # "INIT" /\ (state["s"] # "NONE" => state'["s"] # "NONE")
    BY <1>0, <1>5 DEF Birth
  <2>. QED
    BY <1>0, <1>3, <1>6, <2>1, <2>3, <2>4 DEF Birth
<1>11. Headers'
  BY <1>0, <1>4, ThreadFacts DEF Headers
<1>. QED
  BY <1>8, <1>9, <1>10, <1>11 DEF Life

\* send_window_update, in stream_read and in session_accept.
LEMMA UpdateLife ==
  ASSUME TypeInv, Life, NEW t \in Updaters \ {"open"},
         WindowUpdate(t) \/ Announce(t) \/ AnnounceFail(t)
  PROVE  Life'
<1>0. /\ LocalsOK /\ FlagsOK /\ ChanOK /\ HdrOK /\ Shape /\ Headers
      /\ t \in Threads \ {"open"} /\ Home[t] \in Ends
      /\ t = "accept" \/ t \notin Boot
  BY ThreadFacts DEF TypeInv, Life, Boot
<1>1. PICK e \in Ends : e = Home[t]
  BY <1>0
<1>2. pc[t] \in {"update", "announce"} /\ UNCHANGED <<out, fin, backlog>>
  BY DEF WindowUpdate, Announce, AnnounceFail, buffer, session
<1>3. Holds(e) /\ state[e] \notin {"NONE", "INIT"}
  BY <1>0, <1>1, <1>2, CallerHolds, Holder
<1>4. state' = state \/ state' = [state EXCEPT ![e] = SentState(@)]
  BY <1>1 DEF WindowUpdate, Announce, AnnounceFail
<1>5. \E l : /\ pc' = [pc EXCEPT ![t] = l]
             /\ l \in {"announce", "failed", IF t \in Boot THEN "done" ELSE "idle"}
             /\ l = "announce" => WindowUpdate(t) /\ hdr'[t].type = "WINDOW_UPDATE"
                                  /\ hdr'[t].flags = SendFlags(state[e])
  <2>1. CASE Announce(t) \/ AnnounceFail(t)
    BY <2>1 DEF Announce, AnnounceFail, Goto, Return
  <2>2. CASE WindowUpdate(t)
    <3>1. CASE Return(t, "ok")
      <4>1. PICK l : l = IF t \in Boot THEN "done" ELSE "idle"
        OBVIOUS
      <4>2. pc' = [pc EXCEPT ![t] = l] /\ l # "announce"
        BY <3>1, <4>1 DEF Return
      <4>3. l \in {"announce", "failed", IF t \in Boot THEN "done" ELSE "idle"}
        BY <4>1
      <4>. QED
        BY <4>2, <4>3, Zenon
    <3>2. CASE /\ Goto(t, "announce")
               /\ hdr' = [hdr EXCEPT ![t] = hdr_encode("WINDOW_UPDATE", SendFlags(state[e]),
                                              granted[e], granted[e] + Delta(e))]
      BY <1>0, <2>2, <3>2 DEF Goto, hdr_encode, HdrOK
    <3>. QED
      BY <1>1, <2>2, <3>1, <3>2 DEF WindowUpdate
  <2>. QED
    BY <2>1, <2>2
<1>6. SendFlags(state[e]) \subseteq {"ACK"}
  BY <1>3 DEF SendFlags
<1>7. \A u \in Updaters : u # t => hdr'[u] = hdr[u]
  BY <1>0 DEF WindowUpdate, Announce, AnnounceFail, HdrOK
<1>8. (\A d \in Ends : Same(d)) \/ (\E f : Put(Other(e), f) /\ Same(e) /\ "SYN" \notin f.flags)
  <2>1. CASE WindowUpdate(t) \/ AnnounceFail(t)
    BY <2>1 DEF WindowUpdate, AnnounceFail, Same
  <2>2. CASE Announce(t)
    <3>1. PICK f : f \in SmallFrame /\ f = hdr[t]
      BY <1>0 DEF HdrOK
    <3>2. "SYN" \notin f.flags
      BY <1>0, <2>2, <3>1 DEF Announce, Headers
    <3>3. Put(Other(e), f) /\ Same(e)
      BY <1>0, <1>1, <2>2, <3>1, QueueStep DEF Announce
    <3>. QED
      BY <3>2, <3>3
  <2>. QED
    BY <2>1, <2>2
<1>9. PICK l : /\ pc' = [pc EXCEPT ![t] = l]
               /\ l \in {"announce", "failed", IF t \in Boot THEN "done" ELSE "idle"}
               /\ l = "announce" => hdr'[t].type = "WINDOW_UPDATE" /\ hdr'[t].flags \subseteq {"ACK"}
  BY <1>5, <1>6
<1>10. t = "accept" => pc[t] \in {"update", "announce"} /\ l \in {"announce", "done", "failed"}
  BY <1>2, <1>9 DEF Boot
<1>11. /\ \A d \in Ends : d # e => out'[d] = out[d] /\ fin'[d] = fin[d]
       /\ fin'[e] > 0 => fin[e] > 0 \/ (e \in Foreign /\ HasStream(e))
       /\ pc[t] # "idle"
  BY <1>2
<1>. QED
  BY <1>0, <1>1, <1>2, <1>4, <1>7, <1>8, <1>9, <1>10, <1>11, HolderLife

\* stream_write, where it sends.
LEMMA SendLife ==
  ASSUME TypeInv, Life, NEW t \in Writers, WriteSend(t) \/ WriteFail(t)
  PROVE  Life'
<1>0. /\ LocalsOK /\ FlagsOK /\ NumbersOK /\ ChanOK /\ Shape
      /\ t \in Threads \ {"open"} /\ Home[t] \in Ends /\ t \notin Updaters /\ t # "accept"
      /\ t \notin Boot
  BY ThreadFacts DEF TypeInv, Life, Updaters, Boot
<1>1. PICK e \in Ends : e = Home[t]
  BY <1>0
<1>2. pc[t] = "send" /\ UNCHANGED <<backlog, hdr>>
  BY DEF WriteSend, WriteFail, session
<1>3. Holds(e) /\ state[e] \notin {"NONE", "INIT"} /\ HasStream(e)
  BY <1>0, <1>1, <1>2, CallerHolds, Holder DEF Shape
<1>4. state' = [state EXCEPT ![e] = SentState(@)]
  BY <1>1 DEF WriteSend, WriteFail
<1>5. PICK l : pc' = [pc EXCEPT ![t] = l] /\ l # "announce"
  BY <1>0 DEF WriteSend, WriteFail, Return
<1>6. /\ \A d \in Ends : d # e => out'[d] = out[d] /\ fin'[d] = fin[d]
      /\ fin'[e] > 0 => fin[e] > 0 \/ (e \in Foreign /\ HasStream(e))
  <2>1. CASE WriteSend(t)
    <3>1. PICK last \in BOOLEAN :
            /\ last => e \in Foreign
            /\ fin' = [fin EXCEPT ![e] = IF last THEN @ + 1 ELSE @]
      BY <1>1, <2>1 DEF WriteSend
    <3>2. out' = [out EXCEPT ![e] = @ + SendSize(t)]
      BY <1>1, <2>1 DEF WriteSend
    <3>. QED
      BY <1>0, <1>3, <3>1, <3>2 DEF FlagsOK, NumbersOK
  <2>2. CASE WriteFail(t)
    BY <2>2 DEF WriteFail, buffer, session
  <2>. QED
    BY <2>1, <2>2
<1>7. (\A d \in Ends : Same(d)) \/ (\E f : Put(Other(e), f) /\ Same(e) /\ "SYN" \notin f.flags)
  <2>1. CASE WriteFail(t)
    BY <2>1 DEF WriteFail, Same
  <2>2. CASE WriteSend(t)
    <3>1. PICK last \in BOOLEAN :
            Queue(e, hdr_encode("DATA", SendFlags(state[e]) \cup (IF last THEN {"FIN"} ELSE {}),
                                out[e], out[e] + SendSize(t)))
      BY <1>1, <2>2 DEF WriteSend
    <3>2. SendSize(t) \in Nat /\ out[e] \in Nat /\ state[e] \in States
      BY <1>0 DEF SendSize, MIN, LocalsOK, NumbersOK, FlagsOK
    <3>3. PICK fl : /\ fl = SendFlags(state[e]) \cup (IF last THEN {"FIN"} ELSE {})
                    /\ fl \in SUBSET Flags /\ "SYN" \notin fl
      <4>1. SendFlags(state[e]) \in SUBSET Flags /\ "SYN" \notin SendFlags(state[e])
        BY <1>3, <3>2, SendFlagsType DEF SendFlags
      <4>. QED
        BY <4>1 DEF Flags
    <3>4. PICK f : f \in SmallFrame /\ f = hdr_encode("DATA", fl, out[e], out[e] + SendSize(t))
      BY <3>2, <3>3, FrameTypes
    <3>5. "SYN" \notin f.flags
      BY <3>3, <3>4 DEF hdr_encode
    <3>6. Put(Other(e), f) /\ Same(e)
      BY <1>0, <3>1, <3>3, <3>4, QueueStep
    <3>. QED
      BY <3>5, <3>6
  <2>. QED
    BY <2>1, <2>2
<1>8. \A u \in Updaters : u # t => hdr'[u] = hdr[u]
  BY <1>2
<1>. QED
  BY <1>0, <1>1, <1>2, <1>4, <1>5, <1>6, <1>7, <1>8, HolderLife

\* session_open, from the state's change to the SYN.
LEMMA OpenLife ==
  ASSUME TypeInv, Life, WindowUpdate("open") \/ Announce("open") \/ AnnounceFail("open")
  PROVE  Life'
<1>0. /\ LocalsOK /\ FlagsOK /\ ChanOK /\ HdrOK /\ Shape /\ Opening /\ Birth /\ Headers
      /\ "c" \in Ends /\ "s" \in Ends /\ "open" \in Threads /\ "accept" \in Threads
      /\ "open" \in Updaters /\ Home["open"] = "c" /\ "open" \in Boot
      /\ Other("c") = "s"
  BY ThreadFacts, EndFacts, StreamAssumption DEF TypeInv, Life, StreamAssumption, Boot, Other
<1>1. /\ pc["open"] \in {"update", "announce"} /\ Unborn
      /\ UNCHANGED <<out, fin, backlog>>
      /\ \A u \in Threads : u # "open" => pc'[u] = pc[u]
      /\ \A u \in Updaters : u # "open" => hdr'[u] = hdr[u]
  BY <1>0 DEF WindowUpdate, Announce, AnnounceFail, buffer, session, Unborn, Goto, Return,
     LocalsOK, HdrOK
<1>2. /\ state["s"] = "NONE" /\ ~backlog["s"] /\ pc["accept"] \in {"idle", "failed"}
      /\ OnlyGoAways(chan["c"]) /\ out["s"] = 0 /\ NoSyn(chan["c"])
      /\ OnlyGoAways(chan["s"]) /\ out["c"] = 0 /\ SynFirst(chan["s"])
  BY <1>0, <1>1 DEF Birth, Opening
<1>3. state'["s"] = "NONE"
  BY <1>0, <1>2 DEF WindowUpdate, Announce, AnnounceFail, FlagsOK
<1>4. pc'["open"] \in {"announce", "done", "failed"}
      /\ \A d : HasStream(d) => HasStream(d)'
  <2>1. pc'["open"] \in {"announce", "done", "failed"}
    BY <1>0 DEF WindowUpdate, Announce, AnnounceFail, Goto, Return, LocalsOK
  <2>. QED
    BY <1>0, <1>1, <2>1 DEF HasStream
<1>5. Shape'
  BY <1>0, <1>1, <1>4, ThreadFacts DEF Shape
<1>6. CASE WindowUpdate("open")
  <2>1. state["c"] = "INIT" /\ SendFlags(state["c"]) = {"SYN"} /\ SentState(state["c"]) = "SYN_SENT"
    BY <1>0, <1>6 DEF WindowUpdate, Opening, SendFlags, SentState
  <2>2. NeedsUpdate(Delta("c"), SendFlags(state["c"]))
    BY <2>1 DEF NeedsUpdate
  <2>3. /\ state' = [state EXCEPT !["c"] = SentState(@)] /\ UNCHANGED chan
        /\ hdr' = [hdr EXCEPT !["open"] = hdr_encode("WINDOW_UPDATE", SendFlags(state["c"]),
                                             granted["c"], granted["c"] + Delta("c"))]
        /\ Goto("open", "announce")
    BY <1>0, <1>6, <2>2 DEF WindowUpdate
  <2>4. state'["c"] = "SYN_SENT" /\ pc'["open"] = "announce"
    BY <1>0, <2>1, <2>3 DEF Goto, LocalsOK, FlagsOK
  <2>5. hdr'["open"].type = "WINDOW_UPDATE" /\ hdr'["open"].flags = {"SYN"}
    BY <1>0, <2>1, <2>3 DEF hdr_encode, HdrOK
  <2>6. Opening' /\ Birth'
    BY <1>0, <1>1, <1>2, <1>3, <2>3, <2>4 DEF Opening, Birth, Unborn
  <2>7. Headers'
    BY <1>0, <1>1, <2>5, ThreadFacts DEF Headers
  <2>. QED
    BY <1>5, <2>6, <2>7 DEF Life
<1>7. CASE AnnounceFail("open")
  <2>1. state'["c"] = "NONE" /\ pc'["open"] = "failed" /\ UNCHANGED chan
    BY <1>0, <1>7 DEF AnnounceFail, Goto, LocalsOK, FlagsOK
  <2>2. Opening' /\ Birth'
    BY <1>0, <1>1, <1>2, <1>3, <2>1 DEF Opening, Birth, Unborn
  <2>3. Headers'
    BY <1>0, <1>1, <2>1, ThreadFacts DEF Headers
  <2>. QED
    BY <1>5, <2>2, <2>3 DEF Life
<1>8. CASE Announce("open")
  <2>1. PICK f : f \in SmallFrame /\ f = hdr["open"]
    BY <1>0 DEF HdrOK
  <2>2. Put("s", f) /\ Same("c")
    BY <1>0, <1>8, <2>1, QueueStep DEF Announce
  <2>3. state'["c"] = "SYN_SENT" /\ pc'["open"] = "done"
    BY <1>0, <1>8 DEF Announce, Opening, Return, LocalsOK
  <2>4. "SYN" \in f.flags
    BY <1>0, <1>8, <2>1 DEF Announce, Headers
  <2>5. PICK q, r : q \in Seq(SmallFrame) /\ q = chan["s"] /\ r = chan'["s"]
    BY <1>0 DEF ChanOK
  <2>6. r = Append(q, f)
    BY <2>2, <2>5 DEF Put
  <2>7. SynFirst(r)
    BY <1>2, <2>1, <2>5, <2>6, SynAppend
  <2>8. Opening'
    BY <2>3 DEF Opening
  <2>9. Birth'
    BY <1>0, <1>1, <1>2, <1>3, <2>2, <2>5, <2>7 DEF Birth, Same
  <2>10. Headers'
    BY <1>0, <1>1, <2>3, ThreadFacts DEF Headers
  <2>. QED
    BY <1>5, <2>8, <2>9, <2>10 DEF Life
<1>. QED
  BY <1>6, <1>7, <1>8

\* A foreign end closes.
LEMMA CloseLife ==
  ASSUME TypeInv, Life, NEW e \in Ends, PeerClose(e)
  PROVE  Life'
<1>0. /\ FlagsOK /\ ChanOK /\ Shape /\ Opening /\ Birth /\ Headers
      /\ "c" \in Ends /\ "s" \in Ends
  BY EndFacts DEF TypeInv, Life
<1>1. /\ e \in Foreign /\ HasStream(e) /\ UNCHANGED <<out, backlog, pc, hdr>>
      /\ fin' = [fin EXCEPT ![e] = @ + 1]
  BY DEF PeerClose, buffer, local
<1>2. Holds(e) /\ state[e] \notin {"NONE", "INIT"} /\ (e = "s" => ~Unborn)
  <2>1. Holds(e)
    BY <1>1 DEF HasStream, Holds, Ends
  <2>. QED
    BY <2>1, Holder
<1>3. /\ state'[e] \notin {"NONE", "INIT"}
      /\ \A d \in Ends : d # e => state'[d] = state[d]
  BY <1>0 DEF PeerClose, FlagsOK
<1>4. \E f : Put(Other(e), f) /\ Same(e) /\ "SYN" \notin f.flags
  <2>1. PICK fl \in {"RST", "FIN"} : Queue(e, hdr_encode("WINDOW_UPDATE", {fl}, 0, 0))
    BY DEF PeerClose
  <2>2. PICK f : f \in SmallFrame /\ f = hdr_encode("WINDOW_UPDATE", {fl}, 0, 0)
    BY FrameTypes DEF Flags
  <2>3. "SYN" \notin f.flags
    BY <2>2 DEF hdr_encode
  <2>4. Put(Other(e), f) /\ Same(e)
    BY <1>0, <2>1, <2>2, QueueStep
  <2>. QED
    BY <2>3, <2>4
<1>5. /\ NoSyn(chan'["c"]) /\ SynFirst(chan'["s"])
      /\ NoSyn(chan'["s"]) <=> NoSyn(chan["s"])
      /\ pc["open"] # "done" => OnlyGoAways(chan'["s"])
      /\ Unborn => OnlyGoAways(chan'["c"])
  BY <1>2, <1>4, HolderSends
<1>6. Shape'
  BY <1>0, <1>1 DEF Shape, HasStream, FlagsOK
<1>7. Opening'
  BY <1>0, <1>1, <1>2, <1>3, <1>5 DEF Opening, Holds
<1>8. Birth'
  <2>1. Unborn' <=> Unborn
    BY <1>1, <1>5 DEF Unborn
  <2>2. Unborn => state'["s"] = state["s"]
    BY <1>0, <1>2, <1>3
  <2>3. state'["s"] # "INIT" /\ (state["s"] # "NONE" => state'["s"] # "NONE")
    BY <1>0, <1>3 DEF Birth
  <2>. QED
    BY <1>0, <1>1, <1>5, <2>1, <2>2, <2>3 DEF Birth
<1>9. Headers'
  BY <1>0, <1>1 DEF Headers
<1>. QED
  BY <1>6, <1>7, <1>8, <1>9 DEF Life

\* Every step keeps the life.
LEMMA NextLife == TypeInv /\ Life /\ [Next]_vars => Life'
<1> SUFFICES ASSUME TypeInv, Life, [Next]_vars PROVE Life'
  OBVIOUS
<1>1. CASE UNCHANGED vars
  <2>1. UNCHANGED <<state, out, backlog, fin, pc, hdr, chan>>
    BY <1>1 DEF vars, buffer, session, local
  <2>. QED
    BY <2>1, QuietLife DEF Same
<1>2. CASE BootStep \/ OpenNewFail \/ AcceptFail
  BY <1>2, BootLife
<1>3. ASSUME NEW t \in Threads, WriteCall(t) \/ ThreadStep(t) \/ ThreadFail(t)
      PROVE  Life'
  <2>1. ASSUME t \in Updaters, WindowUpdate(t) \/ Announce(t) \/ AnnounceFail(t)
        PROVE  Life'
    BY <2>1, UpdateLife, OpenLife
  <2>. QED
    BY <1>3, <2>1, ThreadCases, CallLife, SendLife
<1>4. ASSUME NEW e \in Ends, RxStep(e) \/ RxFailStep(e)
      PROVE  Life'
  BY <1>4, RxLife
<1>5. ASSUME NEW e \in Ends, SessionGoAway(e) \/ PeerClose(e)
      PROVE  Life'
  BY <1>5, GoAwayLife, CloseLife
<1>. QED
  BY <1>1, <1>2, <1>3, <1>4, <1>5 DEF Next

\* The stream does not exist to begin with.
LEMMA InitLife == Init => Life
<1> SUFFICES ASSUME Init PROVE Life
  OBVIOUS
<1>0. /\ "c" \in Ends /\ "s" \in Ends /\ "open" \in Threads /\ "accept" \in Threads
      /\ \A t \in Writers \cup Readers \cup Updaters : t \in Threads
  BY ThreadFacts, EndFacts DEF Threads, Updaters
<1>1. /\ chan["c"] = << >> /\ chan["s"] = << >> /\ pc["open"] = "idle" /\ pc["accept"] = "idle"
      /\ state["c"] = "NONE" /\ state["s"] = "NONE" /\ ~backlog["s"]
      /\ out["c"] = 0 /\ out["s"] = 0
      /\ \A t \in Threads : pc[t] = "idle"
      /\ \A e \in Ends : fin[e] = 0
  BY <1>0 DEF Init
<1>2. \A i \in 1 .. Len(<< >>) : FALSE
  OBVIOUS
<1>3. OnlyGoAways(<< >>) /\ NoSyn(<< >>) /\ SynFirst(<< >>)
  BY <1>2 DEF OnlyGoAways, NoSyn, SynFirst
<1>. QED
  BY <1>0, <1>1, <1>3 DEF Life, Shape, Opening, Birth, Headers

\* What NeverReopened says of one step.
Keeps(e) ==
  /\ state[e] = "RESET" => state'[e] = "RESET"
  /\ state[e] \in {"REMOTE_CLOSE", "CLOSED"} => state'[e] \in {state[e], "CLOSED", "RESET"}

\* The states that a step may leave, and for which.
Changes(e) ==
  \/ UNCHANGED state
  \/ /\ e = "c" /\ state[e] \in {"NONE", "INIT", "SYN_SENT"}
     /\ \E st \in {"NONE", "INIT"} : state' = [state EXCEPT ![e] = st]
  \/ state' = [state EXCEPT ![e] = SentState(@)]
  \/ StreamFrame(e) /\ Incoming(e, Head(chan[e])) /\ Accepted(e, Head(chan[e]))
  \/ /\ e \in Foreign /\ state[e] \notin {"NONE", "RESET"}
     /\ \E how \in {"fin", "rst"} :
          state' = [state EXCEPT ![e] = CASE how = "rst" -> "RESET"
                      [] how = "fin" /\ @ \in {"REMOTE_CLOSE", "CLOSED"} -> "CLOSED"
                      [] OTHER -> "LOCAL_CLOSE"]

\* Every step changes the state of at most one end.
LEMMA NextChanges ==
  ASSUME TypeInv, Life, [Next]_vars
  PROVE  \E e \in Ends : Changes(e)
<1>0. /\ Opening /\ "c" \in Ends /\ "s" \in Ends /\ Home["open"] = "c"
  BY EndFacts, StreamAssumption DEF Life, StreamAssumption
<1>1. CASE UNCHANGED vars
  BY <1>0, <1>1 DEF vars, Changes
<1>2. CASE BootStep \/ OpenNewFail \/ AcceptFail
  BY <1>0, <1>2 DEF BootStep, OpenCheck, OpenNew, AcceptTake, OpenNewFail, AcceptFail, Changes,
     Opening
<1>3. ASSUME NEW t \in Threads, WriteCall(t) \/ ThreadStep(t) \/ ThreadFail(t)
      PROVE  \E e \in Ends : Changes(e)
  <2>1. Home[t] \in Ends
    BY ThreadFacts
  <2>2. CASE WindowUpdate(t) \/ WriteSend(t) \/ WriteFail(t)
    <3>1. state' = [state EXCEPT ![Home[t]] = SentState(@)]
      BY <2>2 DEF WindowUpdate, WriteSend, WriteFail
    <3>. QED
      BY <2>1, <3>1 DEF Changes
  <2>3. CASE AnnounceFail(t)
    BY <1>0, <2>3 DEF AnnounceFail, Changes, Opening
  <2>4. CASE ~(WindowUpdate(t) \/ WriteSend(t) \/ WriteFail(t) \/ AnnounceFail(t))
    BY <1>0, <1>3, <2>4 DEF WriteCall, ThreadStep, ThreadFail, Announce, WriteCheck, WriteWindow,
       WriteSelect, WriteReduce, WriteFill, ReadCall, ReadCheck, ReadPending, ReadSelect,
       ReadTake, ReadClear, WriteFillFail, ReadClearFail, SelectFail, Changes
  <2>. QED
    BY <2>2, <2>3, <2>4
<1>4. ASSUME NEW e \in Ends, RxStep(e) \/ RxFailStep(e)
      PROVE  \E d \in Ends : Changes(d)
  <2>1. CASE RxData(e) \/ RxWindowUpdate(e) \/ RxWindowExceeded(e)
    BY <2>1 DEF RxData, RxWindowUpdate, RxWindowExceeded, Deliverable, StreamFrame, Changes
  <2>2. CASE ~(RxData(e) \/ RxWindowUpdate(e) \/ RxWindowExceeded(e))
    BY <1>4, <2>2 DEF RxStep, RxFailStep, RxRefuse, RxMissing, RxProtocolError, RxChunk,
       RxNotify, RxWriteableNotify, RxGoAway, RxFail, RxIncomingFail, RxRefuseFail, Changes
  <2>. QED
    BY <2>1, <2>2
<1>5. ASSUME NEW e \in Ends, SessionGoAway(e)
      PROVE  \E d \in Ends : Changes(d)
  BY <1>5 DEF SessionGoAway, Changes
<1>6. ASSUME NEW e \in Ends, PeerClose(e)
      PROVE  \E d \in Ends : Changes(d)
  <2>1. \A how \in Closing \ {"data-fin"} : how \in {"fin", "rst"}
    BY StreamAssumption DEF StreamAssumption
  <2>2. Holds(e)
    BY <1>6 DEF PeerClose, HasStream, Holds, Ends
  <2>3. state[e] \notin {"NONE", "RESET"}
    BY <1>6, <2>2, Holder DEF PeerClose
  <2>. QED
    BY <1>6, <2>1, <2>3 DEF PeerClose, Changes
<1>. QED
  BY <1>1, <1>2, <1>3, <1>4, <1>5, <1>6 DEF Next

\* No change reopens the stream.
LEMMA ChangeKeeps ==
  ASSUME TypeInv, NEW e \in Ends, Changes(e), NEW d \in Ends
  PROVE  Keeps(d)
<1>0. state \in [Ends -> States]
  BY DEF TypeInv, FlagsOK
<1>1. CASE UNCHANGED state
  BY <1>1 DEF Keeps
<1>2. ASSUME NEW st, state' = [state EXCEPT ![e] = st],
             /\ state[e] = "RESET" => st = "RESET"
             /\ state[e] \in {"REMOTE_CLOSE", "CLOSED"} => st \in {state[e], "CLOSED", "RESET"}
      PROVE  Keeps(d)
  BY <1>0, <1>2 DEF Keeps
<1>3. CASE state[e] \in {"NONE", "INIT", "SYN_SENT"} /\ \E st : state' = [state EXCEPT ![e] = st]
  BY <1>2, <1>3
<1>4. CASE state' = [state EXCEPT ![e] = SentState(@)]
  <2>1. /\ state[e] = "RESET" => SentState(state[e]) = "RESET"
        /\ state[e] \in {"REMOTE_CLOSE", "CLOSED"} => SentState(state[e]) = state[e]
    BY DEF SentState
  <2>. QED
    BY <1>2, <1>4, <2>1
<1>5. CASE Incoming(e, Head(chan[e])) /\ Accepted(e, Head(chan[e]))
  <2>1. PICK st, fl : st = FoundState(e, Head(chan[e])) /\ fl = Head(chan[e]).flags
    OBVIOUS
  <2>2. state' = [state EXCEPT ![e] = FlagsState(st, fl)]
    BY <1>5, <2>1 DEF Incoming
  <2>3. ~("SYN" \in fl /\ state[e] # "NONE") /\ ~FlagsFail(st, fl)
    BY <1>5, <2>1 DEF Accepted, ProtocolError
  <2>4. state[e] # "NONE" => st = state[e]
    BY <2>1, <2>3 DEF FoundState
  <2>5. ASSUME state[e] \in {"REMOTE_CLOSE", "CLOSED", "RESET"}
        PROVE  FlagsState(st, fl) \in {state[e], "RESET"}
    <3>1. st = state[e] /\ AckState(st, fl) = st
      BY <2>4, <2>5 DEF AckState
    <3>2. "FIN" \notin fl
      BY <2>3, <2>5, <3>1 DEF FlagsFail, FinAllowed
    <3>. QED
      BY <3>1, <3>2 DEF FlagsState
  <2>. QED
    BY <1>2, <2>2, <2>5
<1>6. CASE /\ state[e] # "RESET"
           /\ \E how \in {"fin", "rst"} :
                state' = [state EXCEPT ![e] = CASE how = "rst" -> "RESET"
                            [] how = "fin" /\ @ \in {"REMOTE_CLOSE", "CLOSED"} -> "CLOSED"
                            [] OTHER -> "LOCAL_CLOSE"]
  <2>1. PICK how \in {"fin", "rst"} :
          state' = [state EXCEPT ![e] = CASE how = "rst" -> "RESET"
                      [] how = "fin" /\ @ \in {"REMOTE_CLOSE", "CLOSED"} -> "CLOSED"
                      [] OTHER -> "LOCAL_CLOSE"]
    BY <1>6
  <2>2. CASE how = "rst"
    <3>1. state' = [state EXCEPT ![e] = "RESET"]
      BY <2>1, <2>2
    <3>. QED
      BY <1>2, <3>1
  <2>3. CASE how = "fin"
    <3>1. state' = [state EXCEPT ![e] = IF state[e] \in {"REMOTE_CLOSE", "CLOSED"}
                                        THEN "CLOSED" ELSE "LOCAL_CLOSE"]
      BY <2>1, <2>3
    <3>. QED
      BY <1>2, <1>6, <3>1
  <2>. QED
    BY <2>2, <2>3
<1>. QED
  BY <1>1, <1>3, <1>4, <1>5, <1>6 DEF Changes

\* No step reopens a direction that was closed, whatever fails, whoever closes and
\* however many threads use the stream: stream_new runs for a stream that is not
\* there, stream_process_flags (mux.c:322) and stream_send_flags (mux.c:400) leave
\* REMOTE_CLOSE, CLOSED and RESET only for CLOSED and RESET.  It takes Life: the
\* state that session_open sets and that a failing session_open resets is its own.
THEOREM NeverReopenedCorrect == Spec => NeverReopened
<1>1. TypeInv /\ Life /\ [Next]_vars => [\A e \in Ends : Keeps(e)]_vars
  BY NextChanges, ChangeKeeps
<1>2. TypeInv /\ Life /\ [Next]_vars => TypeInv' /\ Life'
  BY NextTypes, NextLife
<1>3. Spec => [][\A e \in Ends : Keeps(e)]_vars
  BY <1>1, <1>2, InitTypes, InitLife, PTL DEF Spec
<1>. QED
  BY <1>3 DEF NeverReopened, Keeps

-----------------------------------------------------------------------------
(* Closing: one FIN or RST ends no session. *)

\* stream_write and a closing peer say more than window updates and go aways.
Plain(f) == f.type # "DATA" /\ "FIN" \notin f.flags
Speaking == (\E t \in Writers : WriteSend(t)) \/ (\E e \in Ends : PeerClose(e))

\* The receive thread of e.
Receives(e) == RxStep(e) \/ RxFailStep(e)

\* A frame is queued for d only with the SYN of session_open, or without a SYN.
Quietly(d) ==
  \/ Same(d)
  \/ Took(d) /\ Receives(d)
  \/ \E f : /\ Put(d, f) /\ ("SYN" \in f.flags => pc["open"] # "done")
            /\ Plain(f) \/ Speaking

\* Once session_open has returned, no SYN is queued.
LEMMA NextQuietly ==
  ASSUME TypeInv, Life, [Next]_vars, NEW d \in Ends
  PROVE  Quietly(d)
<1>0. /\ ChanOK /\ FlagsOK /\ NumbersOK /\ HdrOK /\ LocalsOK /\ Headers
  BY DEF TypeInv, Life
<1>1. CASE UNCHANGED chan
  BY <1>1 DEF Quietly, Same
<1>2. ASSUME NEW e \in Ends, NEW r \in Reasons, GoAway(e, r)
      PROVE  Quietly(d)
  <2>1. Same(d) \/ \E f : Put(d, f) /\ Silent(f)
    BY <1>0, <1>2, GoAwayQuiet
  <2>. QED
    BY <2>1 DEF Quietly, Silent, Plain
<1>3. ASSUME NEW e \in Ends, NEW f \in SmallFrame, Queue(e, f),
             "SYN" \in f.flags => pc["open"] # "done", Plain(f) \/ Speaking
      PROVE  Quietly(d)
  <2>1. Put(Other(e), f) /\ Same(e)
    BY <1>0, <1>3, QueueStep
  <2>. QED
    BY <1>3, <2>1, EndFacts DEF Quietly
<1>4. ASSUME NEW e \in Ends, chan[e] # << >>, Discard(e), Receives(e)
      PROVE  Quietly(d)
  <2>1. Took(e) /\ Same(Other(e))
    BY <1>0, <1>4, DiscardStep
  <2>. QED
    BY <1>4, <2>1, EndFacts DEF Quietly
<1>5. ASSUME NEW e \in Ends, NEW f \in SmallFrame, chan[e] # << >>, Reply(e, f), "SYN" \notin f.flags,
             Plain(f), Receives(e)
      PROVE  Quietly(d)
  <2>1. Took(e) /\ Put(Other(e), f)
    BY <1>0, <1>5, ReplyStep
  <2>. QED
    BY <1>5, <2>1, EndFacts DEF Quietly
<1>6. CASE BootStep \/ OpenNewFail \/ AcceptFail
  BY <1>1, <1>2, <1>6, EndFacts DEF BootStep, OpenCheck, OpenNew, AcceptTake, OpenNewFail,
     AcceptFail, Reasons
<1>7. ASSUME NEW t \in Threads, WriteCall(t) \/ ThreadStep(t) \/ ThreadFail(t)
      PROVE  Quietly(d)
  <2>1. Home[t] \in Ends
    BY ThreadFacts
  <2>2. CASE Announce(t)
    <3>1. PICK f : f \in SmallFrame /\ f = hdr[t]
      BY <1>0, <2>2 DEF HdrOK, Announce
    <3>2. ("SYN" \in f.flags => t = "open") /\ Plain(f)
      BY <1>0, <2>2, <3>1 DEF Announce, Headers, Plain
    <3>. QED
      BY <1>3, <2>1, <2>2, <3>1, <3>2 DEF Announce
  <2>3. CASE WriteSend(t)
    <3>0. t \in Writers /\ pc[t] = "send"
      BY <2>3 DEF WriteSend
    <3>1. PICK e \in Ends : e = Home[t] /\ state[e] # "INIT"
      BY <2>1, <3>0, ThreadFacts, CallerHolds, Holder DEF Boot, Updaters
    <3>2. PICK last \in BOOLEAN :
            Queue(e, hdr_encode("DATA", SendFlags(state[e]) \cup (IF last THEN {"FIN"} ELSE {}),
                                out[e], out[e] + SendSize(t)))
      BY <2>3, <3>1 DEF WriteSend
    <3>3. SendSize(t) \in Nat /\ out[e] \in Nat /\ state[e] \in States
      BY <1>0 DEF SendSize, MIN, LocalsOK, NumbersOK, FlagsOK
    <3>4. PICK fl : /\ fl = SendFlags(state[e]) \cup (IF last THEN {"FIN"} ELSE {})
                    /\ fl \in SUBSET Flags /\ "SYN" \notin fl
      <4>1. SendFlags(state[e]) \in SUBSET Flags /\ "SYN" \notin SendFlags(state[e])
        BY <3>1, <3>3, SendFlagsType DEF SendFlags
      <4>. QED
        BY <4>1 DEF Flags
    <3>5. PICK f : f \in SmallFrame /\ f = hdr_encode("DATA", fl, out[e], out[e] + SendSize(t))
      BY <3>3, <3>4, FrameTypes
    <3>6. "SYN" \notin f.flags
      BY <3>4, <3>5 DEF hdr_encode
    <3>. QED
      BY <1>3, <2>3, <3>0, <3>2, <3>4, <3>5, <3>6 DEF Speaking
  <2>4. CASE WriteFillFail(t)
    BY <1>2, <2>1, <2>4 DEF WriteFillFail, Reasons
  <2>5. CASE ~(Announce(t) \/ WriteSend(t) \/ WriteFillFail(t))
    <3>1. UNCHANGED chan
      BY <1>7, <2>5 DEF WriteCall, ThreadStep, ThreadFail, WriteCheck, WriteWindow,
       WriteSelect, WriteReduce, WriteFill, ReadCall, ReadCheck, ReadPending, ReadSelect,
       ReadTake, ReadClear, ReadClearFail, SelectFail, WindowUpdate, AnnounceFail, WriteFail
    <3>. QED
      BY <1>1, <3>1
  <2>. QED
    BY <2>2, <2>3, <2>4, <2>5
<1>8. ASSUME NEW e \in Ends, RxStep(e) \/ RxFailStep(e)
      PROVE  Quietly(d)
  <2>0. Receives(e)
    BY <1>8 DEF Receives
  <2>1. CASE RxRefuse(e)
    <3>1. PICK g : g \in SmallFrame /\ g = hdr_encode("WINDOW_UPDATE", {"RST"}, 0, 0)
      BY FrameTypes DEF Flags
    <3>2. "SYN" \notin g.flags /\ Plain(g)
      BY <3>1 DEF hdr_encode, Plain
    <3>. QED
      BY <1>5, <2>0, <2>1, <3>1, <3>2 DEF RxRefuse, StreamFrame, Arrived
  <2>2. CASE RxMissing(e) \/ RxData(e) \/ RxWindowUpdate(e) \/ RxRefuseFail(e) \/ RxGoAway(e)
    BY <1>4, <2>0, <2>2 DEF RxMissing, RxData, RxWindowUpdate, RxRefuseFail, RxGoAway, StreamFrame,
       Arrived
  <2>3. CASE RxProtocolError(e) \/ RxWindowExceeded(e) \/ RxIncomingFail(e)
    <3>1. chan[e] # << >> /\ \E r \in Reasons : GoAwayReply(e, r)
      BY <2>3 DEF RxProtocolError, RxWindowExceeded, RxIncomingFail, StreamFrame, Arrived, Reasons
    <3>2. PICK r \in Reasons : GoAwayReply(e, r)
      BY <3>1
    <3>3. PICK g : g \in SmallFrame /\ g = GoAwayFrame(r)
      BY FrameTypes DEF Reasons
    <3>4. "SYN" \notin g.flags /\ Plain(g)
      BY <3>3 DEF GoAwayFrame, hdr_encode, Plain
    <3>. QED
      BY <1>4, <1>5, <2>0, <3>1, <3>2, <3>3, <3>4 DEF GoAwayReply
  <2>4. CASE RxChunk(e) \/ RxNotify(e) \/ RxWriteableNotify(e)
    BY <1>1, <2>4 DEF RxChunk, RxNotify, RxWriteableNotify
  <2>5. CASE RxFail(e)
    BY <1>2, <2>5 DEF RxFail, Reasons
  <2>. QED
    BY <1>8, <2>1, <2>2, <2>3, <2>4, <2>5 DEF RxStep, RxFailStep
<1>9. ASSUME NEW e \in Ends, SessionGoAway(e)
      PROVE  Quietly(d)
  BY <1>2, <1>9 DEF SessionGoAway, Reasons
<1>10. ASSUME NEW e \in Ends, PeerClose(e)
       PROVE  Quietly(d)
  <2>1. PICK fl \in {"RST", "FIN"} : Queue(e, hdr_encode("WINDOW_UPDATE", {fl}, 0, 0))
    BY <1>10 DEF PeerClose
  <2>2. PICK f : f \in SmallFrame /\ f = hdr_encode("WINDOW_UPDATE", {fl}, 0, 0)
    BY FrameTypes DEF Flags
  <2>3. "SYN" \notin f.flags
    BY <2>2 DEF hdr_encode
  <2>. QED
    BY <1>3, <1>10, <2>1, <2>2, <2>3 DEF Speaking
<1>11. CASE UNCHANGED vars
  BY <1>1, <1>11 DEF vars
<1>. QED
  BY <1>6, <1>7, <1>8, <1>9, <1>10, <1>11 DEF Next

\* session_open returns once.
LEMMA StaysDone ==
  ASSUME TypeInv, [Next]_vars, pc["open"] = "done"
  PROVE  pc'["open"] = "done"
<1>0. /\ pc \in [Threads -> PCs] /\ "open" \in Threads /\ "open" \notin Writers /\ "open" \notin Readers
      /\ "accept" \in Threads
  BY ThreadFacts DEF TypeInv, LocalsOK
<1>1. CASE UNCHANGED vars
  BY <1>1 DEF vars, local
<1>2. CASE BootStep \/ OpenNewFail \/ AcceptFail
  BY <1>0, <1>2 DEF BootStep, OpenCheck, OpenNew, AcceptTake, OpenNewFail, AcceptFail, Goto
<1>3. ASSUME NEW t \in Threads, WriteCall(t) \/ ThreadStep(t) \/ ThreadFail(t)
      PROVE  pc'["open"] = "done"
  <2>1. t # "open"
    BY <1>0, <1>3 DEF WriteCall, ThreadStep, ThreadFail, Announce, WriteCheck, WriteWindow,
       WriteSelect, WriteReduce, WriteFill, ReadCall, ReadCheck, ReadPending, ReadSelect,
       ReadTake, ReadClear, WriteFillFail, ReadClearFail, SelectFail, WindowUpdate, WriteSend,
       WriteFail, AnnounceFail
  <2>2. \E l : pc' = [pc EXCEPT ![t] = l]
    BY <1>3 DEF WriteCall, ThreadStep, ThreadFail, Announce, WriteCheck, WriteWindow,
       WriteSelect, WriteReduce, WriteFill, ReadCall, ReadCheck, ReadPending, ReadSelect,
       ReadTake, ReadClear, WriteFillFail, ReadClearFail, SelectFail, WindowUpdate, WriteSend,
       WriteFail, AnnounceFail, Goto, Return
  <2>. QED
    BY <1>0, <2>1, <2>2
<1>4. ASSUME NEW e \in Ends, RxStep(e) \/ RxFailStep(e) \/ SessionGoAway(e) \/ PeerClose(e)
      PROVE  pc'["open"] = "done"
  <2>1. UNCHANGED local
    BY <1>4 DEF RxStep, RxFailStep, RxRefuse, RxMissing, RxProtocolError, RxWindowExceeded,
       RxData, RxChunk, RxNotify, RxWindowUpdate, RxWriteableNotify, RxGoAway, RxFail,
       RxIncomingFail, RxRefuseFail, SessionGoAway, PeerClose
  <2>. QED
    BY <2>1 DEF local
<1>. QED
  BY <1>1, <1>2, <1>3, <1>4 DEF Next

\* The server refused the SYN: it has no stream and will never have one.
TurnedDown == ~Unborn /\ state["s"] = "NONE"

\* Refusing is for good.
LEMMA StaysDown ==
  ASSUME TypeInv, Life, [Next]_vars
  PROVE  /\ ~Unborn => ~Unborn'
         /\ TurnedDown => TurnedDown'
<1>0. ChanOK /\ "s" \in Ends /\ state \in [Ends -> States]
  BY EndFacts DEF TypeInv, FlagsOK
<1>1. ASSUME ~Unborn PROVE ~Unborn'
  <2>1. pc["open"] = "done" /\ pc'["open"] = "done" /\ NoSyn(chan["s"])
    BY <1>1, StaysDone DEF Unborn
  <2>2. Quietly("s")
    BY <1>0, NextQuietly
  <2>3. PICK q, r : q \in Seq(SmallFrame) /\ q = chan["s"] /\ r = chan'["s"]
    BY <1>0 DEF ChanOK
  <2>4. CASE Same("s")
    BY <2>1, <2>4 DEF Same, Unborn
  <2>5. CASE Took("s")
    <3>1. q # << >> /\ r = Tail(q)
      BY <2>3, <2>5 DEF Took
    <3>2. NoSyn(r)
      BY <2>1, <2>3, <3>1, SynTail
    <3>. QED
      BY <2>1, <2>3, <3>2 DEF Unborn
  <2>6. ASSUME NEW f, Put("s", f), "SYN" \in f.flags => pc["open"] # "done"
        PROVE  ~Unborn'
    <3>1. f \in SmallFrame /\ r = Append(q, f) /\ "SYN" \notin f.flags
      BY <2>1, <2>3, <2>6 DEF Put
    <3>2. NoSyn(r)
      BY <2>1, <2>3, <3>1, SynAppend
    <3>. QED
      BY <2>1, <2>3, <3>2 DEF Unborn
  <2>. QED
    BY <2>2, <2>4, <2>5, <2>6 DEF Quietly
<1>2. ASSUME TurnedDown PROVE state'["s"] = "NONE"
  <2>1. ~Unborn /\ state["s"] = "NONE" /\ NoSyn(chan["s"])
    BY <1>2 DEF TurnedDown, Unborn
  <2>2. PICK e \in Ends : Changes(e)
    BY NextChanges
  <2>3. CASE e # "s"
    BY <1>0, <2>1, <2>2, <2>3 DEF Changes, Incoming
  <2>4. CASE e = "s"
    <3>1. chan["s"] # << >> => ~Accepted("s", Head(chan["s"]))
      <4>1. PICK q, f : q \in Seq(SmallFrame) /\ q = chan["s"] /\ f = Head(q)
        BY <1>0 DEF ChanOK
      <4>2. q # << >> => "SYN" \notin f.flags
        BY <2>1, <4>1, SynTail
      <4>. QED
        BY <2>1, <4>1, <4>2 DEF Accepted, Missing
    <3>. QED
      BY <1>0, <2>1, <2>2, <2>4, <3>1 DEF Changes, SentState, StreamFrame, Arrived
  <2>. QED
    BY <2>3, <2>4
<1>. QED
  BY <1>1, <1>2 DEF TurnedDown

Closes(f) == f.flags \cap {"FIN", "RST"} # {}
HasFin(q) == \E i \in 1 .. Len(q) : "FIN" \in q[i].flags
HasClose(q) == \E i \in 1 .. Len(q) : Closes(q[i])
Orderly(f) == f.type = "GO_AWAY" => hdr_length(f) = GO_AWAY_NORMAL

\* A FIN is the only closing frame of its queue, and every GO_AWAY is an orderly one.
OneFin(q) ==
  /\ \A i, j \in 1 .. Len(q) : "FIN" \in q[i].flags /\ Closes(q[j]) => i = j
  /\ \A i \in 1 .. Len(q) : Orderly(q[i])

Ended(e) == state[e] \in {"REMOTE_CLOSE", "CLOSED", "RESET"}

\* Nobody closes the stream twice: an end whose peer's FIN is under way can take
\* it, and an end that has ended, or is about to, was closed by somebody or was
\* turned down.
Clean(e) ==
  /\ rx[e] # "dead" /\ OneFin(chan[e])
  /\ HasFin(chan[e]) => fin[Other(e)] > 0 /\ ~Ended(e)
  /\ Ended(e) \/ HasClose(chan[e]) =>
       fin[e] > 0 \/ fin[Other(e)] > 0 \/ (e = "c" /\ TurnedDown)
  /\ state[e] = "LOCAL_CLOSE" => fin[e] > 0

SecondClose == \E e \in Ends : fin[e] > 1
OneClose == SecondClose \/ \A e \in Ends : Clean(e)

\* What a frame adds to a queue.
LEMMA FinAppend ==
  ASSUME NEW q \in Seq(SmallFrame), NEW f \in SmallFrame, NEW r, r = Append(q, f)
  PROVE  /\ HasFin(r) => HasFin(q) \/ "FIN" \in f.flags
         /\ HasClose(r) => HasClose(q) \/ Closes(f)
         /\ OneFin(q) /\ Orderly(f) /\ ~Closes(f) => OneFin(r)
         /\ OneFin(q) /\ Orderly(f) /\ ~HasClose(q) => OneFin(r)
         /\ OneFin(q) /\ Orderly(f) /\ ~HasFin(q) /\ "FIN" \notin f.flags => OneFin(r)
<1>1. /\ r \in Seq(SmallFrame) /\ Len(r) = Len(q) + 1 /\ Len(q) \in Nat
      /\ \A i \in 1 .. Len(q) : r[i] = q[i]
      /\ r[Len(q) + 1] = f
  BY AppendFacts
<1>2. \A i \in 1 .. Len(r) : (i \in 1 .. Len(q) /\ r[i] = q[i]) \/ (i = Len(q) + 1 /\ r[i] = f)
  BY <1>1
<1>3. "FIN" \in f.flags => Closes(f)
  BY DEF Closes
<1>4. HasFin(r) => HasFin(q) \/ "FIN" \in f.flags
  BY <1>2 DEF HasFin
<1>5. HasClose(r) => HasClose(q) \/ Closes(f)
  BY <1>2 DEF HasClose
<1>6. OneFin(q) /\ Orderly(f) => \A i \in 1 .. Len(r) : Orderly(r[i])
  BY <1>2 DEF OneFin
<1>7. OneFin(q) /\ Orderly(f) /\ ~Closes(f) => OneFin(r)
  BY <1>2, <1>3, <1>6 DEF OneFin
<1>8. ASSUME OneFin(q), Orderly(f), ~HasClose(q) PROVE OneFin(r)
  <2>1. \A i \in 1 .. Len(q) : ~Closes(q[i]) /\ "FIN" \notin q[i].flags
    BY <1>8 DEF HasClose, Closes
  <2>2. \A i \in 1 .. Len(r) : "FIN" \in r[i].flags \/ Closes(r[i]) => i = Len(q) + 1
    BY <1>2, <2>1
  <2>. QED
    BY <1>6, <1>8, <2>2 DEF OneFin
<1>9. ASSUME OneFin(q), Orderly(f), ~HasFin(q), "FIN" \notin f.flags PROVE OneFin(r)
  <2>1. ~HasFin(r)
    BY <1>4, <1>9
  <2>. QED
    BY <1>6, <1>9, <2>1 DEF OneFin, HasFin
<1>. QED
  BY <1>4, <1>5, <1>7, <1>8, <1>9

\* What is left when the head of a queue is gone.
LEMMA FinTail ==
  ASSUME NEW q \in Seq(SmallFrame), q # << >>, NEW r, r = Tail(q), NEW f, f = Head(q)
  PROVE  /\ HasFin(r) => HasFin(q)
         /\ HasClose(r) => HasClose(q)
         /\ OneFin(q) => OneFin(r) /\ Orderly(f)
         /\ OneFin(q) /\ Closes(f) => ~HasFin(r)
         /\ Closes(f) => HasClose(q)
         /\ "FIN" \in f.flags => HasFin(q)
<1>1. /\ r \in Seq(SmallFrame) /\ Len(r) = Len(q) - 1 /\ Len(q) \in Nat \ {0}
      /\ \A i \in 1 .. Len(q) - 1 : r[i] = q[i + 1]
      /\ f = q[1]
  BY TailFacts
<1>2. /\ \A i \in 1 .. Len(r) : r[i] = q[i + 1] /\ i + 1 \in 1 .. Len(q) /\ i + 1 # 1
      /\ \A i, j \in 1 .. Len(r) : i + 1 = j + 1 => i = j
      /\ 1 \in 1 .. Len(q)
  BY <1>1
<1>3. HasFin(r) => HasFin(q)
  BY <1>2 DEF HasFin
<1>4. HasClose(r) => HasClose(q)
  BY <1>2 DEF HasClose
<1>5. OneFin(q) => OneFin(r)
  BY <1>2 DEF OneFin
<1>6. OneFin(q) => Orderly(f)
  BY <1>1, <1>2 DEF OneFin
<1>7. OneFin(q) /\ Closes(f) => ~HasFin(r)
  BY <1>1, <1>2 DEF OneFin, HasFin
<1>8. Closes(f) => HasClose(q)
  BY <1>1, <1>2 DEF HasClose
<1>9. "FIN" \in f.flags => HasFin(q)
  BY <1>1, <1>2 DEF HasFin
<1>. QED
  BY <1>3, <1>4, <1>5, <1>6, <1>7, <1>8, <1>9

\* A step that closes nothing leaves an end clean.
LEMMA CleanQuiet ==
  ASSUME ChanOK, NEW e \in Ends, Clean(e), TurnedDown => TurnedDown',
         UNCHANGED fin, rx'[e] # "dead",
         Same(e) \/ Took(e) \/ \E f : Put(e, f) /\ ~Closes(f) /\ Orderly(f),
         Ended(e)' => Ended(e),
         state'[e] = "LOCAL_CLOSE" => state[e] = "LOCAL_CLOSE"
  PROVE  Clean(e)'
<1>1. PICK q, r : q \in Seq(SmallFrame) /\ q = chan[e] /\ r = chan'[e]
  BY DEF ChanOK
<1>2. OneFin(q)
  BY <1>1 DEF Clean
<1>3. OneFin(r) /\ (HasFin(r) => HasFin(q)) /\ (HasClose(r) => HasClose(q))
  <2>1. CASE Same(e)
    BY <1>1, <1>2, <2>1 DEF Same
  <2>2. CASE Took(e)
    <3>1. q # << >> /\ r = Tail(q)
      BY <1>1, <2>2 DEF Took
    <3>. QED
      BY <1>1, <1>2, <3>1, FinTail
  <2>3. ASSUME NEW f, Put(e, f), ~Closes(f), Orderly(f)
        PROVE  OneFin(r) /\ (HasFin(r) => HasFin(q)) /\ (HasClose(r) => HasClose(q))
    <3>1. f \in SmallFrame /\ r = Append(q, f) /\ "FIN" \notin f.flags
      BY <1>1, <2>3 DEF Put, Closes
    <3>. QED
      BY <1>1, <1>2, <2>3, <3>1, FinAppend
  <2>. QED
    BY <2>1, <2>2, <2>3
<1>. QED
  BY <1>1, <1>3 DEF Clean

\* With one foreign end, whoever closes without a second close is the first.
OneForeign == \A x, y \in Foreign : x = y

\* The first close: no end has ended, and no closing frame is under way.
LEMMA FirstClose ==
  ASSUME TypeInv, Life, OneForeign, NEW e \in Ends, e \in Foreign, HasStream(e),
         fin[e] = 0, \A d \in Ends : Clean(d)
  PROVE  /\ fin[Other(e)] = 0
         /\ ~Ended(Other(e)) /\ ~HasClose(chan[Other(e)])
         /\ ~HasFin(chan[e])
<1>0. Other(e) \in Ends /\ Other(e) # e /\ Other(Other(e)) = e
  BY EndFacts
<1>1. fin[Other(e)] = 0
  <2>1. fin[Other(e)] > 0 => Other(e) \in Foreign
    BY <1>0 DEF Life, Shape
  <2>2. fin[Other(e)] \in Nat
    BY <1>0 DEF TypeInv, FlagsOK
  <2>. QED
    BY <1>0, <2>1, <2>2 DEF OneForeign
<1>2. Other(e) = "c" => ~TurnedDown
  <2>1. Other(e) = "c" => e = "s"
    BY DEF Other, Ends
  <2>2. Holds(e)
    BY DEF HasStream, Holds, Ends
  <2>3. state[e] # "NONE"
    BY <2>2, Holder
  <2>. QED
    BY <2>1, <2>3 DEF TurnedDown
<1>3. ~(fin[e] > 0) /\ ~(fin[Other(e)] > 0)
  BY <1>1
<1>4. ~Ended(Other(e)) /\ ~HasClose(chan[Other(e)])
  <2>1. Clean(Other(e))
    BY <1>0
  <2>. QED
    BY <1>0, <1>2, <1>3, <2>1 DEF Clean
<1>5. ~HasFin(chan[e])
  BY <1>3 DEF Clean
<1>. QED
  BY <1>1, <1>4, <1>5

\* A foreign end queues a frame with FIN or RST.
LEMMA CloseClean ==
  ASSUME TypeInv, Life, OneForeign, OneClose, [Next]_vars,
         NEW e \in Ends, e \in Foreign, HasStream(e),
         fin' = [fin EXCEPT ![e] = @ + 1], UNCHANGED rx,
         \E f : Put(Other(e), f) /\ Same(e) /\ Orderly(f),
         \A d \in Ends : d # e => state'[d] = state[d]
  PROVE  OneClose'
<1>0. /\ Other(e) \in Ends /\ Other(e) # e /\ Other(Other(e)) = e
      /\ fin \in [Ends -> Nat] /\ ChanOK
      /\ \A d \in Ends : d = e \/ d = Other(e)
  BY EndFacts DEF TypeInv, FlagsOK
<1>1. /\ fin'[e] = fin[e] + 1 /\ fin[e] \in Nat /\ fin[Other(e)] \in Nat
      /\ \A d \in Ends : d # e => fin'[d] = fin[d]
  BY <1>0
<1>2. CASE SecondClose
  <2>1. \A d \in Ends : fin[d] > 1 => fin'[d] > 1
    BY <1>0, <1>1
  <2>. QED
    BY <1>2, <2>1 DEF OneClose, SecondClose
<1>3. CASE fin[e] # 0
  <2>1. fin'[e] > 1
    BY <1>1, <1>3
  <2>. QED
    BY <2>1 DEF OneClose, SecondClose
<1>4. CASE fin[e] = 0 /\ ~SecondClose
  <2>0. \A d \in Ends : Clean(d)
    BY <1>4 DEF OneClose
  <2>1. /\ ~Ended(Other(e)) /\ ~HasClose(chan[Other(e)]) /\ ~HasFin(chan[e])
    BY <1>4, <2>0, FirstClose
  <2>2. fin'[e] > 0
    BY <1>1
  <2>3. PICK f : Put(Other(e), f) /\ Same(e) /\ Orderly(f)
    OBVIOUS
  <2>4. Clean(e)'
    <3>1. Clean(e)
      BY <2>0
    <3>2. chan'[e] = chan[e] /\ rx'[e] # "dead"
      BY <2>3, <3>1 DEF Same, Clean
    <3>. QED
      BY <2>1, <2>2, <3>1, <3>2 DEF Clean
  <2>5. Clean(Other(e))'
    <3>1. Clean(Other(e)) /\ state'[Other(e)] = state[Other(e)]
      BY <1>0, <2>0
    <3>2. PICK q, r : q \in Seq(SmallFrame) /\ q = chan[Other(e)] /\ r = chan'[Other(e)]
      BY <1>0 DEF ChanOK
    <3>3. f \in SmallFrame /\ r = Append(q, f) /\ ~HasClose(q) /\ OneFin(q)
      BY <2>1, <2>3, <3>1, <3>2 DEF Put, Clean
    <3>4. OneFin(r)
      BY <2>3, <3>2, <3>3, FinAppend
    <3>5. ~Ended(Other(e))'
      BY <2>1, <3>1 DEF Ended
    <3>6. state'[Other(e)] = "LOCAL_CLOSE" => fin'[Other(e)] > 0
      BY <1>0, <1>1, <3>1 DEF Clean
    <3>7. rx'[Other(e)] # "dead"
      BY <3>1 DEF Clean
    <3>. QED
      BY <1>0, <2>2, <3>2, <3>4, <3>5, <3>6, <3>7 DEF Clean
  <2>. QED
    BY <1>0, <2>4, <2>5 DEF OneClose
<1>. QED
  BY <1>2, <1>3, <1>4

\* Steps that close nothing, for both ends.
LEMMA StillClean ==
  ASSUME TypeInv, Life, OneClose, [Next]_vars, UNCHANGED fin,
         \A d \in Ends :
           /\ rx'[d] = "dead" => rx[d] = "dead"
           /\ Same(d) \/ Took(d) \/ \E f : Put(d, f) /\ ~Closes(f) /\ Orderly(f)
           /\ state'[d] = state[d] \/ state'[d] = SentState(state[d]) \/ state'[d] = "INIT"
  PROVE  OneClose'
<1>1. CASE SecondClose
  BY <1>1 DEF OneClose, SecondClose
<1>2. ASSUME ~SecondClose, NEW d \in Ends
      PROVE  Clean(d)'
  <2>1. Clean(d) /\ ChanOK /\ (TurnedDown => TurnedDown')
    BY <1>2, StaysDown DEF OneClose, TypeInv
  <2>2. rx'[d] # "dead"
    BY <2>1 DEF Clean
  <2>3. Ended(d)' => Ended(d)
    BY DEF Ended, SentState
  <2>4. state'[d] = "LOCAL_CLOSE" => state[d] = "LOCAL_CLOSE"
    BY DEF SentState
  <2>. QED
    BY <2>1, <2>2, <2>3, <2>4, CleanQuiet
<1>. QED
  BY <1>1, <1>2 DEF OneClose

\* The application's threads: session_open, session_accept, stream_read, stream_write.
LEMMA ThreadClean ==
  ASSUME TypeInv, Life, OneForeign, ~Failures, OneClose, [Next]_vars,
         \/ BootStep \/ OpenNewFail \/ AcceptFail
         \/ \E t \in Threads : WriteCall(t) \/ ThreadStep(t) \/ ThreadFail(t)
  PROVE  OneClose'
<1>0. /\ ChanOK /\ FlagsOK /\ NumbersOK /\ HdrOK /\ LocalsOK /\ Headers /\ Shape
  BY DEF TypeInv, Life
<1>1. ASSUME UNCHANGED <<chan, fin, rx>>,
             \A d \in Ends : \/ state'[d] = state[d] \/ state'[d] = SentState(state[d])
                             \/ state'[d] = "INIT"
      PROVE  OneClose'
  BY <1>1, StillClean DEF Same
<1>2. CASE BootStep
  BY <1>0, <1>1, <1>2 DEF BootStep, OpenCheck, OpenNew, AcceptTake, session, rxvars, FlagsOK
<1>3. ~OpenNewFail /\ ~AcceptFail
  BY DEF OpenNewFail, AcceptFail
<1>4. ASSUME NEW t \in Threads, WriteCall(t) \/ ThreadStep(t) \/ ThreadFail(t)
      PROVE  OneClose'
  <2>0. ~ThreadFail(t)
    BY DEF ThreadFail, AnnounceFail, WriteFail, WriteFillFail, ReadClearFail, SelectFail
  <2>1. PICK e \in Ends : e = Home[t] /\ Other(e) \in Ends /\ Other(e) # e
                          /\ \A d \in Ends : d = e \/ d = Other(e)
    BY ThreadFacts, EndFacts
  <2>2. CASE Announce(t)
    <3>1. PICK f : f \in SmallFrame /\ f = hdr[t]
      BY <1>0, <2>2 DEF HdrOK, Announce
    <3>2. f.flags \subseteq {"SYN", "ACK"} /\ f.type = "WINDOW_UPDATE"
      BY <1>0, <2>2, <3>1 DEF Announce, Headers
    <3>3. ~Closes(f) /\ Orderly(f)
      BY <3>2 DEF Closes, Orderly
    <3>4. Put(Other(e), f) /\ Same(e) /\ UNCHANGED <<fin, rx, state>>
      BY <1>0, <2>1, <2>2, <3>1, QueueStep DEF Announce, session, rxvars
    <3>. QED
      BY <2>1, <3>3, <3>4, StillClean
  <2>3. CASE WriteSend(t)
    <3>0. t \in Writers /\ pc[t] = "send" /\ UNCHANGED rx /\ HasStream(e)
      BY <1>0, <2>1, <2>3 DEF WriteSend, rxvars, Shape
    <3>1. PICK last \in BOOLEAN :
            /\ last => e \in Foreign
            /\ fin' = [fin EXCEPT ![e] = IF last THEN @ + 1 ELSE @]
            /\ Queue(e, hdr_encode("DATA", SendFlags(state[e]) \cup (IF last THEN {"FIN"} ELSE {}),
                                   out[e], out[e] + SendSize(t)))
      BY <2>1, <2>3 DEF WriteSend
    <3>2. state' = [state EXCEPT ![e] = SentState(@)]
      BY <2>1, <2>3 DEF WriteSend
    <3>3. SendSize(t) \in Nat /\ out[e] \in Nat /\ state[e] \in States
      BY <1>0, <3>0 DEF SendSize, MIN, LocalsOK, NumbersOK, FlagsOK
    <3>4. PICK fl : /\ fl = SendFlags(state[e]) \cup (IF last THEN {"FIN"} ELSE {})
                    /\ fl \in SUBSET Flags /\ (~last => fl \cap {"FIN", "RST"} = {})
      <4>1. /\ SendFlags(state[e]) \in SUBSET Flags
            /\ "FIN" \notin SendFlags(state[e]) /\ "RST" \notin SendFlags(state[e])
        BY <3>3, SendFlagsType DEF SendFlags
      <4>. QED
        BY <4>1 DEF Flags
    <3>5. PICK f : f \in SmallFrame /\ f = hdr_encode("DATA", fl, out[e], out[e] + SendSize(t))
      BY <3>3, <3>4, FrameTypes
    <3>6. Orderly(f) /\ (~last => ~Closes(f))
      BY <3>4, <3>5 DEF hdr_encode, Orderly, Closes
    <3>7. Put(Other(e), f) /\ Same(e)
      BY <1>0, <3>1, <3>4, <3>5, QueueStep
    <3>8. /\ state'[e] = SentState(state[e])
          /\ \A d \in Ends : d # e => state'[d] = state[d]
      BY <1>0, <3>2 DEF FlagsOK
    <3>9. CASE last
      <4>1. fin' = [fin EXCEPT ![e] = @ + 1] /\ e \in Foreign
        BY <3>1, <3>9
      <4>. QED
        BY <3>0, <3>6, <3>7, <3>8, <4>1, CloseClean
    <3>10. CASE ~last
      <4>1. fin' = fin
        BY <1>0, <3>1, <3>10 DEF FlagsOK
      <4>2. \A d \in Ends :
              /\ rx'[d] = "dead" => rx[d] = "dead"
              /\ Same(d) \/ Took(d) \/ \E g : Put(d, g) /\ ~Closes(g) /\ Orderly(g)
              /\ state'[d] = state[d] \/ state'[d] = SentState(state[d]) \/ state'[d] = "INIT"
        BY <2>1, <3>0, <3>6, <3>7, <3>8, <3>10
      <4>. QED
        BY <4>1, <4>2, StillClean
    <3>. QED
      BY <3>9, <3>10
  <2>4. CASE WindowUpdate(t)
    <3>1. UNCHANGED <<chan, fin, rx>> /\ state' = [state EXCEPT ![e] = SentState(@)]
      BY <2>1, <2>4 DEF WindowUpdate, session, rxvars
    <3>. QED
      BY <1>0, <1>1, <3>1 DEF FlagsOK
  <2>5. CASE ~(Announce(t) \/ WriteSend(t) \/ WindowUpdate(t))
    <3>1. UNCHANGED <<chan, fin, rx, state>>
      BY <1>4, <2>0, <2>5 DEF WriteCall, ThreadStep, WriteCheck, WriteWindow,
       WriteSelect, WriteReduce, WriteFill, ReadCall, ReadCheck, ReadPending, ReadSelect,
       ReadTake, ReadClear, session, rxvars
    <3>. QED
      BY <1>1, <3>1
  <2>. QED
    BY <2>2, <2>3, <2>4, <2>5
<1>. QED
  BY <1>2, <1>3, <1>4

\* A frame of data fits the window (InFlightFits).
LEMMA WindowKept ==
  ASSUME TypeInv, IInv, NEW e \in Ends, Arrived(e, "DATA")
  PROVE  ~WindowExceeded(e, Head(chan[e]))
<1>0. TypeOK /\ RecvLedger /\ DataOrder /\ Other(e) \in Ends /\ Other(Other(e)) = e
  BY EndFacts DEF IInv, FlowLedger
<1>1. PICK q, f : q \in Seq(SmallFrame) /\ q = chan[e] /\ f = Head(q)
  BY DEF TypeInv, ChanOK
<1>2. q # << >> /\ f.type = "DATA"
  BY <1>1 DEF Arrived
<1>3. f = q[1] /\ 1 \in 1 .. Len(q) /\ f \in SmallFrame
  <2>1. f = q[1] /\ q[1] \in SmallFrame /\ Len(q) \in Nat \ {0}
    BY <1>1, <1>2, TailFacts
  <2>. QED
    BY <2>1
<1>4. f.lo \in Nat /\ f.hi \in Nat /\ f.lo <= f.hi
  BY <1>3, SmallFrames
<1>5. /\ out[Other(e)] \in Nat /\ got[e] \in Nat /\ frame_remain[e] \in Nat
      /\ recv_window[e] \in Nat /\ granted[e] \in Nat /\ applied[Other(e)] \in Nat
  BY <1>0, Numbers
<1>6. /\ recv_window[e] = MAX_STREAM_WINDOW_SIZE + granted[e] - got[e]
      /\ out[Other(e)] <= MAX_STREAM_WINDOW_SIZE + applied[Other(e)]
      /\ applied[Other(e)] <= granted[e]
  BY <1>0, Books DEF RecvLedger
<1>7. f.lo < f.hi => got[e] + frame_remain[e] <= f.lo /\ f.hi <= out[Other(e)]
  BY <1>0, <1>1, <1>2, <1>3 DEF DataOrder, Runs
<1>8. f.hi - f.lo <= recv_window[e]
  BY <1>4, <1>5, <1>6, <1>7, NumberFacts
<1>9. ~(f.hi - f.lo > recv_window[e])
  BY <1>4, <1>5, <1>8
<1>. QED
  BY <1>1, <1>9 DEF WindowExceeded, hdr_length

\* session_process finds nothing to complain of at a clean end.
LEMMA NoComplaint ==
  ASSUME TypeInv, Life, NEW e \in Ends, Clean(e), StreamFrame(e),
         ~Missing(e, Head(chan[e]))
  PROVE  ~ProtocolError(e, Head(chan[e]))
<1>0. /\ ChanOK /\ Opening /\ Birth /\ (e = "c" \/ e = "s") /\ state[e] \in States
  BY DEF TypeInv, Life, FlagsOK, Ends
<1>1. PICK q, f : q \in Seq(SmallFrame) /\ q = chan[e] /\ f = Head(q)
  BY <1>0 DEF ChanOK
<1>2. q # << >> /\ pc["open"] = "done" /\ (e = "c" => "SYN" \notin f.flags /\ state["c"] # "NONE")
  BY <1>1, StreamFrameLife
<1>3. "SYN" \in f.flags => ~NoSyn(q)
  BY <1>1, <1>2, SynTail
<1>4. "SYN" \in f.flags => state[e] = "NONE"
  BY <1>0, <1>1, <1>2, <1>3 DEF Birth, Unborn
<1>5. state[e] # "INIT"
  BY <1>0, <1>2 DEF Opening, Birth
<1>6. "FIN" \in f.flags => ~Ended(e)
  BY <1>1, <1>2, FinTail DEF Clean
<1>7. "SYN" \in f.flags \/ state[e] # "NONE"
  BY <1>1 DEF Missing
<1>8. ~FlagsFail(FoundState(e, f), f.flags)
  BY <1>0, <1>5, <1>6, <1>7 DEF FlagsFail, FoundState, FinAllowed, AckState, Ended, States
<1>. QED
  BY <1>1, <1>4, <1>8 DEF ProtocolError

\* A frame is delivered to a clean end.
LEMMA DeliverClean ==
  ASSUME TypeInv, Life, OneClose, [Next]_vars, UNCHANGED fin, NEW e \in Ends,
         RxData(e) \/ RxWindowUpdate(e)
  PROVE  OneClose'
<1>0. /\ ChanOK /\ FlagsOK /\ (TurnedDown => TurnedDown') /\ Other(e) \in Ends /\ Other(e) # e
      /\ \A d \in Ends : d = e \/ d = Other(e)
  BY StaysDown, EndFacts DEF TypeInv
<1>1. CASE SecondClose
  BY <1>1 DEF OneClose, SecondClose
<1>2. CASE ~SecondClose
  <2>0. Clean(e) /\ Clean(Other(e))
    BY <1>0, <1>2 DEF OneClose
  <2>1. chan[e] # << >> /\ Discard(e) /\ Incoming(e, Head(chan[e]))
    BY DEF RxData, RxWindowUpdate, Arrived
  <2>2. Took(e) /\ Same(Other(e))
    BY <1>0, <2>1, DiscardStep
  <2>3. rx'[e] # "dead" /\ rx'[Other(e)] = rx[Other(e)]
    BY <1>0 DEF RxData, RxWindowUpdate, FlagsOK
  <2>4. PICK q, r, f : q \in Seq(SmallFrame) /\ q = chan[e] /\ r = chan'[e] /\ f = Head(q)
    BY <1>0 DEF ChanOK
  <2>5. q # << >> /\ r = Tail(q) /\ OneFin(q)
    BY <2>0, <2>2, <2>4 DEF Took, Clean
  <2>6. /\ state'[e] = FlagsState(FoundState(e, f), f.flags)
        /\ state'[Other(e)] = state[Other(e)]
    BY <1>0, <2>1, <2>4 DEF Incoming, FlagsOK
  <2>7. Clean(Other(e))'
    <3>1. rx'[Other(e)] # "dead" /\ (Ended(Other(e))' => Ended(Other(e)))
      BY <2>0, <2>3, <2>6 DEF Clean, Ended
    <3>. QED
      BY <1>0, <2>0, <2>2, <2>6, <3>1, CleanQuiet
  <2>8. CASE ~Closes(f)
    <3>1. "FIN" \notin f.flags /\ "RST" \notin f.flags
      BY <2>8 DEF Closes
    <3>2. Ended(e)' => Ended(e)
      BY <2>6, <3>1 DEF Ended, FlagsState, AckState, FoundState
    <3>3. state'[e] = "LOCAL_CLOSE" => state[e] = "LOCAL_CLOSE"
      BY <2>6, <3>1 DEF FlagsState, AckState, FoundState
    <3>4. Clean(e)'
      BY <1>0, <2>0, <2>2, <2>3, <3>2, <3>3, CleanQuiet
    <3>. QED
      BY <1>0, <2>7, <3>4 DEF OneClose
  <2>9. CASE Closes(f)
    <3>1. "FIN" \in f.flags \/ "RST" \in f.flags
      BY <2>9 DEF Closes
    <3>2. HasClose(q) /\ ~HasFin(r) /\ OneFin(r)
      BY <2>4, <2>5, <2>9, FinTail
    <3>3. state'[e] # "LOCAL_CLOSE"
      BY <2>6, <3>1 DEF FlagsState
    <3>4. Clean(e)'
      BY <1>0, <2>0, <2>3, <2>4, <3>2, <3>3 DEF Clean
    <3>. QED
      BY <1>0, <2>7, <3>4 DEF OneClose
  <2>. QED
    BY <2>8, <2>9
<1>. QED
  BY <1>1, <1>2

\* The SYN is refused.
LEMMA RefuseClean ==
  ASSUME TypeInv, Life, OneClose, [Next]_vars, NEW e \in Ends, RxRefuse(e)
  PROVE  OneClose'
<1>0. /\ ChanOK /\ Birth /\ Shape /\ "c" \in Ends /\ "s" \in Ends /\ Other("s") = "c"
      /\ Other("c") = "s" /\ (e = "c" \/ e = "s") /\ \A d \in Ends : d = "c" \/ d = "s"
  BY EndFacts DEF TypeInv, Life, Ends, Other
<1>1. /\ StreamFrame(e) /\ "SYN" \in Head(chan[e]).flags /\ UNCHANGED <<state, rx, fin, pc>>
      /\ Reply(e, hdr_encode("WINDOW_UPDATE", {"RST"}, 0, 0))
  BY DEF RxRefuse, Refused, session, rxvars, local
<1>2. chan[e] # << >> /\ e = "s" /\ pc["open"] = "done"
  BY <1>0, <1>1, StreamFrameLife
<1>3. PICK g : g \in SmallFrame /\ g = hdr_encode("WINDOW_UPDATE", {"RST"}, 0, 0)
  BY FrameTypes DEF Flags
<1>4. "FIN" \notin g.flags /\ Orderly(g)
  BY <1>3 DEF hdr_encode, Orderly
<1>5. Took("s") /\ Put("c", g)
  BY <1>0, <1>1, <1>2, <1>3, ReplyStep
<1>6. CASE SecondClose
  BY <1>1, <1>6 DEF OneClose, SecondClose
<1>7. CASE ~SecondClose
  <2>0. Clean("c") /\ Clean("s")
    BY <1>0, <1>7 DEF OneClose
  <2>1. PICK q, r : q \in Seq(SmallFrame) /\ q = chan["s"] /\ r = chan'["s"]
    BY <1>0 DEF ChanOK
  <2>2. q # << >> /\ r = Tail(q) /\ "SYN" \in Head(q).flags
    BY <1>1, <1>2, <1>5, <2>1 DEF Took
  <2>3. ~NoSyn(q) /\ NoSyn(r)
    BY <1>0, <2>1, <2>2, SynTail DEF Birth
  <2>4. Unborn /\ state["s"] = "NONE" /\ pc["accept"] \in {"idle", "failed"}
    BY <1>0, <2>1, <2>3 DEF Unborn, Birth
  <2>5. TurnedDown'
    BY <1>1, <1>2, <2>1, <2>3, <2>4 DEF TurnedDown, Unborn
  <2>6. ~(fin["s"] > 0)
    BY <1>0, <2>4 DEF Shape, HasStream
  <2>7. PICK p, w : p \in Seq(SmallFrame) /\ p = chan["c"] /\ w = chan'["c"]
    BY <1>0 DEF ChanOK
  <2>8. w = Append(p, g) /\ OneFin(p) /\ ~HasFin(p)
    BY <1>0, <1>5, <2>0, <2>6, <2>7 DEF Put, Clean
  <2>9. OneFin(w) /\ ~HasFin(w)
    BY <1>3, <1>4, <2>7, <2>8, FinAppend
  <2>10. Clean("c")'
    BY <1>1, <2>0, <2>5, <2>7, <2>9 DEF Clean
  <2>11. Clean("s")'
    <3>1. ~Unborn' /\ (TurnedDown => TurnedDown')
      BY <2>5 DEF TurnedDown
    <3>2. rx'["s"] # "dead" /\ (Ended("s")' => Ended("s"))
      BY <1>1, <2>0 DEF Clean, Ended
    <3>. QED
      BY <1>0, <1>1, <1>5, <2>0, <3>1, <3>2, CleanQuiet
  <2>. QED
    BY <1>0, <2>10, <2>11 DEF OneClose
<1>. QED
  BY <1>6, <1>7

\* The receive thread and the peer keep both ends clean.
LEMMA RxClean ==
  ASSUME TypeInv, Life, IInv, ~Failures, OneClose, [Next]_vars, NEW e \in Ends,
         RxStep(e) \/ RxFailStep(e) \/ SessionGoAway(e)
  PROVE  OneClose'
<1>0. /\ ChanOK /\ FlagsOK /\ Other(e) \in Ends /\ Other(e) # e
      /\ \A d \in Ends : d = e \/ d = Other(e)
  BY EndFacts DEF TypeInv
<1>1. UNCHANGED fin
  BY DEF RxStep, RxFailStep, RxRefuse, RxMissing, RxProtocolError, RxWindowExceeded,
     RxData, RxChunk, RxNotify, RxWindowUpdate, RxWriteableNotify, RxGoAway, RxFail,
     RxIncomingFail, RxRefuseFail, SessionGoAway, session
<1>2. CASE SecondClose
  BY <1>1, <1>2 DEF OneClose, SecondClose
<1>3. CASE ~SecondClose
  <2>0. Clean(e)
    BY <1>3 DEF OneClose
  <2>1. ~RxFailStep(e)
    BY DEF RxFailStep, RxFail, RxIncomingFail, RxRefuseFail
  <2>2. ~RxProtocolError(e) /\ ~RxWindowExceeded(e)
    BY <2>0, NoComplaint, WindowKept DEF RxProtocolError, RxWindowExceeded
  <2>3. CASE RxRefuse(e)
    BY <2>3, RefuseClean
  <2>4. CASE RxData(e) \/ RxWindowUpdate(e)
    BY <1>1, <2>4, DeliverClean
  <2>5. CASE RxMissing(e) \/ RxGoAway(e)
    <3>1. chan[e] # << >> /\ Discard(e) /\ UNCHANGED state
      BY <2>5 DEF RxMissing, RxGoAway, StreamFrame, Arrived
    <3>2. Took(e) /\ Same(Other(e))
      BY <1>0, <3>1, DiscardStep
    <3>3. UNCHANGED rx
      <4>1. PICK q, f : q \in Seq(SmallFrame) /\ q = chan[e] /\ f = Head(q)
        BY <1>0 DEF ChanOK
      <4>2. Orderly(f)
        BY <2>0, <3>1, <4>1, FinTail DEF Clean
      <4>. QED
        BY <2>5, <4>1, <4>2 DEF RxMissing, RxGoAway, Arrived, Orderly, FatalGoAway, rxvars
    <3>. QED
      BY <1>0, <1>1, <3>1, <3>2, <3>3, StillClean
  <2>6. CASE RxChunk(e) \/ RxNotify(e) \/ RxWriteableNotify(e)
    <3>1. UNCHANGED <<chan, state>>
      BY <2>6 DEF RxChunk, RxNotify, RxWriteableNotify
    <3>2. \A d \in Ends : rx'[d] = "dead" => rx[d] = "dead"
      BY <1>0, <2>6 DEF RxChunk, RxNotify, RxWriteableNotify, FlagsOK
    <3>. QED
      BY <1>1, <3>1, <3>2, StillClean DEF Same
  <2>7. CASE SessionGoAway(e)
    <3>1. GoAway(e, GO_AWAY_NORMAL) /\ UNCHANGED <<state, rx>>
      BY <2>7 DEF SessionGoAway, rxvars
    <3>2. PICK f : f = GoAwayFrame(GO_AWAY_NORMAL)
      OBVIOUS
    <3>3. Put(Other(e), f) /\ Same(e)
      BY <1>0, <3>1, <3>2, GoAwayStep DEF Reasons
    <3>4. ~Closes(f) /\ Orderly(f)
      BY <3>2 DEF GoAwayFrame, hdr_encode, Closes, Orderly, hdr_length, GO_AWAY_NORMAL
    <3>. QED
      BY <1>0, <1>1, <3>1, <3>3, <3>4, StillClean
  <2>. QED
    BY <2>1, <2>2, <2>3, <2>4, <2>5, <2>6, <2>7 DEF RxStep
<1>. QED
  BY <1>2, <1>3

\* A foreign end closes.
LEMMA PeerClean ==
  ASSUME TypeInv, Life, OneForeign, OneClose, [Next]_vars, NEW e \in Ends, PeerClose(e)
  PROVE  OneClose'
<1>0. ChanOK /\ FlagsOK
  BY DEF TypeInv
<1>1. /\ e \in Foreign /\ HasStream(e) /\ UNCHANGED rx /\ fin' = [fin EXCEPT ![e] = @ + 1]
  BY DEF PeerClose, rxvars
<1>2. \A d \in Ends : d # e => state'[d] = state[d]
  BY <1>0 DEF PeerClose, FlagsOK
<1>3. \E f : Put(Other(e), f) /\ Same(e) /\ Orderly(f)
  <2>1. PICK fl \in {"RST", "FIN"} : Queue(e, hdr_encode("WINDOW_UPDATE", {fl}, 0, 0))
    BY DEF PeerClose
  <2>2. PICK f : f \in SmallFrame /\ f = hdr_encode("WINDOW_UPDATE", {fl}, 0, 0)
    BY FrameTypes DEF Flags
  <2>3. Orderly(f)
    BY <2>2 DEF hdr_encode, Orderly
  <2>4. Put(Other(e), f) /\ Same(e)
    BY <1>0, <2>1, <2>2, QueueStep
  <2>. QED
    BY <2>3, <2>4
<1>. QED
  BY <1>1, <1>2, <1>3, CloseClean

\* Every step keeps the stream closed at most once, or some end has closed twice.
LEMMA CloseInv ==
  ASSUME OneUserPerEnd, OneForeign, ~Failures
  PROVE  Spec => [](TypeInv /\ Life /\ OneClose)
<1>1. Init => OneClose
  <2> SUFFICES ASSUME Init, NEW e \in Ends PROVE Clean(e)
    BY DEF OneClose
  <2>1. chan[e] = << >> /\ rx[e] = "idle" /\ state[e] = "NONE"
    BY DEF Init
  <2>2. \A i \in 1 .. Len(<< >>) : FALSE
    OBVIOUS
  <2>3. OneFin(<< >>) /\ ~HasFin(<< >>) /\ ~HasClose(<< >>)
    BY <2>2 DEF OneFin, HasFin, HasClose
  <2>. QED
    BY <2>1, <2>3 DEF Clean, Ended
<1>2. TypeInv /\ Life /\ IInv /\ OneClose /\ [Next]_vars => OneClose'
  <2> SUFFICES ASSUME TypeInv, Life, IInv, OneClose, [Next]_vars PROVE OneClose'
    OBVIOUS
  <2>1. CASE UNCHANGED vars
    <3>1. UNCHANGED <<chan, fin, rx, state>>
      BY <2>1 DEF vars, rxvars, session
    <3>. QED
      BY <3>1, StillClean DEF Same
  <2>2. ASSUME NEW e \in Ends, RxStep(e) \/ RxFailStep(e) \/ SessionGoAway(e)
        PROVE  OneClose'
    BY <2>2, RxClean
  <2>3. ASSUME NEW e \in Ends, PeerClose(e)
        PROVE  OneClose'
    BY <2>3, PeerClean
  <2>. QED
    BY <2>1, <2>2, <2>3, ThreadClean DEF Next
<1>3. IInv /\ [Next]_vars => IInv'
  BY NextInv, StutterInv
<1>. QED
  BY <1>1, <1>2, <1>3, InitInv, InitTypes, InitLife, NextTypes, NextLife, PTL DEF Spec

\* A session ends over a close only when the same end closed twice.  A FIN, on a
\* WINDOW_UPDATE or on the last DATA, or an RST, meets a stream that can take it in
\* every order of the threads' steps: before the stream is accepted, while the ACK is
\* under way, after a go away (stream_process_flags, mux.c:322).  It presumes that
\* one end can close (stream_close is a stub in mux.c), one user thread per end and
\* nothing that fails; FINs of two foreign ends are beyond mux.c.
THEOREM SecondCloseCorrect ==
  ASSUME OneUserPerEnd, OneForeign, ~Failures
  PROVE  Spec => []OnlySecondCloseFails
<1>1. OneClose => OnlySecondCloseFails
  BY DEF OneClose, SecondClose, Clean, OnlySecondCloseFails
<1>. QED
  BY <1>1, CloseInv, PTL

\* Between two sessions that run mux.c, with one user thread per end and nothing that
\* fails, no receive loop ever ends: neither side finds a stream declared twice, a
\* flag out of place or the window exceeded (mux.c:782), nor gets an error go away.
THEOREM NoErrorCorrect ==
  ASSUME OneUserPerEnd, ~Failures, Foreign = {}
  PROVE  Spec => []NoProtocolError
<1>1. TypeInv /\ Life /\ OneClose => NoProtocolError
  <2> SUFFICES ASSUME TypeInv, Life, OneClose, NEW e \in Ends PROVE rx[e] # "dead"
    BY DEF NoProtocolError
  <2>1. \A d \in Ends : ~(fin[d] > 0)
    BY DEF Life, Shape
  <2>2. \A d \in Ends : fin[d] > 1 => fin[d] > 0
    BY DEF TypeInv, FlagsOK
  <2>. QED
    BY <2>1, <2>2 DEF OneClose, SecondClose, Clean
<1>2. OneForeign
  BY DEF OneForeign
<1>. QED
  BY <1>1, <1>2, CloseInv, PTL

-----------------------------------------------------------------------------
(* The end of file: a FIN is the last word of its end. *)

Carries(f, x) == f.type = "DATA" /\ f.lo <= x /\ x < f.hi
Carried(q, x) == \E i \in 1 .. Len(q) : Carries(q[i], x)

\* A FIN comes on a WINDOW_UPDATE, and no payload comes after it.
FinLast(q) ==
  \A i \in 1 .. Len(q) : "FIN" \in q[i].flags =>
    /\ q[i].type = "WINDOW_UPDATE"
    /\ \A j \in 1 .. Len(q) : j > i => ~(q[j].type = "DATA" /\ q[j].lo < q[j].hi)

\* The stream exists at e, or will once the SYN arrives.
Exists(e) == Unborn \/ state[e] # "NONE"

\* While e receives, every byte that was sent and has not arrived is in a frame
\* under way: none is dropped.
Whole(e) ==
  Exists(e) /\ rx[e] # "dead" =>
    \A x \in got[e] + frame_remain[e] .. out[Other(e)] - 1 : Carried(chan[e], x)

\* The other end has closed, and e has got all that it sent.
Heard(e) == fin[Other(e)] > 0 /\ got[e] = out[Other(e)]

\* Who has closed writes no more, and a FIN under way is the last word.
Silence ==
  /\ \A t \in Writers : fin[Home[t]] > 0 => pc[t] = "idle"
  /\ \A e \in Ends : FinLast(chan[e]) /\ (HasFin(chan[e]) => fin[Other(e)] > 0)

\* A FIN was taken when everything before it had been.
Over ==
  /\ \A e \in Ends : /\ state[e] \in {"LOCAL_CLOSE", "CLOSED"} => e \in Foreign
                     /\ state[e] = "REMOTE_CLOSE" => Heard(e)
  /\ \A t \in Readers : ret[t] = "eof" => Heard(Home[t]) /\ taken[Home[t]] = got[Home[t]]

\* What a frame adds to a queue.
LEMMA CarryAppend ==
  ASSUME NEW q \in Seq(SmallFrame), NEW f \in SmallFrame, NEW r, r = Append(q, f)
  PROVE  /\ \A x : Carried(q, x) \/ Carries(f, x) => Carried(r, x)
         /\ FinLast(q) /\ f.type # "DATA" /\ ("FIN" \in f.flags => f.type = "WINDOW_UPDATE")
              => FinLast(r)
         /\ ~HasFin(q) /\ "FIN" \notin f.flags => FinLast(r) /\ ~HasFin(r)
<1>1. /\ r \in Seq(SmallFrame) /\ Len(r) = Len(q) + 1 /\ Len(q) \in Nat
      /\ \A i \in 1 .. Len(q) : r[i] = q[i]
      /\ r[Len(q) + 1] = f
  BY AppendFacts
<1>2. /\ \A i \in 1 .. Len(r) : (i \in 1 .. Len(q) /\ r[i] = q[i]) \/ (i = Len(q) + 1 /\ r[i] = f)
      /\ \A i \in 1 .. Len(q) : i \in 1 .. Len(r) /\ r[i] = q[i]
      /\ Len(q) + 1 \in 1 .. Len(r)
      /\ \A j \in 1 .. Len(r) : ~(j > Len(q) + 1)
  BY <1>1
<1>3. \A x : Carried(q, x) \/ Carries(f, x) => Carried(r, x)
  BY <1>1, <1>2 DEF Carried
<1>4. FinLast(q) /\ f.type # "DATA" /\ ("FIN" \in f.flags => f.type = "WINDOW_UPDATE")
        => FinLast(r)
  BY <1>2 DEF FinLast
<1>5. ~HasFin(q) /\ "FIN" \notin f.flags => FinLast(r) /\ ~HasFin(r)
  BY <1>2 DEF FinLast, HasFin
<1>. QED
  BY <1>3, <1>4, <1>5

\* What is left when the head of a queue is gone.
LEMMA CarryTail ==
  ASSUME NEW q \in Seq(SmallFrame), q # << >>, NEW r, r = Tail(q), NEW f, f = Head(q)
  PROVE  /\ \A x : Carried(q, x) /\ ~Carries(f, x) => Carried(r, x)
         /\ FinLast(q) => FinLast(r)
         /\ FinLast(q) /\ "FIN" \in f.flags => /\ f.type = "WINDOW_UPDATE"
                                               /\ \A x \in Nat : ~Carried(q, x)
<1>1. /\ r \in Seq(SmallFrame) /\ Len(r) = Len(q) - 1 /\ Len(q) \in Nat \ {0}
      /\ \A i \in 1 .. Len(q) - 1 : r[i] = q[i + 1]
      /\ f = q[1]
  BY TailFacts
<1>2. /\ \A i \in 1 .. Len(r) : r[i] = q[i + 1] /\ i + 1 \in 1 .. Len(q)
      /\ \A i, j \in 1 .. Len(r) : j > i => j + 1 > i + 1
      /\ 1 \in 1 .. Len(q)
      /\ \A i \in 1 .. Len(q) : i = 1 \/ i > 1
  BY <1>1
<1>3. \A i \in 1 .. Len(q) : i = 1 \/ (\E k \in 1 .. Len(r) : i = k + 1)
  <2>1. \A i \in 1 .. Len(q) : i = 1 \/ (i - 1 \in 1 .. Len(r) /\ i = (i - 1) + 1)
    BY <1>1
  <2>. QED
    BY <2>1
<1>4. \A x : Carried(q, x) /\ ~Carries(f, x) => Carried(r, x)
  BY <1>1, <1>2, <1>3 DEF Carried
<1>5. FinLast(q) => FinLast(r)
  BY <1>2 DEF FinLast
<1>6. ASSUME FinLast(q), "FIN" \in f.flags
      PROVE  f.type = "WINDOW_UPDATE" /\ \A x \in Nat : ~Carried(q, x)
  <2>1. /\ f.type = "WINDOW_UPDATE"
        /\ \A j \in 1 .. Len(q) : j > 1 => ~(q[j].type = "DATA" /\ q[j].lo < q[j].hi)
    BY <1>1, <1>2, <1>6 DEF FinLast
  <2>2. ASSUME NEW x \in Nat, NEW j \in 1 .. Len(q), Carries(q[j], x) PROVE FALSE
    <3>1. q[j].type = "DATA" /\ q[j].lo <= x /\ x < q[j].hi /\ q[j] \in SmallFrame
      BY <2>2 DEF Carries
    <3>2. q[j].lo \in Nat /\ q[j].hi \in Nat
      BY <3>1, SmallFrames
    <3>3. q[j].lo < q[j].hi
      BY <3>1, <3>2
    <3>4. j # 1
      BY <1>1, <2>1, <3>1
    <3>. QED
      BY <1>2, <2>1, <3>1, <3>3, <3>4
  <2>. QED
    BY <2>1, <2>2 DEF Carried
<1>. QED
  BY <1>4, <1>5, <1>6

\* A stream comes to exist only by the SYN.
LEMMA ExistsStays ==
  ASSUME TypeInv, Life, [Next]_vars, NEW e \in Ends, Exists(e)'
  PROVE  Exists(e)
<1>0. /\ ChanOK /\ Opening /\ Birth /\ state \in [Ends -> States] /\ (e = "c" \/ e = "s")
  BY DEF TypeInv, FlagsOK, Life, Ends
<1>1. CASE Unborn'
  BY <1>1, StaysDown DEF Exists
<1>2. CASE state'[e] # "NONE"
  <2> SUFFICES ASSUME state[e] = "NONE" PROVE Unborn
    BY DEF Exists
  <2>1. PICK d \in Ends : Changes(d)
    BY NextChanges
  <2>2. d = e
    BY <1>0, <1>2, <2>1 DEF Changes, Incoming
  <2>3. CASE chan[e] # << >> /\ Accepted(e, Head(chan[e]))
    <3>1. PICK q, f : q \in Seq(SmallFrame) /\ q = chan[e] /\ f = Head(q)
      BY <1>0 DEF ChanOK
    <3>2. "SYN" \in f.flags
      BY <2>3, <3>1 DEF Accepted, Missing
    <3>3. ~NoSyn(q)
      BY <2>3, <3>1, <3>2, SynTail
    <3>. QED
      BY <1>0, <3>1, <3>3 DEF Birth, Unborn
  <2>4. CASE e = "c"
    BY <1>0, <2>4 DEF Opening, Unborn
  <2>. QED
    BY <1>0, <1>2, <2>1, <2>2, <2>3, <2>4 DEF Changes, SentState, StreamFrame, Arrived
<1>. QED
  BY <1>1, <1>2 DEF Exists

\* A step that neither sends payload to e nor takes any.
LEMMA WholeSame ==
  ASSUME TypeInv, Life, [Next]_vars, NEW e \in Ends, Whole(e),
         rx'[e] # "dead" => rx[e] # "dead",
         got'[e] + frame_remain'[e] = got[e] + frame_remain[e],
         out'[Other(e)] = out[Other(e)],
         Same(e) \/ (\E f : Put(e, f)) \/ (Took(e) /\ Head(chan[e]).type # "DATA")
  PROVE  Whole(e)'
<1> SUFFICES ASSUME Exists(e)', rx'[e] # "dead",
                    NEW x \in got'[e] + frame_remain'[e] .. out'[Other(e)] - 1
             PROVE  Carried(chan'[e], x)
  BY DEF Whole
<1>1. Carried(chan[e], x)
  BY ExistsStays DEF Whole
<1>2. PICK q, r : q \in Seq(SmallFrame) /\ q = chan[e] /\ r = chan'[e]
  BY DEF TypeInv, ChanOK
<1>3. CASE Same(e)
  BY <1>1, <1>3 DEF Same
<1>4. ASSUME NEW f, Put(e, f) PROVE Carried(r, x)
  <2>1. f \in SmallFrame /\ r = Append(q, f)
    BY <1>2, <1>4 DEF Put
  <2>. QED
    BY <1>1, <1>2, <2>1, CarryAppend
<1>5. CASE Took(e) /\ Head(chan[e]).type # "DATA"
  <2>1. q # << >> /\ r = Tail(q) /\ ~Carries(Head(q), x)
    BY <1>2, <1>5 DEF Took, Carries
  <2>. QED
    BY <1>1, <1>2, <2>1, CarryTail
<1>. QED
  BY <1>2, <1>3, <1>4, <1>5

\* The frame that session_handle_data takes begins where the last one ended.
LEMMA NextFrame ==
  ASSUME TypeInv, IInv, NEW e \in Ends, Whole(e), Exists(e), Arrived(e, "DATA"),
         NEW f, f = Head(chan[e]), f.lo < f.hi
  PROVE  f.lo = got[e] /\ frame_remain[e] = 0
<1>0. TypeOK /\ DataOrder /\ Other(e) \in Ends
  BY EndFacts DEF IInv, FlowLedger
<1>1. PICK q : q \in Seq(SmallFrame) /\ q = chan[e]
  BY DEF TypeInv, ChanOK
<1>2. q # << >> /\ f.type = "DATA" /\ rx[e] = "idle"
  BY <1>1 DEF Arrived
<1>3. f = q[1] /\ 1 \in 1 .. Len(q) /\ f \in SmallFrame /\ Len(q) \in Nat
  <2>1. f = q[1] /\ q[1] \in SmallFrame /\ Len(q) \in Nat \ {0}
    BY <1>1, <1>2, TailFacts
  <2>. QED
    BY <2>1
<1>4. /\ f.lo \in Nat /\ f.hi \in Nat /\ out[Other(e)] \in Nat /\ got[e] \in Nat
  BY <1>0, <1>3, SmallFrames, Numbers
<1>5. frame_remain[e] = 0
  BY <1>0, <1>2 DEF DataOrder
<1>6. got[e] <= f.lo /\ f.hi <= out[Other(e)]
  BY <1>0, <1>1, <1>2, <1>3, <1>4, <1>5 DEF DataOrder, Runs
<1>7. got[e] \in got[e] + frame_remain[e] .. out[Other(e)] - 1
  BY <1>4, <1>5, <1>6
<1>8. PICK j \in 1 .. Len(q) : Carries(q[j], got[e])
  BY <1>1, <1>2, <1>7 DEF Whole, Carried
<1>9. /\ q[j].type = "DATA" /\ q[j].lo <= got[e] /\ got[e] < q[j].hi
      /\ q[j].lo \in Nat /\ q[j].hi \in Nat
  BY <1>1, <1>8, SmallFrames DEF Carries
<1>10. CASE j = 1
  BY <1>3, <1>4, <1>5, <1>6, <1>9, <1>10
<1>11. CASE j # 1
  <2>1. 1 < j /\ q[j].lo < q[j].hi
    BY <1>3, <1>4, <1>9, <1>11
  <2>2. f.hi <= q[j].lo
    BY <1>0, <1>1, <1>2, <1>3, <1>9, <2>1 DEF DataOrder, Runs
  <2>. QED
    BY <1>4, <1>6, <1>9, <2>2
<1>. QED
  BY <1>10, <1>11

\* The steps that count bytes or frames with FIN.
Counting ==
  \/ \E d \in Ends : RxChunk(d) \/ RxData(d) \/ PeerClose(d)
  \/ \E u \in Writers : WriteSend(u)
  \/ \E u \in Readers : ReadTake(u)

\* Every other step leaves the counts alone.
LEMMA NextCounts ==
  ASSUME [Next]_vars, ~Counting
  PROVE  UNCHANGED <<got, taken, out, fin, frame_remain>>
<1>1. CASE UNCHANGED vars
  BY <1>1 DEF vars, buffer, session, rxvars
<1>2. CASE BootStep \/ OpenNewFail \/ AcceptFail
  BY <1>2 DEF BootStep, OpenCheck, OpenNew, AcceptTake, OpenNewFail, AcceptFail, buffer,
     session, rxvars
<1>3. ASSUME NEW t \in Threads, WriteCall(t) \/ ThreadStep(t) \/ ThreadFail(t)
      PROVE  UNCHANGED <<got, taken, out, fin, frame_remain>>
  <2>1. ~WriteSend(t) /\ ~ReadTake(t)
    BY DEF Counting, WriteSend, ReadTake
  <2>. QED
    BY <1>3, <2>1 DEF WriteCall, ThreadStep, ThreadFail, Announce, WriteCheck, WriteWindow,
       WriteSelect, WriteReduce, WriteFill, ReadCall, ReadCheck, ReadPending, ReadSelect,
       ReadClear, WriteFillFail, ReadClearFail, SelectFail, WindowUpdate, AnnounceFail,
       WriteFail, buffer, session, rxvars
<1>4. ASSUME NEW e \in Ends, RxStep(e) \/ RxFailStep(e)
      PROVE  UNCHANGED <<got, taken, out, fin, frame_remain>>
  <2>1. ~RxChunk(e) /\ ~RxData(e)
    BY DEF Counting
  <2>. QED
    BY <1>4, <2>1 DEF RxStep, RxFailStep, RxRefuse, RxMissing, RxProtocolError,
       RxWindowExceeded, RxNotify, RxWindowUpdate, RxWriteableNotify, RxGoAway, RxFail,
       RxIncomingFail, RxRefuseFail, buffer, session, rxvars
<1>5. ASSUME NEW e \in Ends, SessionGoAway(e) \/ PeerClose(e)
      PROVE  UNCHANGED <<got, taken, out, fin, frame_remain>>
  <2>1. ~PeerClose(e)
    BY DEF Counting
  <2>. QED
    BY <1>5, <2>1 DEF SessionGoAway, buffer, rxvars
<1>. QED
  BY <1>1, <1>2, <1>3, <1>4, <1>5 DEF Next

\* Only the receive thread of an end moves its position in session_process.
LEMMA OnlyReceiver ==
  ASSUME TypeInv, [Next]_vars, NEW e \in Ends, ~Receives(e)
  PROVE  rx'[e] = rx[e] /\ got'[e] = got[e] /\ frame_remain'[e] = frame_remain[e]
<1>0. rx \in [Ends -> RxStates] /\ got \in [Ends -> Nat] /\ frame_remain \in [Ends -> Nat]
  BY DEF TypeInv, FlagsOK, NumbersOK
<1>1. CASE UNCHANGED <<rx, got, frame_remain>>
  BY <1>1
<1>2. CASE UNCHANGED vars
  BY <1>2 DEF vars, buffer, rxvars
<1>3. CASE BootStep \/ OpenNewFail \/ AcceptFail
  BY <1>3 DEF BootStep, OpenCheck, OpenNew, AcceptTake, OpenNewFail, AcceptFail, buffer,
     rxvars
<1>4. ASSUME NEW t \in Threads, WriteCall(t) \/ ThreadStep(t) \/ ThreadFail(t)
      PROVE  UNCHANGED <<rx, got, frame_remain>>
  BY <1>4 DEF WriteCall, ThreadStep, ThreadFail, Announce, WriteCheck, WriteWindow,
     WriteSelect, WriteReduce, WriteFill, ReadCall, ReadCheck, ReadPending, ReadSelect,
     ReadClear, WriteFillFail, ReadClearFail, SelectFail, WindowUpdate, AnnounceFail,
     WriteFail, WriteSend, ReadTake, buffer, rxvars
<1>5. ASSUME NEW d \in Ends, RxStep(d) \/ RxFailStep(d)
      PROVE  rx'[e] = rx[e] /\ got'[e] = got[e] /\ frame_remain'[e] = frame_remain[e]
  <2>1. d # e
    BY <1>5 DEF Receives
  <2>2. CASE RxChunk(d)
    BY <1>0, <2>1, <2>2 DEF RxChunk
  <2>3. CASE RxData(d)
    BY <1>0, <2>1, <2>3 DEF RxData, buffer
  <2>4. CASE ~RxChunk(d) /\ ~RxData(d)
    BY <1>0, <1>5, <2>1, <2>4 DEF RxStep, RxFailStep, RxRefuse, RxMissing, RxProtocolError,
       RxWindowExceeded, RxNotify, RxWindowUpdate, RxWriteableNotify, RxGoAway, RxFail,
       RxIncomingFail, RxRefuseFail, buffer, rxvars
  <2>. QED
    BY <2>2, <2>3, <2>4
<1>6. ASSUME NEW d \in Ends, SessionGoAway(d) \/ PeerClose(d)
      PROVE  UNCHANGED <<rx, got, frame_remain>>
  BY <1>6 DEF SessionGoAway, PeerClose, buffer, rxvars
<1>. QED
  BY <1>1, <1>2, <1>3, <1>4, <1>5, <1>6 DEF Next

\* stream_write queues a DATA frame with the bytes it counts; FIN comes by itself.
LEMMA SendFrames ==
  ASSUME TypeInv, "data-fin" \notin Closing, NEW t \in Writers, WriteSend(t),
         NEW e, e = Home[t]
  PROVE  /\ e \in Ends /\ pc[t] = "send"
         /\ UNCHANGED <<got, taken, frame_remain, fin, rx, ret>>
         /\ \A d \in Ends : d # e => out'[d] = out[d]
         /\ Same(e)
         /\ \E f : /\ Put(Other(e), f) /\ f.type = "DATA" /\ "FIN" \notin f.flags
                   /\ f.lo = out[e] /\ f.hi = out'[e]
<1>0. /\ ChanOK /\ FlagsOK /\ NumbersOK /\ LocalsOK /\ t \in Threads /\ e \in Ends
  BY ThreadFacts DEF TypeInv
<1>1. PICK last \in BOOLEAN :
        /\ last => "data-fin" \in Closing
        /\ fin' = [fin EXCEPT ![e] = IF last THEN @ + 1 ELSE @]
        /\ Queue(e, hdr_encode("DATA", SendFlags(state[e]) \cup (IF last THEN {"FIN"} ELSE {}),
                               out[e], out[e] + SendSize(t)))
  BY DEF WriteSend
<1>2. ~last
  BY <1>1
<1>3. UNCHANGED fin
  BY <1>0, <1>1, <1>2 DEF FlagsOK
<1>4. SendSize(t) \in Nat /\ out[e] \in Nat /\ state[e] \in States
  BY <1>0 DEF SendSize, MIN, LocalsOK, NumbersOK, FlagsOK
<1>5. PICK fl : /\ fl = SendFlags(state[e]) \cup (IF last THEN {"FIN"} ELSE {})
                /\ fl \in SUBSET Flags /\ "FIN" \notin fl
  <2>1. SendFlags(state[e]) \in SUBSET Flags /\ "FIN" \notin SendFlags(state[e])
    BY <1>4, SendFlagsType DEF SendFlags
  <2>. QED
    BY <1>2, <2>1
<1>6. PICK f : f \in SmallFrame /\ f = hdr_encode("DATA", fl, out[e], out[e] + SendSize(t))
  BY <1>4, <1>5, FrameTypes
<1>7. /\ f.type = "DATA" /\ "FIN" \notin f.flags
      /\ f.lo = out[e] /\ f.hi = out[e] + SendSize(t)
  BY <1>5, <1>6 DEF hdr_encode
<1>8. Put(Other(e), f) /\ Same(e)
  BY <1>0, <1>1, <1>5, <1>6, QueueStep
<1>9. /\ out' = [out EXCEPT ![e] = @ + SendSize(t)] /\ pc[t] = "send"
      /\ UNCHANGED <<got, taken, frame_remain, rx, ret>>
  BY DEF WriteSend, rxvars
<1>10. out'[e] = out[e] + SendSize(t) /\ \A d \in Ends : d # e => out'[d] = out[d]
  BY <1>0, <1>9 DEF NumbersOK
<1>. QED
  BY <1>0, <1>3, <1>7, <1>8, <1>9, <1>10

\* A closing end queues a WINDOW_UPDATE and has no writer in a call.
LEMMA CloseFrames ==
  ASSUME TypeInv, NEW e \in Ends, PeerClose(e)
  PROVE  /\ UNCHANGED <<got, taken, out, frame_remain, rx, pc, ret>>
         /\ fin'[e] > 0 /\ \A d \in Ends : d # e => fin'[d] = fin[d]
         /\ \A t \in Writers : Home[t] = e => pc[t] = "idle"
         /\ Same(e)
         /\ \E f : Put(Other(e), f) /\ f.type = "WINDOW_UPDATE"
<1>0. ChanOK /\ FlagsOK /\ fin[e] \in Nat
  BY DEF TypeInv, FlagsOK
<1>1. PICK fl \in {"RST", "FIN"} : Queue(e, hdr_encode("WINDOW_UPDATE", {fl}, 0, 0))
  BY DEF PeerClose
<1>2. PICK f : f \in SmallFrame /\ f = hdr_encode("WINDOW_UPDATE", {fl}, 0, 0)
  BY FrameTypes DEF Flags
<1>3. f.type = "WINDOW_UPDATE"
  BY <1>2 DEF hdr_encode
<1>4. Put(Other(e), f) /\ Same(e)
  BY <1>0, <1>1, <1>2, QueueStep
<1>5. fin' = [fin EXCEPT ![e] = @ + 1]
  BY DEF PeerClose
<1>6. fin'[e] > 0 /\ \A d \in Ends : d # e => fin'[d] = fin[d]
  BY <1>0, <1>5 DEF FlagsOK
<1>7. /\ UNCHANGED <<got, taken, out, frame_remain, rx, pc, ret>>
      /\ \A t \in Writers : Home[t] = e => pc[t] = "idle"
  BY DEF PeerClose, buffer, rxvars, local
<1>. QED
  BY <1>3, <1>4, <1>6, <1>7

\* A count of frames with FIN only grows.
LEMMA FinGrows ==
  ASSUME TypeInv, [Next]_vars, "data-fin" \notin Closing, NEW e \in Ends
  PROVE  fin[e] > 0 => fin'[e] > 0
<1>0. fin[e] \in Nat
  BY DEF TypeInv, FlagsOK
<1>1. ASSUME NEW t \in Writers, WriteSend(t) PROVE fin'[e] = fin[e]
  BY <1>1, SendFrames
<1>2. ASSUME NEW d \in Ends, PeerClose(d) PROVE fin'[e] = fin[e] \/ fin'[e] > 0
  BY <1>2, CloseFrames
<1>3. ASSUME NEW d \in Ends, RxChunk(d) \/ RxData(d) PROVE UNCHANGED fin
  BY <1>3 DEF RxChunk, RxData, session
<1>4. ASSUME NEW t \in Readers, ReadTake(t) PROVE UNCHANGED fin
  BY <1>4 DEF ReadTake, session
<1>5. ~Counting => UNCHANGED fin
  BY NextCounts
<1>. QED
  BY <1>0, <1>1, <1>2, <1>3, <1>4, <1>5 DEF Counting

\* An idle writer leaves its loop only for stream_write, and an end that has closed
\* calls it no more.
LEMMA WriterRests ==
  ASSUME TypeInv, [Next]_vars, NEW t \in Writers, pc[t] = "idle", fin[Home[t]] > 0
  PROVE  pc'[t] = "idle"
<1>0. /\ pc \in [Threads -> PCs] /\ t \in Threads /\ t # "open" /\ t # "accept" /\ t \notin Readers
      /\ t \notin Updaters
      /\ fin[Home[t]] \in Nat
  BY ThreadFacts DEF TypeInv, LocalsOK, FlagsOK
<1>1. CASE UNCHANGED vars
  BY <1>1 DEF vars, local
<1>2. CASE BootStep \/ OpenNewFail \/ AcceptFail
  BY <1>0, <1>2 DEF BootStep, OpenCheck, OpenNew, AcceptTake, OpenNewFail, AcceptFail, Goto
<1>3. ASSUME NEW u \in Threads, WriteCall(u) \/ ThreadStep(u) \/ ThreadFail(u)
      PROVE  pc'[t] = "idle"
  <2>1. u # t
    BY <1>0, <1>3 DEF WriteCall, ThreadStep, ThreadFail, Announce, WriteCheck, WriteWindow,
       WriteSelect, WriteReduce, WriteFill, ReadCall, ReadCheck, ReadPending, ReadSelect,
       ReadTake, ReadClear, WriteFillFail, ReadClearFail, SelectFail, WindowUpdate, WriteSend,
       WriteFail, AnnounceFail
  <2>2. \E l : pc' = [pc EXCEPT ![u] = l]
    BY <1>3 DEF WriteCall, ThreadStep, ThreadFail, Announce, WriteCheck, WriteWindow,
       WriteSelect, WriteReduce, WriteFill, ReadCall, ReadCheck, ReadPending, ReadSelect,
       ReadTake, ReadClear, WriteFillFail, ReadClearFail, SelectFail, WindowUpdate, WriteSend,
       WriteFail, AnnounceFail, Goto, Return
  <2>. QED
    BY <1>0, <2>1, <2>2
<1>4. ASSUME NEW e \in Ends, RxStep(e) \/ RxFailStep(e) \/ SessionGoAway(e) \/ PeerClose(e)
      PROVE  pc'[t] = "idle"
  <2>1. UNCHANGED local
    BY <1>4 DEF RxStep, RxFailStep, RxRefuse, RxMissing, RxProtocolError, RxWindowExceeded,
       RxData, RxChunk, RxNotify, RxWindowUpdate, RxWriteableNotify, RxGoAway, RxFail,
       RxIncomingFail, RxRefuseFail, SessionGoAway, PeerClose
  <2>. QED
    BY <2>1 DEF local
<1>. QED
  BY <1>1, <1>2, <1>3, <1>4 DEF Next

\* Silence is kept.
LEMMA NextSilence ==
  ASSUME TypeInv, Life, Silence, [Next]_vars, "data-fin" \notin Closing
  PROVE  Silence'
<1>1. ASSUME NEW t \in Writers, fin'[Home[t]] > 0 PROVE pc'[t] = "idle"
  <2>0. Home[t] \in Ends /\ fin[Home[t]] \in Nat
    BY ThreadFacts DEF TypeInv, FlagsOK
  <2>1. CASE fin[Home[t]] > 0
    BY <2>1, WriterRests DEF Silence
  <2>2. CASE ~(fin[Home[t]] > 0)
    <3>1. fin'[Home[t]] # fin[Home[t]]
      BY <1>1, <2>2
    <3>2. ASSUME NEW d \in Ends, PeerClose(d) PROVE pc'[t] = "idle"
      <4>1. d = Home[t]
        BY <2>0, <3>1, <3>2, CloseFrames
      <4>. QED
        BY <3>2, <4>1, CloseFrames
    <3>3. ASSUME NEW u \in Writers, WriteSend(u) PROVE FALSE
      BY <3>1, <3>3, SendFrames
    <3>4. ASSUME NEW d \in Ends, RxChunk(d) \/ RxData(d) PROVE FALSE
      BY <3>1, <3>4 DEF RxChunk, RxData, session
    <3>5. ASSUME NEW u \in Readers, ReadTake(u) PROVE FALSE
      BY <3>1, <3>5 DEF ReadTake, session
    <3>6. Counting
      BY <3>1, NextCounts
    <3>. QED
      BY <3>2, <3>3, <3>4, <3>5, <3>6 DEF Counting
  <2>. QED
    BY <2>1, <2>2
<1>2. ASSUME NEW e \in Ends
      PROVE  FinLast(chan'[e]) /\ (HasFin(chan'[e]) => fin'[Other(e)] > 0)
  <2>0. /\ Other(e) \in Ends /\ fin[Other(e)] \in Nat
    BY EndFacts DEF TypeInv, FlagsOK
  <2>1. PICK q, r : q \in Seq(SmallFrame) /\ q = chan[e] /\ r = chan'[e]
    BY DEF TypeInv, ChanOK
  <2>2. FinLast(q) /\ (HasFin(q) => fin[Other(e)] > 0) /\ (HasFin(q) => fin'[Other(e)] > 0)
    BY <2>0, <2>1, FinGrows DEF Silence
  <2>3. CASE Same(e)
    BY <2>1, <2>2, <2>3 DEF Same
  <2>4. CASE Took(e)
    <3>1. q # << >> /\ r = Tail(q)
      BY <2>1, <2>4 DEF Took
    <3>. QED
      BY <2>1, <2>2, <3>1, CarryTail, FinTail
  <2>5. ASSUME NEW f, Put(e, f), Plain(f)
        PROVE  FinLast(r) /\ (HasFin(r) => fin'[Other(e)] > 0)
    <3>1. f \in SmallFrame /\ r = Append(q, f) /\ f.type # "DATA" /\ "FIN" \notin f.flags
      BY <2>1, <2>5 DEF Put, Plain
    <3>. QED
      BY <2>1, <2>2, <3>1, CarryAppend, FinAppend
  <2>6. ASSUME NEW t \in Writers, WriteSend(t)
        PROVE  FinLast(chan'[e]) /\ (HasFin(chan'[e]) => fin'[Other(e)] > 0)
    <3>1. PICK d \in Ends : d = Home[t]
      BY ThreadFacts
    <3>2. CASE e = d
      BY <2>3, <2>6, <3>1, <3>2, SendFrames
    <3>3. CASE e = Other(d)
      <4>1. PICK f : Put(e, f) /\ "FIN" \notin f.flags
        BY <2>6, <3>1, <3>3, SendFrames
      <4>2. f \in SmallFrame /\ r = Append(q, f)
        BY <2>1, <4>1 DEF Put
      <4>3. Other(e) = d
        BY <3>3, EndFacts
      <4>4. ~(fin[d] > 0)
        BY <2>6, <3>1, SendFrames DEF Silence
      <4>5. ~HasFin(q)
        BY <2>2, <4>3, <4>4
      <4>. QED
        BY <2>1, <4>1, <4>2, <4>5, CarryAppend
    <3>. QED
      BY <3>2, <3>3, EndFacts
  <2>7. ASSUME NEW d \in Ends, PeerClose(d)
        PROVE  FinLast(chan'[e]) /\ (HasFin(chan'[e]) => fin'[Other(e)] > 0)
    <3>2. CASE e = d
      BY <2>3, <2>7, <3>2, CloseFrames
    <3>3. CASE e = Other(d)
      <4>1. PICK f : Put(e, f) /\ f.type = "WINDOW_UPDATE"
        BY <2>7, <3>3, CloseFrames
      <4>2. f \in SmallFrame /\ r = Append(q, f) /\ f.type # "DATA"
        BY <2>1, <4>1 DEF Put
      <4>3. Other(e) = d
        BY <3>3, EndFacts
      <4>4. fin'[d] > 0
        BY <2>7, CloseFrames
      <4>. QED
        BY <2>1, <2>2, <4>1, <4>2, <4>3, <4>4, CarryAppend
    <3>. QED
      BY <3>2, <3>3, EndFacts
  <2>8. Quietly(e)
    BY NextQuietly
  <2>. QED
    BY <2>1, <2>3, <2>4, <2>5, <2>6, <2>7, <2>8 DEF Quietly, Speaking
<1>. QED
  BY <1>1, <1>2 DEF Silence

\* Once everything has been heard, there is nothing more to come.
LEMMA HeardStays ==
  ASSUME TypeInv, IInv, Silence, [Next]_vars, "data-fin" \notin Closing,
         NEW e \in Ends, Heard(e)
  PROVE  Heard(e)' /\ got'[e] = got[e]
<1>0. /\ TypeOK /\ DataOrder /\ Other(e) \in Ends /\ got[e] = out[Other(e)] /\ fin[Other(e)] > 0
  BY EndFacts DEF IInv, FlowLedger, Heard
<1>1. fin'[Other(e)] > 0
  BY <1>0, FinGrows
<1>2. got[e] \in Nat /\ frame_remain[e] \in Nat /\ out[Other(e)] \in Nat
  BY <1>0, Numbers
<1>3. got'[e] = got[e]
  <2>1. ASSUME RxChunk(e) PROVE FALSE
    <3>1. frame_remain[e] = 0
      <4>1. got[e] + frame_remain[e] <= out[Other(e)]
        BY <1>0 DEF DataOrder
      <4>. QED
        BY <1>0, <1>2, <4>1
    <3>2. PICK k : k \in 1 .. ChunkSize(e)
      BY <2>1 DEF RxChunk
    <3>3. ChunkSize(e) = 0
      BY <3>1, NumberFacts DEF ChunkSize, MIN
    <3>. QED
      BY <3>2, <3>3
  <2>2. CASE Receives(e)
    BY <2>1, <2>2 DEF Receives, RxStep, RxFailStep, RxRefuse, RxMissing, RxProtocolError,
       RxWindowExceeded, RxData, RxNotify, RxWindowUpdate, RxWriteableNotify, RxGoAway, RxFail,
       RxIncomingFail, RxRefuseFail, buffer
  <2>. QED
    BY <2>2, OnlyReceiver
<1>4. out'[Other(e)] = out[Other(e)]
  <2>1. ASSUME NEW t \in Writers, WriteSend(t) PROVE out'[Other(e)] = out[Other(e)]
    <3>1. Other(e) # Home[t]
      BY <1>0, <2>1, SendFrames DEF Silence
    <3>. QED
      BY <1>0, <2>1, <3>1, SendFrames
  <2>2. ASSUME NEW d \in Ends, RxChunk(d) \/ RxData(d) \/ PeerClose(d) PROVE UNCHANGED out
    BY <2>2 DEF RxChunk, RxData, PeerClose, buffer
  <2>3. ASSUME NEW t \in Readers, ReadTake(t) PROVE UNCHANGED out
    BY <2>3 DEF ReadTake
  <2>. QED
    BY <2>1, <2>2, <2>3, NextCounts DEF Counting
<1>. QED
  BY <1>0, <1>1, <1>3, <1>4 DEF Heard

\* A frame of a stream that is refused, or of one that was, is for nobody.
LEMMA DroppedFrames ==
  ASSUME TypeInv, Life, [Next]_vars, NEW e \in Ends,
         RxMissing(e) \/ RxRefuse(e) \/ (RxIncomingFail(e) /\ rx'[e] # "dead")
  PROVE  ~Exists(e)'
<1>0. /\ ChanOK /\ FlagsOK /\ Birth /\ "c" \in Ends /\ "s" \in Ends
      /\ e = "c" \/ e = "s"
  BY EndFacts DEF TypeInv, Life, Ends
<1>1. StreamFrame(e) /\ UNCHANGED <<state, pc>>
  BY DEF RxMissing, RxRefuse, RxIncomingFail, local
<1>2. /\ chan[e] # << >> /\ pc["open"] = "done"
      /\ e = "c" => "SYN" \notin Head(chan[e]).flags /\ state["c"] # "NONE"
      /\ e = "s" /\ Unborn => "SYN" \in Head(chan[e]).flags
  BY <1>1, StreamFrameLife
<1>3. CASE RxMissing(e)
  <2>1. "SYN" \notin Head(chan[e]).flags /\ state[e] = "NONE"
    BY <1>3 DEF RxMissing, Missing
  <2>2. e = "s" /\ TurnedDown
    BY <1>0, <1>2, <2>1 DEF TurnedDown
  <2>3. TurnedDown'
    BY <2>2, StaysDown
  <2>. QED
    BY <2>2, <2>3 DEF TurnedDown, Exists
<1>4. ASSUME "SYN" \in Head(chan[e]).flags, Takes(e)
      PROVE  ~Exists(e)'
  <2>1. e = "s"
    BY <1>0, <1>2, <1>4
  <2>2. PICK q, f : q \in Seq(SmallFrame) /\ q = chan[e] /\ f = Head(q)
    BY <1>0 DEF ChanOK
  <2>3. ~NoSyn(q)
    BY <1>2, <1>4, <2>2, SynTail
  <2>4. state["s"] = "NONE"
    BY <1>0, <2>1, <2>2, <2>3 DEF Birth, Unborn
  <2>5. NoSyn(chan'["s"])
    BY <1>4, <2>1, TakesChan
  <2>. QED
    BY <1>1, <1>2, <2>1, <2>4, <2>5 DEF Exists, Unborn
<1>5. CASE RxRefuse(e)
  <2>1. "SYN" \in Head(chan[e]).flags /\ Reply(e, hdr_encode("WINDOW_UPDATE", {"RST"}, 0, 0))
    BY <1>5 DEF RxRefuse, Refused
  <2>2. PICK g : g \in SmallFrame /\ g = hdr_encode("WINDOW_UPDATE", {"RST"}, 0, 0)
    BY FrameTypes DEF Flags
  <2>3. "SYN" \notin g.flags
    BY <2>2 DEF hdr_encode
  <2>4. Took(e) /\ Put(Other(e), g)
    BY <1>0, <1>2, <2>1, <2>2, ReplyStep
  <2>. QED
    BY <1>2, <1>4, <2>1, <2>3, <2>4 DEF Takes
<1>6. CASE RxIncomingFail(e)
  <2>1. "SYN" \in Head(chan[e]).flags /\ GoAwayReply(e, GO_AWAY_INTERNAL_ERR)
    BY <1>6 DEF RxIncomingFail
  <2>2. PICK g : g = GoAwayFrame(GO_AWAY_INTERNAL_ERR)
    OBVIOUS
  <2>3. "SYN" \notin g.flags
    BY <2>2 DEF GoAwayFrame, hdr_encode
  <2>4. Took(e) /\ (Put(Other(e), g) \/ Same(Other(e)))
    BY <1>0, <1>2, <2>1, <2>2, GoAwayReplyStep DEF Reasons
  <2>. QED
    BY <1>2, <1>4, <2>1, <2>3, <2>4 DEF Takes
<1>. QED
  BY <1>3, <1>5, <1>6

\* session_handle_data takes the next frame: its bytes are the next ones.
LEMMA WholeData ==
  ASSUME TypeInv, Life, IInv, [Next]_vars, NEW e \in Ends, Whole(e), RxData(e)
  PROVE  Whole(e)'
<1>0. /\ TypeOK /\ ChanOK /\ DataOrder /\ Other(e) \in Ends /\ NumbersOK
  BY EndFacts DEF IInv, FlowLedger, TypeInv
<1> SUFFICES ASSUME Exists(e)',
                    NEW x \in got'[e] + frame_remain'[e] .. out'[Other(e)] - 1
             PROVE  Carried(chan'[e], x)
  BY DEF Whole
<1>1. Exists(e)
  BY ExistsStays
<1>2. PICK q, r, f : /\ q \in Seq(SmallFrame) /\ q = chan[e] /\ r = chan'[e]
                     /\ f = Head(q) /\ q # << >>
  BY <1>0 DEF ChanOK, RxData, Arrived
<1>3. /\ rx[e] = "idle" /\ f.type = "DATA" /\ Arrived(e, "DATA")
      /\ UNCHANGED <<got, out>>
      /\ Discard(e)
      /\ frame_remain' = [frame_remain EXCEPT ![e] = hdr_length(f)]
  BY <1>2 DEF RxData, Arrived, buffer
<1>4. r = Tail(q)
  BY <1>0, <1>2, <1>3, DiscardStep DEF Took
<1>5. f \in SmallFrame /\ f.lo \in Nat /\ f.hi \in Nat /\ f.lo <= f.hi
  BY <1>2, SmallFrames
<1>6. frame_remain'[e] = f.hi - f.lo /\ frame_remain[e] = 0
  BY <1>0, <1>3 DEF NumbersOK, hdr_length, DataOrder
<1>7. got[e] \in Nat /\ out[Other(e)] \in Nat
  BY <1>0, Numbers
<1>8. f.lo < f.hi => f.lo = got[e]
  BY <1>1, <1>2, <1>3, NextFrame
<1>9. x \in got[e] + (f.hi - f.lo) .. out[Other(e)] - 1
  BY <1>3, <1>6
<1>10. x \in got[e] + frame_remain[e] .. out[Other(e)] - 1 /\ ~(f.lo <= x /\ x < f.hi)
  <2>1. CASE f.lo < f.hi
    BY <1>5, <1>6, <1>7, <1>8, <1>9, <2>1
  <2>2. CASE f.lo = f.hi
    BY <1>5, <1>6, <1>7, <1>9, <2>2
  <2>. QED
    BY <1>5, <2>1, <2>2
<1>11. Carried(q, x)
  BY <1>1, <1>2, <1>3, <1>10 DEF Whole
<1>12. ~Carries(f, x)
  BY <1>10 DEF Carries
<1>. QED
  BY <1>2, <1>4, <1>11, <1>12, CarryTail

\* The receive thread drops nothing of a stream that exists.
LEMMA WholeRx ==
  ASSUME TypeInv, Life, IInv, [Next]_vars, NEW e \in Ends, Whole(e), Receives(e)
  PROVE  Whole(e)'
<1>0. /\ ChanOK /\ FlagsOK /\ NumbersOK /\ Other(e) \in Ends
  BY EndFacts DEF TypeInv
<1>1. CASE RxData(e)
  BY <1>1, WholeData
<1>2. CASE RxMissing(e) \/ RxRefuse(e) \/ (RxIncomingFail(e) /\ rx'[e] # "dead")
  BY <1>2, DroppedFrames DEF Whole
<1>3. CASE rx'[e] = "dead"
  BY <1>3 DEF Whole
<1>4. CASE RxChunk(e)
  <2>1. PICK k : /\ k \in 1 .. ChunkSize(e)
                 /\ got' = [got EXCEPT ![e] = @ + k]
                 /\ frame_remain' = [frame_remain EXCEPT ![e] = @ - k]
    BY <1>4 DEF RxChunk
  <2>2. got'[e] = got[e] + k /\ frame_remain'[e] = frame_remain[e] - k
    BY <1>0, <2>1 DEF NumbersOK
  <2>3. got[e] \in Nat /\ frame_remain[e] \in Nat /\ k \in Int
    BY <1>0, <2>1 DEF NumbersOK
  <2>4. got'[e] + frame_remain'[e] = got[e] + frame_remain[e]
    BY <2>2, <2>3
  <2>5. rx[e] # "dead" /\ UNCHANGED <<out, chan>>
    BY <1>4 DEF RxChunk
  <2>. QED
    BY <2>4, <2>5, WholeSame DEF Same
<1>5. CASE RxNotify(e) \/ RxWriteableNotify(e)
  <2>1. rx[e] # "dead" /\ UNCHANGED <<got, frame_remain, out, chan>>
    BY <1>5 DEF RxNotify, RxWriteableNotify, buffer
  <2>. QED
    BY <2>1, WholeSame DEF Same
<1>6. CASE RxWindowUpdate(e) \/ RxGoAway(e)
  <2>1. /\ rx[e] # "dead" /\ UNCHANGED <<got, frame_remain, out>>
        /\ chan[e] # << >> /\ Head(chan[e]).type # "DATA" /\ Discard(e)
    BY <1>6 DEF RxWindowUpdate, RxGoAway, Arrived, buffer
  <2>2. Took(e)
    BY <1>0, <2>1, DiscardStep
  <2>. QED
    BY <2>1, <2>2, WholeSame
<1>7. CASE RxProtocolError(e) \/ RxWindowExceeded(e) \/ RxFail(e) \/ RxRefuseFail(e)
  <2>1. rx'[e] = "dead"
    BY <1>0, <1>7 DEF RxProtocolError, RxWindowExceeded, RxFail, RxRefuseFail, FlagsOK
  <2>. QED
    BY <1>3, <2>1
<1>. QED
  BY <1>1, <1>2, <1>3, <1>4, <1>5, <1>6, <1>7 DEF Receives, RxStep, RxFailStep

\* stream_write queues the bytes that it counts.
LEMMA WholeSend ==
  ASSUME TypeInv, Life, [Next]_vars, "data-fin" \notin Closing, NEW e \in Ends, Whole(e),
         NEW t \in Writers, WriteSend(t), Home[t] = Other(e)
  PROVE  Whole(e)'
<1> SUFFICES ASSUME Exists(e)', rx'[e] # "dead",
                    NEW x \in got'[e] + frame_remain'[e] .. out'[Other(e)] - 1
             PROVE  Carried(chan'[e], x)
  BY DEF Whole
<1>0. /\ ChanOK /\ NumbersOK /\ Other(e) \in Ends /\ Other(Other(e)) = e /\ Exists(e)
  BY EndFacts, ExistsStays DEF TypeInv
<1>1. PICK f : Put(e, f) /\ f.type = "DATA" /\ f.lo = out[Other(e)] /\ f.hi = out'[Other(e)]
  BY <1>0, SendFrames
<1>2. UNCHANGED <<got, frame_remain, rx>>
  BY SendFrames
<1>3. PICK q, r : q \in Seq(SmallFrame) /\ q = chan[e] /\ r = chan'[e]
  BY <1>0 DEF ChanOK
<1>4. f \in SmallFrame /\ r = Append(q, f)
  BY <1>1, <1>3 DEF Put
<1>5. /\ f.hi \in Nat /\ out[Other(e)] \in Nat /\ got[e] \in Nat /\ frame_remain[e] \in Nat
  BY <1>0, <1>4, SmallFrames DEF NumbersOK
<1>6. x \in got[e] + frame_remain[e] .. f.hi - 1
  BY <1>1, <1>2
<1>7. CASE x < out[Other(e)]
  <2>1. x \in got[e] + frame_remain[e] .. out[Other(e)] - 1
    BY <1>5, <1>6, <1>7
  <2>2. Carried(q, x)
    BY <1>0, <1>2, <1>3, <2>1 DEF Whole
  <2>. QED
    BY <1>3, <1>4, <2>2, CarryAppend
<1>8. CASE ~(x < out[Other(e)])
  <2>1. f.lo <= x /\ x < f.hi
    BY <1>1, <1>5, <1>6, <1>8
  <2>2. Carries(f, x)
    BY <1>1, <2>1 DEF Carries
  <2>. QED
    BY <1>3, <1>4, <2>2, CarryAppend
<1>. QED
  BY <1>7, <1>8

\* No byte is lost on its way to a stream that exists.
LEMMA NextWhole ==
  ASSUME TypeInv, Life, IInv, [Next]_vars, "data-fin" \notin Closing, NEW e \in Ends, Whole(e)
  PROVE  Whole(e)'
<1>0. Other(e) \in Ends /\ Other(e) # e
  BY EndFacts
<1>1. CASE Receives(e)
  BY <1>1, WholeRx
<1>2. CASE ~Receives(e)
  <2>1. rx'[e] = rx[e] /\ got'[e] = got[e] /\ frame_remain'[e] = frame_remain[e]
    BY <1>2, OnlyReceiver
  <2>2. Same(e) \/ \E f : Put(e, f)
    BY <1>2, NextQuietly DEF Quietly
  <2>3. CASE out'[Other(e)] = out[Other(e)]
    BY <2>1, <2>2, <2>3, WholeSame
  <2>4. CASE out'[Other(e)] # out[Other(e)]
    <3>1. ASSUME NEW d \in Ends, RxChunk(d) \/ RxData(d) \/ PeerClose(d) PROVE FALSE
      BY <2>4, <3>1 DEF RxChunk, RxData, PeerClose, buffer
    <3>2. ASSUME NEW t \in Readers, ReadTake(t) PROVE FALSE
      BY <2>4, <3>2 DEF ReadTake
    <3>3. PICK t \in Writers : WriteSend(t)
      BY <2>4, <3>1, <3>2, NextCounts DEF Counting
    <3>4. Home[t] = Other(e)
      BY <1>0, <2>4, <3>3, SendFrames
    <3>. QED
      BY <3>3, <3>4, WholeSend
  <2>. QED
    BY <2>3, <2>4
<1>. QED
  BY <1>1, <1>2

\* stream_read reports the end of file where it sees it.
LEMMA EofStep ==
  ASSUME TypeInv, [Next]_vars, NEW t \in Readers, ret[t] # "eof", ret'[t] = "eof"
  PROVE  ReadCheck(t) /\ AtEof(Home[t])
<1>0. ret \in [Threads -> Returns] /\ t \in Threads
  BY ThreadFacts DEF TypeInv, LocalsOK
<1>1. CASE UNCHANGED ret
  BY <1>1
<1>2. CASE UNCHANGED vars
  BY <1>2 DEF vars, local
<1>3. CASE BootStep \/ OpenNewFail \/ AcceptFail
  BY <1>3 DEF BootStep, OpenCheck, OpenNew, AcceptTake, OpenNewFail, AcceptFail, Goto
<1>4. ASSUME NEW u \in Threads, WriteCall(u) \/ ThreadStep(u) \/ ThreadFail(u)
      PROVE  ReadCheck(t) /\ AtEof(Home[t])
  <2>1. CASE ReadCheck(u)
    BY <1>0, <2>1 DEF ReadCheck, Goto, Return
  <2>2. CASE ~ReadCheck(u)
    <3>1. (\E r \in Returns \ {"eof"} : Return(u, r)) \/ UNCHANGED ret
      BY <1>4, <2>2 DEF WriteCall, ThreadStep, ThreadFail, Announce, WriteCheck, WriteWindow,
         WriteSelect, WriteReduce, WriteFill, ReadCall, ReadPending, ReadSelect, ReadTake,
         ReadClear, WriteFillFail, ReadClearFail, SelectFail, WindowUpdate, AnnounceFail,
         WriteFail, WriteSend, Goto, Returns
    <3>. QED
      BY <1>0, <3>1 DEF Return
  <2>. QED
    BY <2>1, <2>2
<1>5. ASSUME NEW e \in Ends, RxStep(e) \/ RxFailStep(e) \/ SessionGoAway(e) \/ PeerClose(e)
      PROVE  UNCHANGED ret
  BY <1>5 DEF RxStep, RxFailStep, RxRefuse, RxMissing, RxProtocolError, RxWindowExceeded,
     RxData, RxChunk, RxNotify, RxWindowUpdate, RxWriteableNotify, RxGoAway, RxFail,
     RxIncomingFail, RxRefuseFail, SessionGoAway, PeerClose, local
<1>. QED
  BY <1>1, <1>2, <1>3, <1>4, <1>5 DEF Next

\* A FIN that is taken was preceded by everything its end had sent.
LEMMA FinHeard ==
  ASSUME TypeInv, Life, IInv, Silence, NEW e \in Ends, Whole(e),
         StreamFrame(e), Accepted(e, Head(chan[e])), "FIN" \in Head(chan[e]).flags
  PROVE  Heard(e)
<1>0. /\ TypeOK /\ DataOrder /\ ChanOK /\ Other(e) \in Ends
  BY EndFacts DEF IInv, FlowLedger, TypeInv
<1>1. PICK q, f : q \in Seq(SmallFrame) /\ q = chan[e] /\ f = Head(q)
  BY <1>0 DEF ChanOK
<1>2. q # << >> /\ rx[e] = "idle"
  BY <1>1 DEF StreamFrame, Arrived
<1>3. HasFin(q) /\ FinLast(q) /\ \A x \in Nat : ~Carried(q, x)
  BY <1>1, <1>2, CarryTail, FinTail DEF Silence
<1>4. Exists(e)
  <2>1. CASE "SYN" \in f.flags
    <3>1. e = "s"
      BY <1>1, <2>1, StreamFrameLife DEF Ends
    <3>2. ~NoSyn(q)
      BY <1>1, <1>2, <2>1, SynTail
    <3>. QED
      BY <1>1, <3>1, <3>2 DEF Exists, Unborn
  <2>2. CASE "SYN" \notin f.flags
    BY <1>1, <2>2 DEF Accepted, Missing, Exists
  <2>. QED
    BY <2>1, <2>2
<1>5. got[e] \in Nat /\ out[Other(e)] \in Nat /\ frame_remain[e] = 0 /\ got[e] <= out[Other(e)]
  <2>1. got[e] \in Nat /\ out[Other(e)] \in Nat
    BY <1>0, Numbers
  <2>2. frame_remain[e] = 0 /\ got[e] + frame_remain[e] <= out[Other(e)]
    BY <1>0, <1>2 DEF DataOrder
  <2>. QED
    BY <2>1, <2>2
<1>6. got[e] = out[Other(e)]
  <2> SUFFICES ASSUME got[e] < out[Other(e)] PROVE FALSE
    BY <1>5
  <2>1. got[e] \in got[e] + frame_remain[e] .. out[Other(e)] - 1
    BY <1>5
  <2>2. Carried(q, got[e])
    BY <1>1, <1>2, <1>4, <2>1 DEF Whole
  <2>. QED
    BY <1>3, <1>5, <2>2
<1>7. fin[Other(e)] > 0
  BY <1>1, <1>3 DEF Silence
<1>. QED
  BY <1>6, <1>7 DEF Heard

\* The states that say the peer is done, and who may be in them.
LEMMA NextOverStates ==
  ASSUME TypeInv, Life, IInv, Silence, Over, [Next]_vars, "data-fin" \notin Closing,
         NEW e \in Ends, Whole(e)
  PROVE  /\ state'[e] \in {"LOCAL_CLOSE", "CLOSED"} => e \in Foreign
         /\ state'[e] = "REMOTE_CLOSE" => Heard(e)
<1>0. /\ state \in [Ends -> States]
      /\ state[e] \in {"LOCAL_CLOSE", "CLOSED"} => e \in Foreign
      /\ state[e] = "REMOTE_CLOSE" => Heard(e)
  BY DEF TypeInv, FlagsOK, Over
<1>1. PICK d \in Ends : Changes(d)
  BY NextChanges
<1>2. CASE state'[e] = state[e]
  BY <1>0, <1>2
<1>3. CASE state'[e] # state[e]
  <2>1. d = e
    BY <1>0, <1>1, <1>3 DEF Changes, Incoming
  <2>2. ASSUME NEW st \in {"NONE", "INIT"}, state' = [state EXCEPT ![e] = st]
        PROVE  state'[e] \in {"NONE", "INIT"}
    BY <1>0, <2>2
  <2>3. CASE state' = [state EXCEPT ![e] = SentState(@)]
    BY <1>0, <1>3, <2>3 DEF SentState
  <2>4. CASE e \in Foreign /\ \E how \in {"fin", "rst"} :
               state' = [state EXCEPT ![e] = CASE how = "rst" -> "RESET"
                      [] how = "fin" /\ @ \in {"REMOTE_CLOSE", "CLOSED"} -> "CLOSED"
                      [] OTHER -> "LOCAL_CLOSE"]
    <3>1. PICK how \in {"fin", "rst"} :
            state'[e] = CASE how = "rst" -> "RESET"
                      [] how = "fin" /\ state[e] \in {"REMOTE_CLOSE", "CLOSED"} -> "CLOSED"
                      [] OTHER -> "LOCAL_CLOSE"
      BY <1>0, <2>4
    <3>2. state'[e] # "REMOTE_CLOSE"
      BY <3>1
    <3>. QED
      BY <2>4, <3>2
  <2>5. CASE StreamFrame(e) /\ Incoming(e, Head(chan[e])) /\ Accepted(e, Head(chan[e]))
    <3>1. PICK st, fl : st = FoundState(e, Head(chan[e])) /\ fl = Head(chan[e]).flags
      OBVIOUS
    <3>2. state'[e] = FlagsState(st, fl)
      BY <1>0, <2>5, <3>1 DEF Incoming
    <3>3. st = state[e] \/ st = "SYN_RECEIVED"
      BY <3>1 DEF FoundState
    <3>4. "FIN" \in fl => Heard(e)
      BY <2>5, <3>1, FinHeard
    <3>5. /\ FlagsState(st, fl) \in {"LOCAL_CLOSE", "CLOSED"} => st \in {"LOCAL_CLOSE", "CLOSED"}
          /\ FlagsState(st, fl) = "REMOTE_CLOSE" => st = "REMOTE_CLOSE" \/ "FIN" \in fl
      BY DEF FlagsState, AckState
    <3>. QED
      BY <1>0, <3>2, <3>3, <3>4, <3>5
  <2>. QED
    BY <1>1, <1>3, <2>1, <2>2, <2>3, <2>4, <2>5 DEF Changes
<1>. QED
  BY <1>2, <1>3

\* A reader that saw the end of file has read everything.
LEMMA NextOver ==
  ASSUME TypeInv, Life, IInv, Silence, Over, \A e \in Ends : Whole(e), [Next]_vars,
         "data-fin" \notin Closing, \A t \in Readers : Home[t] \notin Foreign
  PROVE  Over'
<1>1. \A e \in Ends : Heard(e) => Heard(e)' /\ got'[e] = got[e]
  BY HeardStays
<1>2. ASSUME NEW e \in Ends
      PROVE  /\ state'[e] \in {"LOCAL_CLOSE", "CLOSED"} => e \in Foreign
             /\ state'[e] = "REMOTE_CLOSE" => Heard(e)'
  BY <1>1, NextOverStates
<1>3. ASSUME NEW t \in Readers, ret'[t] = "eof"
      PROVE  Heard(Home[t])' /\ taken'[Home[t]] = got'[Home[t]]
  <2>0. PICK e \in Ends : e = Home[t]
    BY ThreadFacts
  <2>1. CASE ret[t] = "eof"
    <3>1. Heard(e) /\ taken[e] = got[e] /\ Heard(e)' /\ got'[e] = got[e]
      BY <1>1, <2>0, <2>1 DEF Over
    <3>2. taken'[e] = taken[e]
      <4>0. /\ got[e] \in Nat /\ taken[e] \in Nat /\ taken \in [Ends -> Nat] /\ arg \in [Threads -> Nat]
        BY DEF TypeInv, NumbersOK, LocalsOK
      <4>1. ASSUME NEW u \in Readers, ReadTake(u) PROVE taken'[e] = taken[e]
        <5>1. u \in Threads /\ Home[u] \in Ends /\ arg[u] \in Nat
          BY <4>0, ThreadFacts
        <5>2. taken' = [taken EXCEPT ![Home[u]] = @ + MIN(bio_pending(Home[u]), arg[u])]
          BY <4>1 DEF ReadTake
        <5>3. CASE Home[u] # e
          BY <4>0, <5>2, <5>3
        <5>4. CASE Home[u] = e
          <6>1. MIN(bio_pending(e), arg[u]) = 0
            BY <3>1, <4>0, <5>1 DEF bio_pending, MIN
          <6>. QED
            BY <4>0, <5>2, <5>4, <6>1
        <5>. QED
          BY <5>3, <5>4
      <4>2. ASSUME NEW d \in Ends, RxChunk(d) \/ RxData(d) \/ PeerClose(d) PROVE UNCHANGED taken
        BY <4>2 DEF RxChunk, RxData, PeerClose, buffer
      <4>3. ASSUME NEW u \in Writers, WriteSend(u) PROVE UNCHANGED taken
        BY <4>3, SendFrames
      <4>. QED
        BY <4>1, <4>2, <4>3, NextCounts DEF Counting
    <3>. QED
      BY <2>0, <3>1, <3>2
  <2>2. CASE ret[t] # "eof"
    <3>1. ReadCheck(t) /\ AtEof(e)
      BY <1>3, <2>0, <2>2, EofStep
    <3>2. state[e] = "REMOTE_CLOSE" /\ Heard(e)
      BY <2>0, <3>1 DEF AtEof, Over
    <3>3. got[e] \in Nat /\ taken[e] \in Nat /\ got[e] - taken[e] = 0
      BY <3>1 DEF AtEof, bio_pending, TypeInv, NumbersOK
    <3>4. taken[e] = got[e]
      BY <3>3
    <3>5. UNCHANGED <<got, taken>>
      BY <3>1 DEF ReadCheck, buffer
    <3>. QED
      BY <1>1, <2>0, <3>2, <3>4, <3>5
  <2>. QED
    BY <2>1, <2>2
<1>. QED
  BY <1>2, <1>3 DEF Over

\* stream_read returns 0 only when every byte the peer wrote before its FIN has been
\* read, in every order of the two ends' steps and whatever fails: a FIN that comes by
\* itself, as the frames of a closing peer do, is behind all the payload, no payload of
\* a live stream is dropped on the way, and stream_read (mux.c:521) looks at the state
\* and at the buffer together.  It presumes one user thread per end and readers that do
\* not run on the closing end.
THEOREM EofCorrect ==
  ASSUME OneUserPerEnd, "data-fin" \notin Closing, \A t \in Readers : Home[t] \notin Foreign
  PROVE  Spec => []EofMeansDrained
<1>. DEFINE Inv == TypeInv /\ Life /\ IInv /\ Silence /\ Over /\ \A e \in Ends : Whole(e)
<1>1. Init => Inv
  <2> SUFFICES ASSUME Init PROVE Silence /\ Over /\ \A e \in Ends : Whole(e)
    BY InitTypes, InitLife, InitInv
  <2>1. /\ \A e \in Ends : /\ chan[e] = << >> /\ state[e] = "NONE" /\ got[e] = 0
                           /\ frame_remain[e] = 0 /\ out[e] = 0 /\ Other(e) \in Ends
        /\ \A t \in Threads : pc[t] = "idle" /\ ret[t] = "none"
    BY EndFacts DEF Init
  <2>2. \A i \in 1 .. Len(<< >>) : FALSE
    OBVIOUS
  <2>3. FinLast(<< >>) /\ ~HasFin(<< >>)
    BY <2>2 DEF FinLast, HasFin
  <2>4. Silence
    BY <2>1, <2>3, ThreadFacts DEF Silence
  <2>5. Over
    BY <2>1, ThreadFacts DEF Over
  <2>6. \A e \in Ends : Whole(e)
    BY <2>1 DEF Whole
  <2>. QED
    BY <2>4, <2>5, <2>6
<1>2. Inv /\ [Next]_vars => Inv'
  <2> SUFFICES ASSUME Inv, [Next]_vars PROVE Inv'
    OBVIOUS
  <2>1. TypeInv' /\ Life'
    BY NextTypes, NextLife
  <2>2. IInv'
    BY NextInv, StutterInv
  <2>3. Silence' /\ Over'
    BY NextSilence, NextOver
  <2>4. ASSUME NEW e \in Ends PROVE Whole(e)'
    BY NextWhole
  <2>. QED
    BY <2>1, <2>2, <2>3, <2>4
<1>3. Inv => EofMeansDrained
  BY DEF Over, Heard, EofMeansDrained
<1>. QED
  BY <1>1, <1>2, <1>3, PTL DEF Spec
=============================================================================
