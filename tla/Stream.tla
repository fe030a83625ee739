------------------------------- MODULE Stream -------------------------------
(***************************************************************************)
(* The life of one yamux stream between two sessions that run mux.c: the   *)
(* client opens it (session_open), the server accepts it (session_accept), *)
(* application threads call stream_read and stream_write on both ends, and *)
(* one receive thread per session (session_process) feeds it with frames.  *)
(*                                                                         *)
(* An atomic step is one critical section of the C code: the threads of an *)
(* end interleave exactly where mux.c releases a lock and takes the next   *)
(* one.  Frames travel whole and in order here; how their bytes are queued *)
(* and parsed is the subject of module Wire.                               *)
(*                                                                         *)
(* Payload is abstracted to its position in the byte stream: a DATA frame  *)
(* carries the half-open interval [lo, hi) of the bytes its end has        *)
(* written, and a WINDOW_UPDATE frame the interval of credit its end has   *)
(* granted, so the length field of either is hi - lo.                      *)
(***************************************************************************)
EXTENDS Integers, Sequences

CONSTANTS
  MAX_STREAM_WINDOW_SIZE, \* the initial window of both directions (mux.c:46)
  Word,                   \* 2^32: the windows are uint32_t
  Chunk,                  \* sizeof(buf) in session_handle_data (mux.c:754)
  Writers, Readers,       \* the threads that call stream_write, stream_read
  Home,                   \* the end each thread runs on
  WriteSizes, ReadSizes,  \* the sizes applications pass
  MaxBytes,               \* bound: bytes an end writes to the stream
  Blocking,               \* ends whose stream fd is blocking (would_block)
  GoAways,                \* ends whose application may call session_go_away
  Foreign,                \* ends run by another implementation of the protocol
  Closing,                \* how a foreign end closes: "fin", "data-fin", "rst"
  MaxFin,                 \* bound: frames with FIN or RST a foreign end sends
  Failures                \* whether allocations and local writes may fail

Ends == {"c", "s"}
Other(e) == IF e = "c" THEN "s" ELSE "c"

\* session_open runs on the thread "open", session_accept on "accept".
Boot == {"open", "accept"}
Updaters == Readers \cup Boot       \* the callers of send_window_update
Threads == Updaters \cup Writers

ASSUME StreamAssumption ==
  /\ MAX_STREAM_WINDOW_SIZE \in Nat \ {0}
  /\ Word \in Nat /\ Word > 2 * MAX_STREAM_WINDOW_SIZE
  /\ Chunk \in Nat \ {0}
  /\ Home \in [Threads -> Ends]
  /\ Home["open"] = "c" /\ Home["accept"] = "s"
  /\ Writers \cap Updaters = {} /\ Readers \cap Boot = {}
  /\ WriteSizes \subseteq Nat \ {0} /\ ReadSizes \subseteq Nat \ {0}
  /\ MaxBytes \in Nat /\ MaxFin \in Nat
  /\ Blocking \subseteq Ends /\ Failures \in BOOLEAN
  /\ GoAways \subseteq Ends /\ Foreign \subseteq Ends
  /\ Closing \subseteq {"fin", "data-fin", "rst"}

MIN(a, b) == IF a < b THEN a ELSE b

\* uint32_t addition and subtraction of operands below Word.
Add32(a, b) == IF a + b < Word THEN a + b ELSE a + b - Word
Sub32(a, b) == IF a >= b THEN a - b ELSE a - b + Word

Types == {"DATA", "WINDOW_UPDATE", "GO_AWAY"}
Flags == {"SYN", "ACK", "FIN", "RST"}
GO_AWAY_NORMAL == 0
GO_AWAY_PROTO_ERR == 1
GO_AWAY_INTERNAL_ERR == 2

Frame == [type : Types, flags : SUBSET Flags, lo : Nat, hi : Nat]
hdr_encode(type, flags, lo, hi) ==
  [type |-> type, flags |-> flags, lo |-> lo, hi |-> hi]
hdr_length(f) == f.hi - f.lo

\* "NONE": the session's tree holds no stream with this id.
States == {"NONE", "INIT", "SYN_SENT", "SYN_RECEIVED", "ESTABLISHED",
           "LOCAL_CLOSE", "REMOTE_CLOSE", "CLOSED", "RESET"}

VARIABLES
  state,          \* stream->state on each end
  send_window, recv_window,
  readable, writeable,    \* the flags, and with them the public fd's readiness
  got, taken,     \* bytes appended to, and read from, stream->recv_buf
  out,            \* bytes the end has put into DATA frames
  granted,        \* credit the end has added to its recv_window
  applied,        \* credit the end has added to its send_window
  chan,           \* frames on their way to the end, in order
  rx,             \* where the end's receive thread is in session_process
  frame_remain,
  local_go_away, remote_go_away,
  backlog,        \* an id is waiting in the session's accept socketpair
  fin,            \* frames with FIN or RST a foreign end has sent
  pc, arg, val,   \* per thread: position, size argument, local `window/max/r'
  hdr,            \* per thread: the header send_window_update is about to queue
  ret             \* per thread: what the last call returned

window == <<send_window, recv_window, granted, applied>>
buffer == <<got, taken, out>>
ready  == <<readable, writeable>>
rxvars == <<rx, frame_remain>>
session == <<local_go_away, remote_go_away, backlog, fin>>
local  == <<pc, arg, val, hdr, ret>>
vars == <<state, window, buffer, ready, chan, rxvars, session, local>>

bio_pending(e) == got[e] - taken[e]

NoFrame == hdr_encode("WINDOW_UPDATE", {}, 0, 0)

Init ==
  /\ state = [e \in Ends |-> "NONE"]
  /\ send_window = [e \in Ends |-> MAX_STREAM_WINDOW_SIZE]
  /\ recv_window = [e \in Ends |-> MAX_STREAM_WINDOW_SIZE]
  /\ readable = [e \in Ends |-> FALSE]
  /\ writeable = [e \in Ends |-> TRUE]
  /\ got = [e \in Ends |-> 0] /\ taken = [e \in Ends |-> 0]
  /\ out = [e \in Ends |-> 0]
  /\ granted = [e \in Ends |-> 0] /\ applied = [e \in Ends |-> 0]
  /\ chan = [e \in Ends |-> <<>>]
  /\ rx = [e \in Ends |-> "idle"] /\ frame_remain = [e \in Ends |-> 0]
  /\ local_go_away = [e \in Ends |-> FALSE]
  /\ remote_go_away = [e \in Ends |-> FALSE]
  /\ backlog = [e \in Ends |-> FALSE]
  /\ fin = [e \in Ends |-> 0]
  /\ pc = [t \in Threads |-> "idle"]
  /\ arg = [t \in Threads |-> 0] /\ val = [t \in Threads |-> 0]
  /\ hdr = [t \in Updaters |-> NoFrame]
  /\ ret = [t \in Threads |-> "none"]

Goto(t, label) == pc' = [pc EXCEPT ![t] = label] /\ UNCHANGED <<arg, val, ret>>

\* The call returns r; its arguments and locals are gone.
Return(t, r) ==
  /\ pc' = [pc EXCEPT ![t] = IF t \in Boot THEN "done" ELSE "idle"]
  /\ ret' = [ret EXCEPT ![t] = r]
  /\ arg' = [arg EXCEPT ![t] = 0]
  /\ val' = [val EXCEPT ![t] = 0]

\* session_send_buf_write of a whole frame: the peer will receive it in order.
Queue(e, f) == chan' = [chan EXCEPT ![Other(e)] = Append(@, f)]

\* The receive thread of e takes the first frame and queues reply g.
Reply(e, g) ==
  chan' = [chan EXCEPT ![e] = Tail(@), ![Other(e)] = Append(@, g)]
Discard(e) == chan' = [chan EXCEPT ![e] = Tail(@)]

\* session_go_away_for_reason: local_go_away is set even when the header does
\* not fit into the send buffer, which every caller but one ignores.
GoAwayFrame(reason) == hdr_encode("GO_AWAY", {}, 0, reason)
GoAway(e, reason) ==
  /\ local_go_away' = [local_go_away EXCEPT ![e] = TRUE]
  /\ \/ Queue(e, GoAwayFrame(reason))
     \/ Failures /\ UNCHANGED chan
GoAwayReply(e, reason) ==
  /\ local_go_away' = [local_go_away EXCEPT ![e] = TRUE]
  /\ \/ Reply(e, GoAwayFrame(reason))
     \/ Failures /\ Discard(e)

-----------------------------------------------------------------------------
(* Stream state: stream_send_flags and stream_process_flags. *)

\* The flags stream_send_flags adds to the next header, and the state after it.
SendFlags(st) == CASE st = "INIT" -> {"SYN"}
                   [] st = "SYN_RECEIVED" -> {"ACK"}
                   [] OTHER -> {}
SentState(st) == CASE st = "INIT" -> "SYN_SENT"
                   [] st = "SYN_RECEIVED" -> "ESTABLISHED"
                   [] OTHER -> st

\* Mutant: an ACK establishes the stream whatever its state.
AckStateAlways(st, flags) == IF "ACK" \in flags THEN "ESTABLISHED" ELSE st

\* Mutant: the ACK of our SYN is ignored.
AckStateIgnored(st, flags) == st

AckState(st, flags) ==
  IF "ACK" \in flags /\ st = "SYN_SENT" THEN "ESTABLISHED" ELSE st

\* Mutant: a FIN is rejected until the stream has been accepted.
FinAllowedAccepted(st) == st \in {"SYN_SENT", "ESTABLISHED", "LOCAL_CLOSE"}

\* A FIN in any other state makes stream_process_flags fail.
FinAllowed(st) ==
  st \in {"SYN_SENT", "SYN_RECEIVED", "ESTABLISHED", "LOCAL_CLOSE"}

FlagsFail(st, flags) == "FIN" \in flags /\ ~FinAllowed(AckState(st, flags))

FlagsState(st, flags) ==
  LET acked == AckState(st, flags)
      finned == IF "FIN" \notin flags THEN acked
                ELSE IF acked = "LOCAL_CLOSE" THEN "CLOSED" ELSE "REMOTE_CLOSE"
  IN  IF "RST" \in flags THEN "RESET" ELSE finned

\* Mutant: a FIN changes the state and wakes nobody.
WakesOnReset(flags) == "RST" \in flags

\* FIN and RST wake whoever waits for the stream's fd; stream_notify_waiting
\* ignores a socketpair that fails.
Wakes(flags) == flags \cap {"FIN", "RST"} # {}
stream_notify_waiting(e, flags) ==
  \E w, r \in (IF Failures THEN BOOLEAN ELSE {TRUE}) :
    /\ writeable' = [writeable EXCEPT ![e] = @ \/ (w /\ Wakes(flags))]
    /\ readable' = [readable EXCEPT ![e] = @ \/ (r /\ Wakes(flags))]

-----------------------------------------------------------------------------
(* session_open, session_accept and send_window_update. *)

\* The application of e asks for an orderly shutdown.
SessionGoAway(e) ==
  /\ e \in GoAways /\ ~local_go_away[e]
  /\ GoAway(e, GO_AWAY_NORMAL)
  /\ UNCHANGED <<state, window, buffer, ready, rxvars, remote_go_away, backlog,
                 fin, local>>

\* session_open tests remote_go_away once, before it allocates anything.
OpenCheck ==
  /\ pc["open"] = "idle"
  /\ pc' = [pc EXCEPT !["open"] = IF remote_go_away["c"] THEN "failed" ELSE "new"]
  /\ UNCHANGED <<state, window, buffer, ready, chan, rxvars, session, arg, val,
                 hdr, ret>>

\* stream_new: the stream enters the tree with full windows, in STATE_INIT.
OpenNew ==
  /\ pc["open"] = "new"
  /\ state' = [state EXCEPT !["c"] = "INIT"]
  /\ Goto("open", "update")
  /\ UNCHANGED <<window, buffer, ready, chan, rxvars, session, hdr>>

OpenNewFail ==
  /\ Failures /\ pc["open"] = "new"
  /\ Goto("open", "failed")
  /\ UNCHANGED <<state, window, buffer, ready, chan, rxvars, session, hdr>>

\* session_accept reads an id from the socketpair and finds its stream.
AcceptTake ==
  /\ pc["accept"] = "idle" /\ backlog["s"]
  /\ backlog' = [backlog EXCEPT !["s"] = FALSE]
  /\ Goto("accept", "update")
  /\ UNCHANGED <<state, window, buffer, ready, chan, rxvars, local_go_away,
                 remote_go_away, fin, hdr>>

\* The read fails: the session goes away.
AcceptFail ==
  /\ Failures /\ pc["accept"] = "idle"
  /\ GoAway("s", GO_AWAY_INTERNAL_ERR)
  /\ Goto("accept", "failed")
  /\ UNCHANGED <<state, window, buffer, ready, rxvars, remote_go_away, backlog,
                 fin, hdr>>

\* Mutant: unread data is not taken off the credit.
DeltaUnread(e) == Sub32(MAX_STREAM_WINDOW_SIZE, recv_window[e])

\* The credit that brings the receive window of e back to what the buffer
\* can still take: (max - buf_len) - recv_window in uint32_t.
Delta(e) == Sub32(Sub32(MAX_STREAM_WINDOW_SIZE, bio_pending(e)), recv_window[e])

\* Mutant: flags alone do not make an update necessary.
NeedsUpdateBoth(delta, flags) ==
  delta >= MAX_STREAM_WINDOW_SIZE \div 2 /\ flags # {}

\* Half a window of credit, or flags to send, are worth a WINDOW_UPDATE.
NeedsUpdate(delta, flags) ==
  delta >= MAX_STREAM_WINDOW_SIZE \div 2 \/ flags # {}

\* send_window_update up to the unlock of recv_lock: the state moves and the
\* window grows before the header that tells the peer is queued.
WindowUpdate(t) ==
  LET e == Home[t]
      flags == SendFlags(state[e])
      delta == Delta(e)
  IN  /\ t \in Updaters /\ pc[t] = "update"
      /\ state' = [state EXCEPT ![e] = SentState(@)]
      /\ \/ /\ ~NeedsUpdate(delta, flags)
            /\ Return(t, "ok")
            /\ UNCHANGED <<recv_window, granted, hdr>>
         \/ /\ NeedsUpdate(delta, flags)
            /\ recv_window' = [recv_window EXCEPT ![e] = Add32(@, delta)]
            /\ granted' = [granted EXCEPT ![e] = @ + delta]
            /\ hdr' = [hdr EXCEPT ![t] = hdr_encode("WINDOW_UPDATE", flags,
                                           granted[e], granted[e] + delta)]
            /\ Goto(t, "announce")
      /\ UNCHANGED <<send_window, applied, buffer, ready, chan, rxvars,
                     session>>

\* The rest of send_window_update: the header goes into the send buffer.
Announce(t) ==
  /\ t \in Updaters /\ pc[t] = "announce"
  /\ Queue(Home[t], hdr[t])
  /\ Return(t, "ok")
  /\ hdr' = [hdr EXCEPT ![t] = NoFrame]
  /\ UNCHANGED <<state, window, buffer, ready, rxvars, session>>

\* The send buffer cannot grow.  stream_read still returns the bytes it took;
\* session_open frees the new stream, session_accept gives the stream up.
AnnounceFail(t) ==
  /\ Failures /\ t \in Updaters /\ pc[t] = "announce"
  /\ state' = IF t = "open" THEN [state EXCEPT !["c"] = "NONE"] ELSE state
  /\ IF t \in Boot THEN Goto(t, "failed") ELSE Return(t, "ok")
  /\ hdr' = [hdr EXCEPT ![t] = NoFrame]
  /\ UNCHANGED <<window, buffer, ready, chan, rxvars, session>>

\* A thread has the stream_t pointer once session_open or session_accept
\* has returned it.
HasStream(e) == pc[IF e = "c" THEN "open" ELSE "accept"] = "done"

\* fcntl does not fail on the fd of a stream.
would_block(e) == e \in Blocking

-----------------------------------------------------------------------------
(* stream_write. *)

\* A thread may call at any time, whatever its fd polls and whatever the last
\* call returned.  A foreign end writes no more once it has sent FIN.
WriteCall(t) ==
  LET e == Home[t] IN
  /\ t \in Writers /\ pc[t] = "idle"
  /\ HasStream(e) /\ fin[e] = 0
  /\ \E n \in WriteSizes :
       /\ out[e] + n <= MaxBytes
       /\ arg' = [arg EXCEPT ![t] = n]
  /\ pc' = [pc EXCEPT ![t] = "check"]
  /\ UNCHANGED <<state, window, buffer, ready, chan, rxvars, session, val, hdr, ret>>

WriteCheck(t) ==
  LET e == Home[t] IN
  /\ t \in Writers /\ pc[t] = "check"
  /\ \/ /\ state[e] \in {"LOCAL_CLOSE", "CLOSED", "RESET"}
        /\ Return(t, "closed")
     \/ /\ state[e] \notin {"LOCAL_CLOSE", "CLOSED", "RESET"}
        /\ Goto(t, "window")
  /\ UNCHANGED <<state, window, buffer, ready, chan, rxvars, session, hdr>>

\* Reads send_window; an empty one means EAGAIN or waiting in select.
WriteWindow(t) ==
  LET e == Home[t] IN
  /\ t \in Writers /\ pc[t] = "window"
  /\ \/ /\ send_window[e] > 0
        /\ val' = [val EXCEPT ![t] = send_window[e]]
        /\ pc' = [pc EXCEPT ![t] = "send"]
        /\ UNCHANGED <<arg, ret>>
     \/ send_window[e] = 0 /\ would_block(e) /\ Goto(t, "select")
     \/ send_window[e] = 0 /\ ~would_block(e) /\ Return(t, "again")
  /\ UNCHANGED <<state, window, buffer, ready, chan, rxvars, session, hdr>>

WriteSelect(t) ==
  /\ t \in Writers /\ pc[t] = "select" /\ writeable[Home[t]]
  /\ Goto(t, "check")
  /\ UNCHANGED <<state, window, buffer, ready, chan, rxvars, session, hdr>>

\* Mutant: the size is not limited to the window.
SendSizeAll(t) == arg[t]

\* No more than the window that was read before the lock was released.
SendSize(t) == MIN(val[t], arg[t])

\* stream_send_flags, then header and payload into the send buffer.  A foreign
\* end may put FIN on the data message that is its last.
WriteSend(t) ==
  LET e == Home[t]
      max == SendSize(t)
      flags == SendFlags(state[e])
  IN  /\ t \in Writers /\ pc[t] = "send"
      /\ \E last \in BOOLEAN :
           /\ last => e \in Foreign /\ "data-fin" \in Closing /\ fin[e] < MaxFin
           /\ fin' = [fin EXCEPT ![e] = IF last THEN @ + 1 ELSE @]
           /\ Queue(e, hdr_encode("DATA",
                         flags \cup (IF last THEN {"FIN"} ELSE {}),
                         out[e], out[e] + max))
      /\ state' = [state EXCEPT ![e] = SentState(@)]
      /\ out' = [out EXCEPT ![e] = @ + max]
      /\ val' = [val EXCEPT ![t] = max]
      /\ pc' = [pc EXCEPT ![t] = "reduce"]
      /\ UNCHANGED <<window, got, taken, ready, rxvars, local_go_away,
                     remote_go_away, backlog, arg, hdr, ret>>

\* The send buffer cannot grow: nothing was queued, stream_write returns -1.
\* (A payload that fails after its header, mux.c:630, breaks the framing of the
\* whole session: module Wire, payload_failure.cfg.)
WriteFail(t) ==
  /\ Failures /\ t \in Writers /\ pc[t] = "send"
  /\ state' = [state EXCEPT ![Home[t]] = SentState(@)]
  /\ Return(t, "error")
  /\ UNCHANGED <<window, buffer, ready, chan, rxvars, session, hdr>>

\* Reduce our send window.
WriteReduce(t) ==
  LET e == Home[t]
      left == Sub32(send_window[e], val[t])
  IN  /\ t \in Writers /\ pc[t] = "reduce"
      /\ send_window' = [send_window EXCEPT ![e] = left]
      /\ \/ left = 0 /\ Goto(t, "fill")
         \/ left # 0 /\ Return(t, "ok")
      /\ UNCHANGED <<state, recv_window, granted, applied, buffer, ready,
                     chan, rxvars, session, hdr>>

\* stream_writeable_waiting fills the socketpair so that fd is not writeable.
WriteFill(t) ==
  /\ t \in Writers /\ pc[t] = "fill"
  /\ writeable' = [writeable EXCEPT ![Home[t]] = FALSE]
  /\ Return(t, "ok")
  /\ UNCHANGED <<state, window, buffer, readable, chan, rxvars, session, hdr>>

\* stream_writeable_waiting fails: the session goes away, the call succeeds.
WriteFillFail(t) ==
  LET e == Home[t] IN
  /\ Failures /\ t \in Writers /\ pc[t] = "fill"
  /\ writeable[e]
  /\ GoAway(e, GO_AWAY_INTERNAL_ERR)
  /\ Return(t, "ok")
  /\ UNCHANGED <<state, window, buffer, ready, rxvars, remote_go_away,
                 backlog, fin, hdr>>

-----------------------------------------------------------------------------
(* stream_read. *)

\* A thread may call at any time, after EOF, an error or EAGAIN as well.
ReadCall(t) ==
  /\ t \in Readers /\ pc[t] = "idle"
  /\ HasStream(Home[t])
  /\ \E n \in ReadSizes : arg' = [arg EXCEPT ![t] = n]
  /\ pc' = [pc EXCEPT ![t] = "check"]
  /\ UNCHANGED <<state, window, buffer, ready, chan, rxvars, session, val, hdr, ret>>

\* Mutant: a closed stream is at its end, unread data or not.
AtEofClosed(e) == state[e] \in {"LOCAL_CLOSE", "REMOTE_CLOSE", "CLOSED"}

AtEof(e) == /\ state[e] \in {"LOCAL_CLOSE", "REMOTE_CLOSE", "CLOSED"}
            /\ bio_pending(e) = 0

\* State and buffer are examined together under state_lock and recv_lock.
ReadCheck(t) ==
  LET e == Home[t] IN
  /\ t \in Readers /\ pc[t] = "check"
  /\ \/ AtEof(e) /\ Return(t, "eof")
     \/ state[e] = "RESET" /\ Return(t, "error")
     \/ state[e] # "RESET" /\ ~AtEof(e) /\ Goto(t, "pending")
  /\ UNCHANGED <<state, window, buffer, ready, chan, rxvars, session, hdr>>

HasData(e) == bio_pending(e) > 0

\* Reads bio_pending; no data means EAGAIN or waiting in select.
ReadPending(t) ==
  LET e == Home[t] IN
  /\ t \in Readers /\ pc[t] = "pending"
  /\ \/ HasData(e) /\ Goto(t, "take")
     \/ ~HasData(e) /\ would_block(e) /\ Goto(t, "select")
     \/ ~HasData(e) /\ ~would_block(e) /\ Return(t, "again")
  /\ UNCHANGED <<state, window, buffer, ready, chan, rxvars, session, hdr>>

ReadSelect(t) ==
  /\ t \in Readers /\ pc[t] = "select" /\ readable[Home[t]]
  /\ Goto(t, "check")
  /\ UNCHANGED <<state, window, buffer, ready, chan, rxvars, session, hdr>>

\* bio_read; val[t] is r, which the code asserts to be positive.
ReadTake(t) ==
  LET e == Home[t]
      r == MIN(bio_pending(e), arg[t])
  IN  /\ t \in Readers /\ pc[t] = "take"
      /\ taken' = [taken EXCEPT ![e] = @ + r]
      /\ val' = [val EXCEPT ![t] = r]
      /\ pc' = [pc EXCEPT ![t] = IF bio_pending(e) = r THEN "clear" ELSE "update"]
      /\ UNCHANGED <<state, window, got, out, ready, chan, rxvars, session, arg,
                     hdr, ret>>

\* stream_readable_waiting: no data left, setting the fd unreadable.
ReadClear(t) ==
  /\ t \in Readers /\ pc[t] = "clear"
  /\ readable' = [readable EXCEPT ![Home[t]] = FALSE]
  /\ Goto(t, "update")
  /\ UNCHANGED <<state, window, buffer, writeable, chan, rxvars, session,
                 hdr>>

\* stream_readable_waiting fails: the bytes are lost to the caller.
ReadClearFail(t) ==
  /\ Failures /\ t \in Readers /\ pc[t] = "clear" /\ readable[Home[t]]
  /\ Return(t, "error")
  /\ UNCHANGED <<state, window, buffer, ready, chan, rxvars, session, hdr>>

\* select fails in stream_write or stream_read.
SelectFail(t) ==
  /\ Failures /\ t \in Writers \cup Readers /\ pc[t] = "select"
  /\ Return(t, "error")
  /\ UNCHANGED <<state, window, buffer, ready, chan, rxvars, session, hdr>>

-----------------------------------------------------------------------------
(* session_process on the receive thread of e: the frame at the head of     *)
(* chan[e] goes to its handler.                                             *)

Arrived(e, type) ==
  rx[e] = "idle" /\ chan[e] # <<>> /\ Head(chan[e]).type = type

Refused(e, f) == "SYN" \in f.flags /\ local_go_away[e]
Missing(e, f) == "SYN" \notin f.flags /\ state[e] = "NONE"

\* The stream's state once incoming_stream has run for a frame with SYN.
FoundState(e, f) == IF "SYN" \in f.flags THEN "SYN_RECEIVED" ELSE state[e]

\* A stream declared twice, or a FIN that stream_process_flags rejects.
ProtocolError(e, f) ==
  \/ "SYN" \in f.flags /\ state[e] # "NONE"
  \/ FlagsFail(FoundState(e, f), f.flags)

\* Mutants: a frame as large as the window is refused; none is refused.
WindowReached(e, f) == f.type = "DATA" /\ hdr_length(f) >= recv_window[e]
WindowUnchecked(e, f) == FALSE

WindowExceeded(e, f) == f.type = "DATA" /\ hdr_length(f) > recv_window[e]

StreamFrame(e) == Arrived(e, "DATA") \/ Arrived(e, "WINDOW_UPDATE")
Accepted(e, f) == ~Refused(e, f) /\ ~Missing(e, f) /\ ~ProtocolError(e, f)
Deliverable(e, f) == Accepted(e, f) /\ ~WindowExceeded(e, f)

\* incoming_stream rejects immediately while we are doing a go away.
RxRefuse(e) ==
  /\ StreamFrame(e) /\ Refused(e, Head(chan[e]))
  /\ Reply(e, hdr_encode("WINDOW_UPDATE", {"RST"}, 0, 0))
  /\ UNCHANGED <<state, window, buffer, ready, rxvars, session, local>>

\* The RST cannot be queued, which ends the receive loop.
RxRefuseFail(e) ==
  /\ Failures /\ StreamFrame(e) /\ Refused(e, Head(chan[e]))
  /\ Discard(e)
  /\ rx' = [rx EXCEPT ![e] = "dead"]
  /\ UNCHANGED <<state, window, buffer, ready, frame_remain, session, local>>

\* A frame for a stream that does not exist is dropped with its payload.
RxMissing(e) ==
  /\ StreamFrame(e) /\ Missing(e, Head(chan[e]))
  /\ Discard(e)
  /\ UNCHANGED <<state, window, buffer, ready, rxvars, session, local>>

\* session_process returns -1 and the receive loop ends.
RxProtocolError(e) ==
  LET f == Head(chan[e]) IN
  /\ StreamFrame(e) /\ ~Refused(e, f) /\ ~Missing(e, f) /\ ProtocolError(e, f)
  /\ GoAwayReply(e, GO_AWAY_PROTO_ERR)
  /\ rx' = [rx EXCEPT ![e] = "dead"]
  /\ UNCHANGED <<state, window, buffer, ready, frame_remain, remote_go_away,
                 backlog, fin, local>>

\* stream_new and notify_accept for a SYN, then stream_process_flags.
Incoming(e, f) ==
  /\ state' = [state EXCEPT ![e] = FlagsState(FoundState(e, f), f.flags)]
  /\ backlog' = [backlog EXCEPT ![e] = @ \/ "SYN" \in f.flags]
  /\ stream_notify_waiting(e, f.flags)

\* Data beyond the receive window: the flags have been processed by then.
RxWindowExceeded(e) ==
  LET f == Head(chan[e]) IN
  /\ Arrived(e, "DATA") /\ Accepted(e, f) /\ WindowExceeded(e, f)
  /\ Incoming(e, f)
  /\ GoAwayReply(e, GO_AWAY_PROTO_ERR)
  /\ rx' = [rx EXCEPT ![e] = "dead"]
  /\ UNCHANGED <<window, buffer, frame_remain, remote_go_away, fin, local>>

\* session_handle_data for a new frame: flags first, payload afterwards.
RxData(e) ==
  LET f == Head(chan[e]) IN
  /\ Arrived(e, "DATA") /\ Deliverable(e, f)
  /\ Incoming(e, f)
  /\ frame_remain' = [frame_remain EXCEPT ![e] = hdr_length(f)]
  /\ rx' = [rx EXCEPT ![e] = IF hdr_length(f) = 0 THEN "idle" ELSE "chunk"]
  /\ Discard(e)
  /\ UNCHANGED <<window, buffer, local_go_away, remote_go_away, fin, local>>

\* Mutant: a full buffer is taken even at the end of the frame.
ChunkSizeFull(e) == Chunk

ChunkSize(e) == MIN(frame_remain[e], Chunk)

\* One turn of the loop: as much payload as has arrived goes to the stream.
RxChunk(e) ==
  /\ rx[e] = "chunk"
  /\ \E r \in 1 .. ChunkSize(e) :
       /\ got' = [got EXCEPT ![e] = @ + r]
       /\ recv_window' = [recv_window EXCEPT ![e] = Sub32(@, r)]
       /\ frame_remain' = [frame_remain EXCEPT ![e] = @ - r]
  /\ rx' = [rx EXCEPT ![e] = "notify"]
  /\ UNCHANGED <<state, send_window, granted, applied, taken, out, ready, chan,
                 session, local>>

\* Mutant: the flag is tested and never set.
stream_readable_skip(e) == UNCHANGED readable

stream_readable_notify(e) == readable' = [readable EXCEPT ![e] = TRUE]

\* stream_readable_notify makes the fd readable, in a lock section of its own.
RxNotify(e) ==
  /\ rx[e] = "notify"
  /\ stream_readable_notify(e)
  /\ rx' = [rx EXCEPT ![e] = IF frame_remain[e] = 0 THEN "idle" ELSE "chunk"]
  /\ UNCHANGED <<state, window, buffer, writeable, chan, frame_remain, session, local>>

\* session_handle_window_update up to the unlock of send_lock.
RxWindowUpdate(e) ==
  LET f == Head(chan[e])
      len == hdr_length(f)
  IN  /\ Arrived(e, "WINDOW_UPDATE") /\ Deliverable(e, f)
      /\ Incoming(e, f)
      /\ send_window' = [send_window EXCEPT ![e] = Add32(@, len)]
      /\ applied' = [applied EXCEPT ![e] = @ + len]
      /\ rx' = [rx EXCEPT ![e] = IF len = 0 THEN "idle" ELSE "wnotify"]
      /\ Discard(e)
      /\ UNCHANGED <<recv_window, granted, buffer, frame_remain, local_go_away,
                     remote_go_away, fin, local>>

\* stream_writeable_notify drains the socketpair: the fd is writeable again.
RxWriteableNotify(e) ==
  /\ rx[e] = "wnotify"
  /\ writeable' = [writeable EXCEPT ![e] = TRUE]
  /\ rx' = [rx EXCEPT ![e] = "idle"]
  /\ UNCHANGED <<state, window, buffer, readable, chan, frame_remain, session, local>>

\* Mutant: the case of GO_AWAY_NORMAL falls through.
FatalGoAwayAny(code) == TRUE

FatalGoAway(code) == code # GO_AWAY_NORMAL

\* session_handle_go_away: any code but NORMAL ends the receive loop.
RxGoAway(e) ==
  /\ Arrived(e, "GO_AWAY")
  /\ Discard(e)
  /\ \/ /\ ~FatalGoAway(hdr_length(Head(chan[e])))
        /\ remote_go_away' = [remote_go_away EXCEPT ![e] = TRUE]
        /\ UNCHANGED rx
     \/ /\ FatalGoAway(hdr_length(Head(chan[e])))
        /\ rx' = [rx EXCEPT ![e] = "dead"]
        /\ UNCHANGED remote_go_away
  /\ UNCHANGED <<state, window, buffer, ready, frame_remain, local_go_away,
                 backlog, fin, local>>

\* bio_write, or a notification through the socketpair, fails in a handler.
RxFail(e) ==
  /\ Failures
  /\ \/ rx[e] = "chunk"
     \/ rx[e] = "notify" /\ ~readable[e]
     \/ rx[e] = "wnotify" /\ ~writeable[e]
  /\ GoAway(e, GO_AWAY_INTERNAL_ERR)
  /\ rx' = [rx EXCEPT ![e] = "dead"]
  /\ UNCHANGED <<state, window, buffer, ready, frame_remain, remote_go_away,
                 backlog, fin, local>>

\* incoming_stream fails: stream_new ends the receive loop; notify_accept
\* frees the stream again and the loop goes on.
RxIncomingFail(e) ==
  /\ Failures /\ StreamFrame(e) /\ "SYN" \in Head(chan[e]).flags
  /\ Deliverable(e, Head(chan[e]))
  /\ GoAwayReply(e, GO_AWAY_INTERNAL_ERR)
  /\ \E outcome \in {"dead", "idle"} : rx' = [rx EXCEPT ![e] = outcome]
  /\ UNCHANGED <<state, window, buffer, ready, frame_remain, remote_go_away,
                 backlog, fin, local>>

-----------------------------------------------------------------------------
(* The remote implementation.  stream_close is a stub here (mux.c:651), so   *)
(* FIN and RST come only from peers that implement closing.                  *)

PeerClose(e) ==
  /\ e \in Foreign /\ fin[e] < MaxFin
  /\ HasStream(e) /\ state[e] # "RESET"
  /\ \A t \in Writers : Home[t] = e => pc[t] = "idle"
  /\ \E how \in Closing \ {"data-fin"} :
       /\ state' = [state EXCEPT ![e] = CASE how = "rst" -> "RESET"
                      [] how = "fin" /\ @ \in {"REMOTE_CLOSE", "CLOSED"} -> "CLOSED"
                      [] OTHER -> "LOCAL_CLOSE"]
       /\ Queue(e, hdr_encode("WINDOW_UPDATE",
                              {IF how = "rst" THEN "RST" ELSE "FIN"}, 0, 0))
  /\ fin' = [fin EXCEPT ![e] = @ + 1]
  /\ UNCHANGED <<window, buffer, ready, rxvars, local_go_away, remote_go_away,
                 backlog, local>>

-----------------------------------------------------------------------------

\* A step of the call that thread t is in, or of the reader's loop.
ThreadStep(t) ==
  \/ WindowUpdate(t) \/ Announce(t)
  \/ WriteCheck(t) \/ WriteWindow(t) \/ WriteSelect(t) \/ WriteSend(t)
  \/ WriteReduce(t) \/ WriteFill(t)
  \/ ReadCall(t) \/ ReadCheck(t) \/ ReadPending(t) \/ ReadSelect(t)
  \/ ReadTake(t) \/ ReadClear(t)

ThreadFail(t) ==
  \/ AnnounceFail(t) \/ WriteFail(t) \/ WriteFillFail(t) \/ ReadClearFail(t)
  \/ SelectFail(t)

\* A step of session_process on the receive thread of e.
RxStep(e) ==
  \/ RxRefuse(e) \/ RxMissing(e) \/ RxProtocolError(e) \/ RxWindowExceeded(e)
  \/ RxData(e) \/ RxChunk(e) \/ RxNotify(e)
  \/ RxWindowUpdate(e) \/ RxWriteableNotify(e) \/ RxGoAway(e)

RxFailStep(e) == RxFail(e) \/ RxIncomingFail(e) \/ RxRefuseFail(e)

BootStep == OpenCheck \/ OpenNew \/ AcceptTake

Next ==
  \/ BootStep \/ OpenNewFail \/ AcceptFail
  \/ \E t \in Threads : WriteCall(t) \/ ThreadStep(t) \/ ThreadFail(t)
  \/ \E e \in Ends : RxStep(e) \/ RxFailStep(e)
  \/ \E e \in Ends : SessionGoAway(e) \/ PeerClose(e)

\* Every thread keeps running, the loops of the test program that move bytes
\* (send_loop, recv_loop) included.  Writing, closing and going away are the
\* application's choice.
Fairness ==
  /\ WF_vars(BootStep)
  /\ \A t \in Threads : WF_vars(ThreadStep(t))
  /\ \A e \in Ends : WF_vars(RxStep(e))

Spec == Init /\ [][Next]_vars
FairSpec == Spec /\ Fairness

-----------------------------------------------------------------------------
(* Properties. *)

PCs == {"idle", "new", "update", "announce", "check", "window", "select", "send",
        "reduce", "fill", "pending", "take", "clear", "done", "failed"}

\* Every variable keeps its type; in particular both windows and every length
\* stay natural numbers below 2^32, whatever the threads do.
TypeOK ==
  /\ state \in [Ends -> States]
  /\ send_window \in [Ends -> 0 .. Word - 1]
  /\ recv_window \in [Ends -> 0 .. Word - 1]
  /\ readable \in [Ends -> BOOLEAN] /\ writeable \in [Ends -> BOOLEAN]
  /\ got \in [Ends -> Nat] /\ taken \in [Ends -> Nat] /\ out \in [Ends -> Nat]
  /\ granted \in [Ends -> Nat] /\ applied \in [Ends -> Nat]
  /\ chan \in [Ends -> Seq(Frame)]
  /\ rx \in [Ends -> {"idle", "chunk", "notify", "wnotify", "dead"}]
  /\ frame_remain \in [Ends -> Nat]
  /\ local_go_away \in [Ends -> BOOLEAN] /\ remote_go_away \in [Ends -> BOOLEAN]
  /\ backlog \in [Ends -> BOOLEAN]
  /\ fin \in [Ends -> Nat]
  /\ pc \in [Threads -> PCs]
  /\ arg \in [Threads -> Nat] /\ val \in [Threads -> Nat]
  /\ hdr \in [Updaters -> Frame]
  /\ ret \in [Threads -> {"none", "ok", "again", "eof", "error", "closed"}]

\* Bytes a sender has put on the wire and the receiver has not taken into its
\* buffer always fit the receiver's window (the check at mux.c:782): credit is
\* neither lost track of while stream_write has sent but not yet reduced its
\* window, nor spent before the WINDOW_UPDATE that carries it is queued.
InFlightFits ==
  \A e \in Ends : out[e] - got[Other(e)] <= recv_window[Other(e)]

\* Unread data and the open window together never exceed the maximum, so the
\* uint32_t subtraction in send_window_update (mux.c:430) cannot wrap: however
\* many threads write, and whatever fails, a stream buffers at most one window.
BufferFits ==
  \A e \in Ends : bio_pending(e) + recv_window[e] <= MAX_STREAM_WINDOW_SIZE

\* The receive loop of a session never ends while both peers follow the
\* protocol: no protocol error is raised and no error go away is received.
NoProtocolError == \A e \in Ends : rx[e] # "dead"

\* A session ends over a close only when the same end closed twice: a single
\* FIN or RST is taken in every state the stream can be in when it arrives.
OnlySecondCloseFails ==
  (\E e \in Ends : rx[e] = "dead") => \E e \in Ends : fin[e] > 1

\* stream_read returns 0 (EOF) only when every byte the peer wrote before its
\* FIN has been read.
EofMeansDrained ==
  \A t \in Readers : ret[t] = "eof" => taken[Home[t]] = out[Other(Home[t])]

\* The assertion r > 0 after bio_read in stream_read (mux.c:558).  bio_pending
\* was read under an earlier hold of recv_lock, so a second reader of the same
\* stream can empty the buffer in between: the property is for one reader.
ReadTookData ==
  \A t \in Readers : pc[t] \in {"clear", "update", "announce"} => val[t] > 0

Quiet(e) == /\ rx[e] = "idle" /\ chan[e] = <<>>
            /\ \A t \in Threads : Home[t] = e => pc[t] \in {"idle", "done"}

\* When nothing is going on at an end, its fd tells the truth to a poller:
\* unread data shows as a readable fd (stream_readable_notify, mux.c:826, and
\* stream_readable_waiting, mux.c:563).
DataShows == \A e \in Ends : Quiet(e) /\ bio_pending(e) > 0 => readable[e]

\* An open window shows as a writeable fd (stream_writeable_notify, mux.c:887,
\* and stream_writeable_waiting, mux.c:642).
CreditShows == \A e \in Ends : Quiet(e) /\ send_window[e] > 0 => writeable[e]

\* A stream the peer has closed or reset shows as a readable fd, on which
\* stream_read returns at once (stream_notify_waiting, mux.c:211).
CloseShows ==
  \A e \in Ends :
    Quiet(e) /\ state[e] \in {"REMOTE_CLOSE", "CLOSED", "RESET"} => readable[e]

\* No step reopens a direction that was closed: a reset stream stays reset and
\* a late ACK, or the ACK of a late session_accept, revives nothing.
NeverReopened ==
  [][\A e \in Ends :
       /\ state[e] = "RESET" => state'[e] = "RESET"
       /\ state[e] \in {"REMOTE_CLOSE", "CLOSED"} =>
            state'[e] \in {state[e], "CLOSED", "RESET"}]_vars

\* Readers catch up with writers again and again, so every byte that
\* stream_write accepted is eventually returned by stream_read.
Delivered == \A e \in Ends : []<>(taken[Other(e)] = out[e])

\* A call of stream_write returns: a writer that waits for credit gets it.
WriteReturns == \A t \in Writers : pc[t] = "check" ~> pc[t] = "idle"

\* A stream that session_open returned is answered: acknowledged or reset.
OpenAnswered == pc["open"] = "done" ~> state["c"] \notin {"INIT", "SYN_SENT"}

\* A peer's FIN or RST ends every reader's loop: nobody waits on in select.
CloseSeen ==
  \A t \in Readers :
    state[Home[t]] \in {"REMOTE_CLOSE", "CLOSED", "RESET"} /\ HasStream(Home[t])
      ~> ret[t] \in {"eof", "error"}

-----------------------------------------------------------------------------
(* The flow-control ledger: the inductive invariant behind InFlightFits and  *)
(* BufferFits.  It presumes that an end has at most one thread writing to    *)
(* the stream and at most one reading from it.                               *)

OneUserPerEnd ==
  /\ \A t, u \in Writers : Home[t] = Home[u] => t = u
  /\ \A t, u \in Readers : Home[t] = Home[u] => t = u

\* Threads are inside the calls they can make, and only with a stream.
ThreadShape ==
  /\ \A t \in Boot : pc[t] \in {"idle", "new", "update", "announce", "done", "failed"}
  /\ \A t \in Writers :
       pc[t] \in {"idle", "check", "window", "select", "send", "reduce", "fill"}
  /\ \A t \in Readers :
       pc[t] \in {"idle", "check", "pending", "select", "take", "clear", "update",
                  "announce"}
  /\ \A t \in Readers : pc[t] # "idle" => HasStream(Home[t])

\* A writer between sending and reducing holds in `max' what it has sent and
\* not yet taken off the window.
Unreduced(e, n) ==
  \/ n = 0 /\ \A t \in Writers : Home[t] = e => pc[t] # "reduce"
  \/ \E t \in Writers : Home[t] = e /\ pc[t] = "reduce" /\ n = val[t]

\* What an end may still send is what it was granted less what it sent.
SendLedger ==
  /\ \A e \in Ends, n \in 0 .. MAX_STREAM_WINDOW_SIZE :
       Unreduced(e, n) =>
         /\ send_window[e] = MAX_STREAM_WINDOW_SIZE + applied[e] - out[e] + n
         /\ n <= send_window[e]
  /\ \A t \in Writers :
       pc[t] \in {"send", "reduce"} => /\ val[t] <= send_window[Home[t]]
                                       /\ val[t] <= MAX_STREAM_WINDOW_SIZE

\* What an end may still receive is what it granted less what it got, and it
\* never grants more than its application has read.
RecvLedger ==
  \A e \in Ends :
    /\ recv_window[e] = MAX_STREAM_WINDOW_SIZE + granted[e] - got[e]
    /\ granted[e] <= taken[e] /\ taken[e] <= got[e]

\* The frames of a type in q that are not empty carry disjoint, ascending runs
\* out of lo .. hi.
Runs(q, type, lo, hi) ==
  /\ \A i \in 1 .. Len(q) : q[i].type = type /\ q[i].lo < q[i].hi
                              => lo <= q[i].lo /\ q[i].hi <= hi
  /\ \A i, j \in 1 .. Len(q) :
       /\ i < j
       /\ q[i].type = type /\ q[i].lo < q[i].hi
       /\ q[j].type = type /\ q[j].lo < q[j].hi
       => q[i].hi <= q[j].lo

WellFormed(q) == \A i \in 1 .. Len(q) : q[i].lo <= q[i].hi

\* DATA frames on their way to e carry bytes that e has not got and that the
\* other end has sent.
DataOrder ==
  \A e \in Ends :
    /\ got[e] + frame_remain[e] <= out[Other(e)]
    /\ rx[e] \in {"idle", "wnotify"} => frame_remain[e] = 0
    /\ WellFormed(chan[e])
    /\ Runs(chan[e], "DATA", got[e] + frame_remain[e], out[Other(e)])

\* WINDOW_UPDATE frames on their way to e, and the one about to be queued for
\* it, carry credit that e has not applied and that the other end has granted.
CreditOrder ==
  \A e \in Ends :
    /\ applied[e] <= granted[Other(e)]
    /\ Runs(chan[e], "WINDOW_UPDATE", applied[e], granted[Other(e)])
    /\ \A t \in Updaters :
         Home[t] = Other(e) /\ pc[t] = "announce" =>
           /\ hdr[t].type = "WINDOW_UPDATE" /\ hdr[t].lo <= hdr[t].hi
           /\ applied[e] <= hdr[t].lo /\ hdr[t].hi <= granted[Other(e)]
           /\ Runs(chan[e], "WINDOW_UPDATE", applied[e], hdr[t].lo)

\* The two ends' books agree at every step of every thread: no byte is in two
\* frames, and no unit of credit is spent or counted twice.
FlowLedger == ThreadShape /\ SendLedger /\ RecvLedger /\ DataOrder /\ CreditOrder
=============================================================================
