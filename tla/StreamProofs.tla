---------------------------- MODULE StreamProofs ----------------------------
(***************************************************************************)
(* Proofs about module Stream.  The invariant is TypeOK and the flow-      *)
(* control ledger, FlowLedger: what each end sent, got, read, granted and  *)
(* applied, and the runs of bytes and credit the frames under way carry.   *)
(*                                                                         *)
(* The ledger is needed because neither window alone says anything of the  *)
(* other end: a writer has sent bytes it has not taken off its window, a   *)
(* reader has granted credit it has not announced, and frames are on their *)
(* way in both directions.  Each action changes one entry of the books on  *)
(* each side, and the lemmas below go through them one by one.             *)
(***************************************************************************)
EXTENDS Stream, SeqFacts, TLAPS

-----------------------------------------------------------------------------
(* The constants. *)

\* There are two ends, each the other of the other.
LEMMA EndFacts ==
  /\ \A e \in Ends : Other(e) \in Ends /\ Other(Other(e)) = e /\ Other(e) # e
  /\ \A e, d \in Ends : d = e \/ d = Other(e)
  /\ "c" \in Ends /\ "s" \in Ends
BY DEF Ends, Other

\* Every thread runs on one end, and no thread both writes and updates windows.
LEMMA ThreadFacts ==
  /\ \A t \in Threads : Home[t] \in Ends
  /\ \A t \in Writers : t \in Threads /\ Home[t] \in Ends /\ t \notin Updaters
  /\ \A t \in Updaters : t \in Threads /\ Home[t] \in Ends
  /\ \A t \in Readers : t \in Updaters /\ t \notin Boot
  /\ \A t \in Boot : t \in Updaters
  /\ "open" \in Boot /\ "accept" \in Boot
  /\ Home["open"] = "c" /\ Home["accept"] = "s"
BY StreamAssumption DEF StreamAssumption, Threads, Updaters, Boot

\* The sizes are natural numbers, and two windows fit below 2^32.
LEMMA NumberFacts ==
  /\ MAX_STREAM_WINDOW_SIZE \in Nat \ {0} /\ Word \in Nat
  /\ Word > 2 * MAX_STREAM_WINDOW_SIZE /\ Chunk \in Nat \ {0}
BY StreamAssumption DEF StreamAssumption

-----------------------------------------------------------------------------
(* Sequences of frames. *)

\* The bounds of the run a frame carries are natural numbers.
LEMMA FrameFacts ==
  \A f \in Frame : f.lo \in Nat /\ f.hi \in Nat
BY DEF Frame

\* Runs out of a .. b are runs out of any wider interval.
LEMMA RunsWiden ==
  ASSUME NEW q \in Seq(Frame), NEW type,
         NEW a \in Int, NEW b \in Int, NEW c \in Int, NEW d \in Int,
         c <= a, b <= d, Runs(q, type, a, b)
  PROVE  Runs(q, type, c, d)
<1>1. \A i \in 1 .. Len(q) : q[i].lo \in Nat /\ q[i].hi \in Nat
  BY FrameFacts
<1>. QED
  BY <1>1 DEF Runs

\* A frame of another type, or an empty one, adds no run to the queue.
LEMMA RunsAppendOther ==
  ASSUME NEW q \in Seq(Frame), NEW f \in Frame, NEW type,
         NEW a \in Int, NEW b \in Int, Runs(q, type, a, b),
         f.type # type \/ f.lo >= f.hi
  PROVE  Runs(Append(q, f), type, a, b)
<1> DEFINE r == Append(q, f)
<1>1. /\ Len(r) = Len(q) + 1 /\ Len(q) \in Nat /\ r[Len(q) + 1] = f
      /\ \A i \in 1 .. Len(q) : r[i] = q[i]
  BY AppendFacts
<1>2. \A i \in 1 .. Len(r) : i \in 1 .. Len(q) \/ i = Len(q) + 1
  BY <1>1
<1>3. f.lo \in Nat /\ f.hi \in Nat
  BY FrameFacts
<1>4. \A i \in 1 .. Len(r) :
        r[i].type = type /\ r[i].lo < r[i].hi => i \in 1 .. Len(q) /\ r[i] = q[i]
  BY <1>1, <1>2, <1>3
<1> HIDE DEF r
<1>5. Runs(r, type, a, b)
  BY <1>4 DEF Runs
<1>. QED
  BY <1>5 DEF r

\* A frame that continues behind b extends the runs up to its own end.
LEMMA RunsAppend ==
  ASSUME NEW q \in Seq(Frame), NEW f \in Frame, NEW type,
         NEW a \in Int, NEW b \in Int, Runs(q, type, a, b),
         a <= b, b <= f.lo, f.lo <= f.hi
  PROVE  Runs(Append(q, f), type, a, f.hi)
<1> DEFINE r == Append(q, f)
<1>1. /\ Len(r) = Len(q) + 1 /\ Len(q) \in Nat /\ r[Len(q) + 1] = f
      /\ \A i \in 1 .. Len(q) : r[i] = q[i]
  BY AppendFacts
<1>2. \A i \in 1 .. Len(r) : i \in 1 .. Len(q) \/ i = Len(q) + 1
  BY <1>1
<1>3. f.lo \in Nat /\ f.hi \in Nat
  BY FrameFacts
<1>4. \A i \in 1 .. Len(q) : q[i].lo \in Nat /\ q[i].hi \in Nat
  BY FrameFacts
<1> HIDE DEF r
<1>5. \A i \in 1 .. Len(r) : r[i].type = type /\ r[i].lo < r[i].hi
                               => a <= r[i].lo /\ r[i].hi <= f.hi
  BY <1>1, <1>2, <1>3, <1>4, SMTT(20) DEF Runs
<1>6. ASSUME NEW i \in 1 .. Len(r), NEW j \in 1 .. Len(r), i < j,
             r[i].type = type, r[i].lo < r[i].hi,
             r[j].type = type, r[j].lo < r[j].hi
      PROVE  r[i].hi <= r[j].lo
  <2>1. i \in 1 .. Len(q) /\ r[i] = q[i]
    BY <1>1, <1>2, <1>6
  <2>2. CASE j \in 1 .. Len(q)
    BY <1>1, <1>6, <2>1, <2>2 DEF Runs
  <2>3. CASE j = Len(q) + 1
    <3>1. q[i].hi <= b /\ q[i].hi \in Nat /\ r[j] = f
      BY <1>1, <1>4, <1>6, <2>1, <2>3 DEF Runs
    <3>. QED
      BY <1>3, <2>1, <3>1
  <2>. QED
    BY <1>2, <2>2, <2>3
<1>7. Runs(r, type, a, f.hi)
  BY <1>5, <1>6 DEF Runs
<1>. QED
  BY <1>7 DEF r

\* Taking the first frame leaves runs that begin where its run ended.
LEMMA RunsTail ==
  ASSUME NEW q \in Seq(Frame), q # << >>, NEW type,
         NEW a \in Int, NEW b \in Int, Runs(q, type, a, b)
  PROVE  /\ Runs(Tail(q), type, a, b)
         /\ Head(q).type = type /\ Head(q).lo < Head(q).hi =>
              /\ a <= Head(q).lo /\ Head(q).hi <= b
              /\ Runs(Tail(q), type, Head(q).hi, b)
<1> DEFINE r == Tail(q)
<1>1. /\ Len(r) = Len(q) - 1 /\ Len(q) \in Nat \ {0} /\ Head(q) = q[1]
      /\ \A i \in 1 .. Len(q) - 1 : r[i] = q[i + 1]
  BY TailFacts
<1> HIDE DEF r
<1>2. \A i \in 1 .. Len(r) : r[i] = q[i + 1] /\ i + 1 \in 1 .. Len(q) /\ 1 < i + 1
  BY <1>1
<1>3. 1 \in 1 .. Len(q)
  BY <1>1
<1>4. \A i, j \in 1 .. Len(r) : i < j => i + 1 < j + 1
  OBVIOUS
<1>5. Runs(r, type, a, b)
  BY <1>2, <1>4 DEF Runs
<1>6. ASSUME q[1].type = type, q[1].lo < q[1].hi
      PROVE  a <= q[1].lo /\ q[1].hi <= b /\ Runs(r, type, q[1].hi, b)
  <2>1. a <= q[1].lo /\ q[1].hi <= b
    BY <1>3, <1>6 DEF Runs
  <2>2. \A i \in 1 .. Len(r) : r[i].type = type /\ r[i].lo < r[i].hi
                                 => q[1].hi <= r[i].lo
    BY <1>2, <1>3, <1>6 DEF Runs
  <2>. QED
    BY <1>5, <2>1, <2>2 DEF Runs
<1>. QED
  BY <1>1, <1>5, <1>6 DEF r

\* Queueing a frame with lo <= hi, and taking one, keep a queue well formed.
LEMMA WellFormedSteps ==
  ASSUME NEW q \in Seq(Frame), WellFormed(q)
  PROVE  /\ \A f \in Frame : f.lo <= f.hi => WellFormed(Append(q, f))
         /\ q # << >> => WellFormed(Tail(q)) /\ Head(q).lo <= Head(q).hi
<1>1. ASSUME NEW f \in Frame, f.lo <= f.hi PROVE WellFormed(Append(q, f))
  <2> DEFINE r == Append(q, f)
  <2>1. /\ Len(r) = Len(q) + 1 /\ Len(q) \in Nat /\ r[Len(q) + 1] = f
        /\ \A i \in 1 .. Len(q) : r[i] = q[i]
    BY AppendFacts
  <2>2. \A i \in 1 .. Len(r) : i \in 1 .. Len(q) \/ i = Len(q) + 1
    BY <2>1
  <2> HIDE DEF r
  <2>3. WellFormed(r)
    BY <1>1, <2>1, <2>2 DEF WellFormed
  <2>. QED
    BY <2>3 DEF r
<1>2. ASSUME q # << >> PROVE WellFormed(Tail(q)) /\ Head(q).lo <= Head(q).hi
  <2> DEFINE r == Tail(q)
  <2>1. /\ Len(r) = Len(q) - 1 /\ Len(q) \in Nat \ {0} /\ Head(q) = q[1]
        /\ \A i \in 1 .. Len(q) - 1 : r[i] = q[i + 1]
    BY <1>2, TailFacts
  <2> HIDE DEF r
  <2>2. \A i \in 1 .. Len(r) : r[i] = q[i + 1] /\ i + 1 \in 1 .. Len(q)
    BY <2>1
  <2>3. WellFormed(r) /\ q[1].lo <= q[1].hi
    BY <2>1, <2>2 DEF WellFormed
  <2>. QED
    BY <2>1, <2>3 DEF r
<1>. QED
  BY <1>1, <1>2

-----------------------------------------------------------------------------
(* What a step that touches nothing of a ledger leaves of it. *)

IInv == TypeOK /\ FlowLedger

\* The types of an end's counters, without the rest of TypeOK.
LEMMA Numbers ==
  ASSUME TypeOK, NEW e \in Ends
  PROVE  /\ send_window[e] \in Nat /\ recv_window[e] \in Nat
         /\ send_window[e] < Word /\ recv_window[e] < Word
         /\ got[e] \in Nat /\ taken[e] \in Nat /\ out[e] \in Nat
         /\ granted[e] \in Nat /\ applied[e] \in Nat
         /\ frame_remain[e] \in Nat /\ chan[e] \in Seq(Frame)
<1>1. /\ send_window[e] \in 0 .. Word - 1 /\ recv_window[e] \in 0 .. Word - 1
      /\ got[e] \in Nat /\ taken[e] \in Nat /\ out[e] \in Nat
      /\ granted[e] \in Nat /\ applied[e] \in Nat
      /\ frame_remain[e] \in Nat /\ chan[e] \in Seq(Frame)
  BY DEF TypeOK
<1>. QED
  BY <1>1, NumberFacts

\* The types of the threads' locals, without the rest of TypeOK.
LEMMA Locals ==
  ASSUME TypeOK
  PROVE  /\ pc \in [Threads -> PCs] /\ arg \in [Threads -> Nat]
         /\ val \in [Threads -> Nat] /\ hdr \in [Updaters -> Frame]
         /\ \A t \in Threads : val[t] \in Nat /\ arg[t] \in Nat
         /\ \A t \in Updaters : hdr[t] \in Frame
BY DEF TypeOK

RecvVars == <<recv_window, granted, got, taken>>

\* A step that changes no receive window and no buffer keeps RecvLedger.
LEMMA RecvFrame ==
  ASSUME RecvLedger, UNCHANGED RecvVars
  PROVE  RecvLedger'
BY DEF RecvLedger, RecvVars

\* The writers that have sent and not reduced are the same, with the same `max'.
SameWriters ==
  \A t \in Writers : /\ pc'[t] = "reduce" <=> pc[t] = "reduce"
                     /\ pc'[t] \in {"send", "reduce"} =>
                          pc'[t] = pc[t] /\ val'[t] = val[t]

\* A step that sends nothing and reduces nothing keeps SendLedger.
LEMMA SendFrame ==
  ASSUME SendLedger, SameWriters, UNCHANGED <<send_window, applied, out>>
  PROVE  SendLedger'
<1>1. \A e, n : Unreduced(e, n)' => Unreduced(e, n)
  BY DEF Unreduced, SameWriters
<1>2. ASSUME NEW e \in Ends, NEW n \in 0 .. MAX_STREAM_WINDOW_SIZE, Unreduced(e, n)'
      PROVE  /\ send_window'[e] = MAX_STREAM_WINDOW_SIZE + applied'[e] - out'[e] + n
             /\ n <= send_window'[e]
  BY <1>1, <1>2 DEF SendLedger
<1>3. \A t \in Writers : pc'[t] \in {"send", "reduce"} =>
        val'[t] <= send_window'[Home[t]] /\ val'[t] <= MAX_STREAM_WINDOW_SIZE
  BY DEF SendLedger, SameWriters
<1>. QED
  BY <1>2, <1>3 DEF SendLedger

\* The frames under way are the same, or fewer, but for frames that carry
\* neither data nor credit.
Neutral(f) == /\ f \in Frame /\ f.lo <= f.hi
              /\ f.type = "GO_AWAY" \/ f.lo = f.hi
Thinner(q, r, type) ==
  /\ WellFormed(q) => WellFormed(r)
  /\ \A a \in Int, b \in Int : Runs(q, type, a, b) => Runs(r, type, a, b)
ThinnerFor(type) == \A e \in Ends : Thinner(chan[e], chan'[e], type)
ThinnerChan == ThinnerFor("DATA") /\ ThinnerFor("WINDOW_UPDATE")

\* A neutral frame adds no run of either type.
LEMMA ThinnerAppend ==
  ASSUME NEW q \in Seq(Frame), NEW f, Neutral(f),
         NEW type \in {"DATA", "WINDOW_UPDATE"}
  PROVE  Thinner(q, Append(q, f), type)
<1>1. f \in Frame /\ f.lo <= f.hi /\ f.lo \in Nat /\ f.hi \in Nat
  BY FrameFacts DEF Neutral
<1>2. f.type # type \/ f.lo >= f.hi
  BY <1>1 DEF Neutral
<1>. QED
  BY <1>1, <1>2, RunsAppendOther, WellFormedSteps DEF Thinner

\* Dropping the first frame adds no run.
LEMMA ThinnerTail ==
  ASSUME NEW q \in Seq(Frame), q # << >>, NEW type
  PROVE  Thinner(q, Tail(q), type) /\ Tail(q) \in Seq(Frame)
BY RunsTail, WellFormedSteps, TailFacts DEF Thinner

\* session_send_buf_write of a header that carries neither data nor credit.
LEMMA QueueNeutral ==
  ASSUME TypeOK, NEW e \in Ends, NEW f, Neutral(f), Queue(e, f)
  PROVE  ThinnerChan /\ chan' \in [Ends -> Seq(Frame)]
<1>1. chan \in [Ends -> Seq(Frame)] /\ Other(e) \in Ends /\ f \in Frame
  BY EndFacts DEF TypeOK, Neutral
<1>2. chan' = [chan EXCEPT ![Other(e)] = Append(chan[Other(e)], f)]
  BY DEF Queue
<1>3. Append(chan[Other(e)], f) \in Seq(Frame)
  BY <1>1, AppendFacts
<1>4. \A type \in {"DATA", "WINDOW_UPDATE"} :
        Thinner(chan[Other(e)], Append(chan[Other(e)], f), type)
  BY <1>1, ThinnerAppend
<1>5. \A q, type : Thinner(q, q, type)
  BY DEF Thinner
<1>. QED
  BY <1>1, <1>2, <1>3, <1>4, <1>5 DEF ThinnerChan, ThinnerFor

\* A frame that the receive thread drops unread.
LEMMA DiscardNeutral ==
  ASSUME TypeOK, NEW e \in Ends, chan[e] # << >>, Discard(e)
  PROVE  ThinnerChan /\ chan' \in [Ends -> Seq(Frame)]
<1>1. chan \in [Ends -> Seq(Frame)]
  BY DEF TypeOK
<1>2. chan' = [chan EXCEPT ![e] = Tail(chan[e])]
  BY DEF Discard
<1>3. (\A type : Thinner(chan[e], Tail(chan[e]), type)) /\ Tail(chan[e]) \in Seq(Frame)
  BY <1>1, ThinnerTail
<1>4. \A q, type : Thinner(q, q, type)
  BY DEF Thinner
<1>. QED
  BY <1>1, <1>2, <1>3, <1>4 DEF ThinnerChan, ThinnerFor

\* A frame that the receive thread drops and answers with a neutral one.
LEMMA ReplyNeutral ==
  ASSUME TypeOK, NEW e \in Ends, chan[e] # << >>, NEW f, Neutral(f), Reply(e, f)
  PROVE  ThinnerChan /\ chan' \in [Ends -> Seq(Frame)]
<1>1. /\ chan \in [Ends -> Seq(Frame)] /\ Other(e) \in Ends /\ f \in Frame
      /\ Other(e) # e /\ \A d \in Ends : d = e \/ d = Other(e)
  BY EndFacts DEF TypeOK, Neutral
<1>2. chan' = [chan EXCEPT ![e] = Tail(chan[e]),
                           ![Other(e)] = Append(chan[Other(e)], f)]
  BY <1>1 DEF Reply
<1>3. Append(chan[Other(e)], f) \in Seq(Frame)
  BY <1>1, AppendFacts
<1>4. \A type \in {"DATA", "WINDOW_UPDATE"} :
        Thinner(chan[Other(e)], Append(chan[Other(e)], f), type)
  BY <1>1, ThinnerAppend
<1>5. (\A type : Thinner(chan[e], Tail(chan[e]), type)) /\ Tail(chan[e]) \in Seq(Frame)
  BY <1>1, ThinnerTail
<1>. QED
  BY <1>1, <1>2, <1>3, <1>4, <1>5 DEF ThinnerChan, ThinnerFor

\* A step that touches no frame adds no run.
LEMMA SameChan ==
  ASSUME UNCHANGED chan
  PROVE  ThinnerChan
BY DEF ThinnerChan, ThinnerFor, Thinner

\* Go away frames, and window updates of length zero, are neutral.
LEMMA GoAwayNeutral ==
  /\ Neutral(GoAwayFrame(GO_AWAY_NORMAL)) /\ Neutral(GoAwayFrame(GO_AWAY_PROTO_ERR))
  /\ Neutral(GoAwayFrame(GO_AWAY_INTERNAL_ERR))
  /\ \A flags \in SUBSET Flags : Neutral(hdr_encode("WINDOW_UPDATE", flags, 0, 0))
BY DEF Neutral, GoAwayFrame, GO_AWAY_INTERNAL_ERR, GO_AWAY_PROTO_ERR, GO_AWAY_NORMAL,
       hdr_encode, Frame, Types

\* session_go_away_for_reason disturbs no ledger, queued or not.
LEMMA GoAwaySteps ==
  ASSUME TypeOK, NEW e \in Ends,
         NEW reason \in {GO_AWAY_NORMAL, GO_AWAY_PROTO_ERR, GO_AWAY_INTERNAL_ERR},
         \/ GoAway(e, reason)
         \/ chan[e] # << >> /\ GoAwayReply(e, reason)
  PROVE  /\ ThinnerChan /\ chan' \in [Ends -> Seq(Frame)]
         /\ local_go_away' \in [Ends -> BOOLEAN]
<1>1. Neutral(GoAwayFrame(reason))
  BY GoAwayNeutral
<1>2. local_go_away' \in [Ends -> BOOLEAN]
  BY DEF TypeOK, GoAway, GoAwayReply
<1>3. CASE Queue(e, GoAwayFrame(reason))
  BY <1>1, <1>2, <1>3, QueueNeutral
<1>4. CASE UNCHANGED chan
  BY <1>2, <1>4, SameChan DEF TypeOK
<1>5. CASE chan[e] # << >> /\ Reply(e, GoAwayFrame(reason))
  BY <1>1, <1>2, <1>5, ReplyNeutral
<1>6. CASE chan[e] # << >> /\ Discard(e)
  BY <1>2, <1>6, DiscardNeutral
<1>. QED
  BY <1>3, <1>4, <1>5, <1>6 DEF GoAway, GoAwayReply

\* A step that sends and receives no payload keeps DataOrder.
LEMMA DataFrame ==
  ASSUME TypeOK, DataOrder, ThinnerFor("DATA"), UNCHANGED <<got, out, frame_remain>>,
         \A e \in Ends : rx'[e] \in {"idle", "wnotify"} =>
                           rx[e] \in {"idle", "wnotify"} \/ frame_remain[e] = 0
  PROVE  DataOrder'
<1> SUFFICES ASSUME NEW e \in Ends
             PROVE  /\ got[e] + frame_remain[e] <= out[Other(e)]
                    /\ rx'[e] \in {"idle", "wnotify"} => frame_remain[e] = 0
                    /\ WellFormed(chan'[e])
                    /\ Runs(chan'[e], "DATA", got[e] + frame_remain[e], out[Other(e)])
  <2>1. ASSUME NEW e \in Ends
        PROVE  (WellFormed(chan[e]) /\
                Runs(chan[e], "DATA", got[e] + frame_remain[e], out[Other(e)]))'
                 <=> /\ WellFormed(chan'[e])
                     /\ Runs(chan'[e], "DATA", got[e] + frame_remain[e], out[Other(e)])
    BY DEF WellFormed, Runs
  <2>. QED
    BY <2>1 DEF DataOrder
<1>1. got[e] + frame_remain[e] \in Int /\ out[Other(e)] \in Int
  BY Numbers, EndFacts
<1>. QED
  BY <1>1 DEF DataOrder, ThinnerFor, Thinner

\* No thread comes to announce credit, and those that are keep their header.
SameAnnouncers ==
  \A t \in Updaters : pc'[t] = "announce" => pc[t] = "announce" /\ hdr'[t] = hdr[t]

\* A step that grants and applies no credit keeps CreditOrder.
LEMMA CreditFrame ==
  ASSUME TypeOK, CreditOrder, ThinnerFor("WINDOW_UPDATE"), SameAnnouncers,
         UNCHANGED <<granted, applied>>
  PROVE  CreditOrder'
<1>1. ASSUME NEW e \in Ends
      PROVE  /\ applied[e] <= granted[Other(e)]
             /\ Runs(chan'[e], "WINDOW_UPDATE", applied[e], granted[Other(e)])
  <2>1. applied[e] \in Int /\ granted[Other(e)] \in Int
    BY Numbers, EndFacts
  <2>. QED
    BY <2>1 DEF CreditOrder, ThinnerFor, Thinner
<1>2. ASSUME NEW e \in Ends, NEW t \in Updaters, Home[t] = Other(e),
             pc'[t] = "announce"
      PROVE  /\ hdr'[t].type = "WINDOW_UPDATE" /\ hdr'[t].lo <= hdr'[t].hi
             /\ applied[e] <= hdr'[t].lo /\ hdr'[t].hi <= granted[Other(e)]
             /\ Runs(chan'[e], "WINDOW_UPDATE", applied[e], hdr'[t].lo)
  <2>1. pc[t] = "announce" /\ hdr'[t] = hdr[t]
    BY <1>2 DEF SameAnnouncers
  <2>2. applied[e] \in Int /\ hdr[t].lo \in Int
    BY Numbers, Locals, FrameFacts
  <2>. QED
    BY <1>2, <2>1, <2>2 DEF CreditOrder, ThinnerFor, Thinner
<1>. QED
  BY <1>1, <1>2 DEF CreditOrder, Runs

-----------------------------------------------------------------------------
(* Steps that only move a thread within its call. *)

BootPCs == {"idle", "new", "update", "announce", "done", "failed"}
WriterPCs == {"idle", "check", "window", "select", "send", "reduce", "fill"}
ReaderPCs == {"idle", "check", "pending", "select", "take", "clear", "update",
              "announce"}

\* Thread t moves to label l.
Moves(t, l) ==
  /\ pc' = [pc EXCEPT ![t] = l]
  /\ t \in Boot => pc[t] # "done" /\ l \in BootPCs
  /\ t \in Writers => l \in WriterPCs
  /\ t \in Readers => l \in ReaderPCs /\ (l # "idle" => HasStream(Home[t]))

\* A thread that moves to a label of its own call keeps ThreadShape.
LEMMA MovesShape ==
  ASSUME TypeOK, ThreadShape, NEW t \in Threads, NEW l, Moves(t, l)
  PROVE  /\ ThreadShape' /\ pc' \in [Threads -> PCs]
         /\ pc'[t] = l /\ \A u \in Threads : u # t => pc'[u] = pc[u]
<1>1. /\ pc \in [Threads -> PCs] /\ pc' = [pc EXCEPT ![t] = l]
      /\ pc'[t] = l /\ \A u \in Threads : u # t => pc'[u] = pc[u]
  BY Locals DEF Moves
<1>2. "open" \in Threads /\ "accept" \in Threads
  BY ThreadFacts
<1>3. \A e : HasStream(e) => HasStream(e)'
  BY <1>1, <1>2, ThreadFacts DEF HasStream, Moves
<1>4. \A u \in Boot : pc'[u] \in BootPCs
  BY <1>1, ThreadFacts DEF Moves, ThreadShape, BootPCs
<1>5. \A u \in Writers : pc'[u] \in WriterPCs
  BY <1>1, ThreadFacts DEF Moves, ThreadShape, WriterPCs
<1>6. \A u \in Readers : pc'[u] \in ReaderPCs /\ (pc'[u] # "idle" => HasStream(Home[u])')
  BY <1>1, <1>3, ThreadFacts DEF Moves, ThreadShape, ReaderPCs
<1>7. l \in PCs
  BY DEF Moves, BootPCs, WriterPCs, ReaderPCs, PCs, Threads, Updaters
<1>. QED
  BY <1>1, <1>4, <1>5, <1>6, <1>7
     DEF ThreadShape, BootPCs, WriterPCs, ReaderPCs, HasStream

\* Thread t moves to l and changes no locals of another thread.
Alone(t, l) ==
  /\ Moves(t, l)
  /\ \A u \in Threads : u # t => val'[u] = val[u]
  /\ \A u \in Updaters : u # t => hdr'[u] = hdr[u]

\* A thread that stays clear of sending and announcing changes neither set.
LEMMA AloneSame ==
  ASSUME TypeOK, ThreadShape, NEW t \in Threads, NEW l, Alone(t, l),
         l \notin {"announce", "send", "reduce"}, pc[t] # "reduce"
  PROVE  SameWriters /\ SameAnnouncers
<1>1. /\ pc'[t] = l /\ \A u \in Threads : u # t => pc'[u] = pc[u]
      /\ \A u \in Threads : u # t => val'[u] = val[u]
      /\ \A u \in Updaters : u # t => hdr'[u] = hdr[u]
  BY MovesShape DEF Alone
<1>2. SameWriters
  BY <1>1, ThreadFacts DEF SameWriters
<1>3. SameAnnouncers
  BY <1>1, ThreadFacts DEF SameAnnouncers
<1>. QED
  BY <1>2, <1>3

\* A thread that only moves on keeps the whole ledger.
LEMMA AloneLedger ==
  ASSUME IInv, NEW t \in Threads, NEW l, Alone(t, l),
         l \notin {"announce", "send", "reduce"}, pc[t] # "reduce",
         UNCHANGED <<window, buffer, rxvars>>, ThinnerChan
  PROVE  FlowLedger' /\ pc' \in [Threads -> PCs]
<1>1. /\ TypeOK /\ ThreadShape /\ SendLedger /\ RecvLedger /\ DataOrder
      /\ CreditOrder
  BY DEF IInv, FlowLedger
<1>2. ThreadShape' /\ pc' \in [Threads -> PCs]
  BY <1>1, MovesShape DEF Alone
<1>3. SameWriters /\ SameAnnouncers
  BY <1>1, AloneSame
<1>4. SendLedger'
  BY <1>1, <1>3, SendFrame DEF window, buffer
<1>5. RecvLedger'
  BY <1>1, RecvFrame DEF window, buffer, RecvVars
<1>6. DataOrder'
  BY <1>1, DataFrame DEF buffer, rxvars, ThinnerChan
<1>7. CreditOrder'
  BY <1>1, <1>3, CreditFrame DEF window, ThinnerChan
<1>. QED
  BY <1>2, <1>4, <1>5, <1>6, <1>7 DEF FlowLedger

\* Goto moves one thread and no locals.
LEMMA GotoAlone ==
  ASSUME TypeOK, NEW t \in Threads, NEW l, Goto(t, l), UNCHANGED hdr, Moves(t, l)
  PROVE  Alone(t, l)
BY DEF Goto, Alone

\* Return moves one thread and clears its own locals.
LEMMA ReturnAlone ==
  ASSUME TypeOK, NEW t \in Writers \cup Readers, NEW r, Return(t, r),
         \A u \in Updaters : u # t => hdr'[u] = hdr[u]
  PROVE  /\ Alone(t, "idle") /\ t \in Threads
         /\ val' \in [Threads -> Nat] /\ arg' \in [Threads -> Nat]
<1>1. t \in Threads /\ t \notin Boot
  BY ThreadFacts
<1>2. /\ pc' = [pc EXCEPT ![t] = "idle"] /\ val' = [val EXCEPT ![t] = 0]
      /\ arg' = [arg EXCEPT ![t] = 0]
  BY <1>1 DEF Return
<1>3. Moves(t, "idle")
  BY <1>1, <1>2 DEF Moves, WriterPCs, ReaderPCs
<1>4. val \in [Threads -> Nat] /\ arg \in [Threads -> Nat]
  BY Locals
<1>. QED
  BY <1>1, <1>2, <1>3, <1>4 DEF Alone

\* The part of the type invariant that a call's own steps leave alone.
LEMMA TypeFrame ==
  ASSUME TypeOK, UNCHANGED <<window, buffer, rxvars>>,
         chan' \in [Ends -> Seq(Frame)], state' \in [Ends -> States],
         readable' \in [Ends -> BOOLEAN], writeable' \in [Ends -> BOOLEAN],
         local_go_away' \in [Ends -> BOOLEAN], backlog' \in [Ends -> BOOLEAN],
         fin' \in [Ends -> Nat], UNCHANGED remote_go_away,
         pc' \in [Threads -> PCs], arg' \in [Threads -> Nat],
         val' \in [Threads -> Nat], hdr' \in [Updaters -> Frame],
         ret' \in [Threads -> {"none", "ok", "again", "eof", "error", "closed"}]
  PROVE  TypeOK'
BY DEF TypeOK, window, buffer, rxvars

\* session_open and session_accept before they send anything.
LEMMA OpenInv ==
  ASSUME IInv, OpenCheck \/ OpenNew \/ OpenNewFail \/ AcceptTake
  PROVE  IInv'
<1>0. TypeOK /\ ThreadShape
  BY DEF IInv, FlowLedger
<1>1. UNCHANGED <<window, buffer, ready, chan, rxvars, hdr, val, arg, ret, fin,
                  local_go_away, remote_go_away>>
  BY DEF OpenCheck, OpenNew, OpenNewFail, AcceptTake, Goto, session
<1>2. PICK t \in Boot, l \in BootPCs \ {"announce"} :
        pc' = [pc EXCEPT ![t] = l] /\ pc[t] \in {"idle", "new"}
  BY DEF OpenCheck, OpenNew, OpenNewFail, AcceptTake, Goto, Boot, BootPCs
<1>3. t \in Threads /\ t \notin Writers /\ t \notin Readers
  BY ThreadFacts
<1>4. Alone(t, l)
  BY <1>1, <1>2, <1>3 DEF Alone, Moves
<1>5. ThinnerChan
  BY <1>1, SameChan
<1>6. FlowLedger' /\ pc' \in [Threads -> PCs]
  <2>1. l \notin {"announce", "send", "reduce"} /\ pc[t] # "reduce"
    BY <1>2 DEF BootPCs
  <2>. QED
    BY <1>1, <1>3, <1>4, <1>5, <2>1, AloneLedger
<1>7. state' \in [Ends -> States] /\ backlog' \in [Ends -> BOOLEAN]
  BY <1>0 DEF TypeOK, OpenCheck, OpenNew, OpenNewFail, AcceptTake, session, States
<1>8. TypeOK'
  BY <1>0, <1>1, <1>6, <1>7, TypeFrame DEF TypeOK, ready
<1>. QED
  BY <1>6, <1>8 DEF IInv

\* session_accept whose read fails.
LEMMA AcceptFailInv ==
  ASSUME IInv, AcceptFail
  PROVE  IInv'
<1>0. TypeOK /\ ThreadShape
  BY DEF IInv, FlowLedger
<1>1. /\ UNCHANGED <<state, window, buffer, ready, rxvars, remote_go_away, backlog,
                     fin, hdr>>
      /\ UNCHANGED <<arg, val, ret>> /\ pc' = [pc EXCEPT !["accept"] = "failed"]
      /\ pc["accept"] = "idle"
  BY DEF AcceptFail, Goto
<1>2. "accept" \in Boot /\ "accept" \in Threads /\ "accept" \notin Writers
      /\ "accept" \notin Readers /\ "s" \in Ends
  BY ThreadFacts, EndFacts
<1>3. Alone("accept", "failed")
  BY <1>1, <1>2 DEF Alone, Moves, BootPCs
<1>4. /\ ThinnerChan /\ chan' \in [Ends -> Seq(Frame)]
      /\ local_go_away' \in [Ends -> BOOLEAN]
  BY <1>0, <1>2, GoAwaySteps DEF AcceptFail
<1>5. FlowLedger' /\ pc' \in [Threads -> PCs]
  BY <1>1, <1>2, <1>3, <1>4, AloneLedger
<1>6. TypeOK'
  BY <1>0, <1>1, <1>4, <1>5, TypeFrame DEF TypeOK, ready
<1>. QED
  BY <1>5, <1>6 DEF IInv

\* The steps of stream_write that move no bytes.
LEMMA WriteControlInv ==
  ASSUME IInv, NEW t \in Writers,
         \/ WriteCall(t) \/ WriteCheck(t) \/ WriteSelect(t) \/ WriteFill(t)
         \/ WriteFail(t) \/ WriteFillFail(t) \/ SelectFail(t)
  PROVE  IInv'
<1>0. TypeOK /\ ThreadShape
  BY DEF IInv, FlowLedger
<1>1. /\ UNCHANGED <<window, buffer, rxvars, readable, remote_go_away, backlog, fin,
                     hdr>>
      /\ pc[t] \in {"idle", "check", "select", "fill", "send"}
  BY DEF WriteCall, WriteCheck, WriteSelect, WriteFill, WriteFail, WriteFillFail,
     SelectFail,
         session, ready
<1>2. t \in Threads /\ Home[t] \in Ends /\ t \notin Boot /\ t \notin Readers
  BY ThreadFacts
<1>3. \E l \in {"idle", "check", "window"} :
        /\ Alone(t, l)
        /\ val' \in [Threads -> Nat] /\ arg' \in [Threads -> Nat]
  <2>1. CASE WriteCall(t)
    <3>1. /\ pc' = [pc EXCEPT ![t] = "check"] /\ UNCHANGED val
          /\ \E n \in WriteSizes : arg' = [arg EXCEPT ![t] = n]
      BY <2>1 DEF WriteCall
    <3>2. Alone(t, "check")
      BY <1>1, <1>2, <3>1 DEF Alone, Moves, WriterPCs
    <3>3. val' \in [Threads -> Nat] /\ arg' \in [Threads -> Nat]
      BY <1>0, <3>1, Locals, StreamAssumption DEF StreamAssumption
    <3>. QED
      BY <3>2, <3>3
  <2>2. ASSUME NEW l \in {"check", "window"}, Goto(t, l)
        PROVE  /\ Alone(t, l)
               /\ val' \in [Threads -> Nat] /\ arg' \in [Threads -> Nat]
    <3>1. Moves(t, l)
      BY <1>2, <2>2 DEF Goto, Moves, WriterPCs
    <3>. QED
      BY <1>0, <1>1, <1>2, <2>2, <3>1, GotoAlone, Locals DEF Goto
  <2>3. ASSUME NEW r, Return(t, r)
        PROVE  /\ Alone(t, "idle")
               /\ val' \in [Threads -> Nat] /\ arg' \in [Threads -> Nat]
    BY <1>0, <1>1, <2>3, ReturnAlone
  <2>. QED
    BY <2>1, <2>2, <2>3 DEF WriteCheck, WriteSelect, WriteFill, WriteFail,
       WriteFillFail, SelectFail
<1>4. ThinnerChan /\ chan' \in [Ends -> Seq(Frame)]
  <2>1. CASE WriteFillFail(t)
    BY <1>0, <1>2, <2>1, GoAwaySteps DEF WriteFillFail
  <2>2. CASE UNCHANGED chan
    BY <1>0, <2>2, SameChan DEF TypeOK
  <2>. QED
    BY <2>1, <2>2 DEF WriteCall, WriteCheck, WriteSelect, WriteFill, WriteFail,
       SelectFail
<1>5. FlowLedger' /\ pc' \in [Threads -> PCs]
  BY <1>1, <1>2, <1>3, <1>4, AloneLedger
<1>6. state' \in [Ends -> States]
  <2>1. CASE UNCHANGED state
    BY <1>0, <2>1 DEF TypeOK
  <2>2. CASE WriteFail(t)
    BY <1>0, <1>2, <2>2 DEF TypeOK, WriteFail, SentState, States
  <2>. QED
    BY <2>1, <2>2 DEF WriteCall, WriteCheck, WriteSelect, WriteFill,
       WriteFillFail, SelectFail
<1>7. /\ writeable' \in [Ends -> BOOLEAN]
      /\ ret' \in [Threads -> {"none", "ok", "again", "eof", "error", "closed"}]
  BY <1>0, <1>2 DEF TypeOK, WriteCall, WriteCheck, WriteSelect, WriteFill, WriteFail,
     WriteFillFail, SelectFail, Goto, Return, session, ready
<1>8. local_go_away' \in [Ends -> BOOLEAN]
  <2>1. CASE UNCHANGED local_go_away
    BY <1>0, <2>1 DEF TypeOK
  <2>2. CASE WriteFillFail(t)
    BY <1>0, <1>2, <2>2, GoAwaySteps DEF WriteFillFail
  <2>. QED
    BY <2>1, <2>2 DEF WriteCall, WriteCheck, WriteSelect, WriteFill, WriteFail,
       SelectFail, session
<1>9. TypeOK'
  <2>1. /\ readable' \in [Ends -> BOOLEAN] /\ backlog' \in [Ends -> BOOLEAN]
        /\ fin' \in [Ends -> Nat] /\ hdr' \in [Updaters -> Frame]
    BY <1>0, <1>1 DEF TypeOK
  <2>. QED
    BY <1>0, <1>1, <1>3, <1>4, <1>5, <1>6, <1>7, <1>8, <2>1, TypeFrame
<1>. QED
  BY <1>5, <1>9 DEF IInv

\* The steps of stream_read that move no bytes.
LEMMA ReadControlInv ==
  ASSUME IInv, NEW t \in Readers,
         \/ ReadCall(t) \/ ReadCheck(t) \/ ReadPending(t) \/ ReadSelect(t)
         \/ ReadClear(t) \/ ReadClearFail(t) \/ SelectFail(t)
  PROVE  IInv'
<1>0. TypeOK /\ ThreadShape
  BY DEF IInv, FlowLedger
<1>1. /\ UNCHANGED <<state, window, buffer, rxvars, chan, writeable, local_go_away,
                     remote_go_away, backlog, fin, hdr>>
      /\ pc[t] \in {"idle", "check", "select", "pending", "clear"}
  BY DEF ReadCall, ReadCheck, ReadPending, ReadSelect, ReadClear, ReadClearFail,
     SelectFail,
         session, ready
<1>2. /\ t \in Threads /\ Home[t] \in Ends /\ t \notin Boot /\ t \notin Writers
      /\ HasStream(Home[t])
  <2>1. pc[t] = "idle" => HasStream(Home[t])
    BY DEF ReadCall, ReadCheck, ReadPending, ReadSelect, ReadClear, ReadClearFail,
       SelectFail
  <2>. QED
    BY <1>0, <2>1, ThreadFacts DEF ThreadShape
<1>3. \E l \in {"idle", "check", "pending", "select", "take", "update"} :
        /\ Alone(t, l)
        /\ val' \in [Threads -> Nat] /\ arg' \in [Threads -> Nat]
  <2>1. CASE ReadCall(t)
    <3>1. /\ pc' = [pc EXCEPT ![t] = "check"] /\ UNCHANGED val
          /\ \E n \in ReadSizes : arg' = [arg EXCEPT ![t] = n]
      BY <2>1 DEF ReadCall
    <3>2. Alone(t, "check")
      BY <1>1, <1>2, <3>1 DEF Alone, Moves, ReaderPCs
    <3>3. val' \in [Threads -> Nat] /\ arg' \in [Threads -> Nat]
      BY <1>0, <3>1, Locals, StreamAssumption DEF StreamAssumption
    <3>. QED
      BY <3>2, <3>3
  <2>2. ASSUME NEW l \in {"check", "pending", "select", "take", "update"}, Goto(t, l)
        PROVE  /\ Alone(t, l)
               /\ val' \in [Threads -> Nat] /\ arg' \in [Threads -> Nat]
    <3>1. Moves(t, l)
      BY <1>2, <2>2 DEF Goto, Moves, ReaderPCs
    <3>. QED
      BY <1>0, <1>1, <1>2, <2>2, <3>1, GotoAlone, Locals DEF Goto
  <2>3. ASSUME NEW r, Return(t, r)
        PROVE  /\ Alone(t, "idle")
               /\ val' \in [Threads -> Nat] /\ arg' \in [Threads -> Nat]
    BY <1>0, <1>1, <2>3, ReturnAlone
  <2>. QED
    BY <2>1, <2>2, <2>3 DEF ReadCheck, ReadPending, ReadSelect, ReadClear,
       ReadClearFail, SelectFail
<1>4. ThinnerChan /\ chan' \in [Ends -> Seq(Frame)]
  BY <1>0, <1>1, SameChan DEF TypeOK
<1>5. FlowLedger' /\ pc' \in [Threads -> PCs]
  BY <1>1, <1>2, <1>3, <1>4, AloneLedger
<1>6. /\ readable' \in [Ends -> BOOLEAN]
      /\ ret' \in [Threads -> {"none", "ok", "again", "eof", "error", "closed"}]
  BY <1>0, <1>2 DEF TypeOK, ReadCall, ReadCheck, ReadPending, ReadSelect, ReadClear,
     ReadClearFail, SelectFail, Goto, Return, session, ready
<1>7. TypeOK'
  <2>1. /\ writeable' \in [Ends -> BOOLEAN] /\ backlog' \in [Ends -> BOOLEAN]
        /\ state' \in [Ends -> States] /\ local_go_away' \in [Ends -> BOOLEAN]
        /\ fin' \in [Ends -> Nat] /\ hdr' \in [Updaters -> Frame]
    BY <1>0, <1>1 DEF TypeOK
  <2>. QED
    BY <1>0, <1>1, <1>3, <1>4, <1>5, <1>6, <2>1, TypeFrame
<1>. QED
  BY <1>5, <1>7 DEF IInv

-----------------------------------------------------------------------------
(* send_window_update. *)

\* The credit computed in uint32_t is what was read and not yet granted.
LEMMA DeltaFacts ==
  ASSUME TypeOK, RecvLedger, NEW e \in Ends
  PROVE  /\ Delta(e) = taken[e] - granted[e] /\ Delta(e) \in Nat
         /\ Add32(recv_window[e], Delta(e)) = recv_window[e] + Delta(e)
         /\ recv_window[e] + Delta(e) \in 0 .. Word - 1
<1>1. /\ recv_window[e] \in Nat /\ got[e] \in Nat /\ taken[e] \in Nat
      /\ granted[e] \in Nat
  BY Numbers
<1>2. /\ recv_window[e] = MAX_STREAM_WINDOW_SIZE + granted[e] - got[e]
      /\ granted[e] <= taken[e] /\ taken[e] <= got[e]
  BY DEF RecvLedger
<1>3. got[e] - taken[e] <= MAX_STREAM_WINDOW_SIZE
  BY <1>1, <1>2, NumberFacts
<1>4. Sub32(MAX_STREAM_WINDOW_SIZE, bio_pending(e))
        = MAX_STREAM_WINDOW_SIZE - got[e] + taken[e]
  BY <1>1, <1>3, NumberFacts DEF Sub32, bio_pending
<1>5. Delta(e) = taken[e] - granted[e]
  BY <1>1, <1>2, <1>4, NumberFacts DEF Delta, Sub32
<1>6. recv_window[e] + Delta(e) = MAX_STREAM_WINDOW_SIZE + taken[e] - got[e]
  BY <1>1, <1>2, <1>5, NumberFacts
<1>. QED
  BY <1>1, <1>2, <1>5, <1>6, NumberFacts DEF Add32

\* While a thread is in send_window_update, no other thread of its end is.
LEMMA SoleUpdater ==
  ASSUME OneUserPerEnd, ThreadShape, NEW t \in Updaters, NEW u \in Updaters,
         pc[t] \in {"update", "announce"}, pc[u] = "announce", Home[u] = Home[t]
  PROVE  u = t
<1>1. \A b \in Boot : HasStream(Home[b]) => pc[b] = "done"
  BY ThreadFacts DEF HasStream, Boot
<1>2. \A r \in Readers : pc[r] # "idle" => HasStream(Home[r])
  BY DEF ThreadShape
<1>3. \A a, b \in Boot : Home[a] = Home[b] => a = b
  BY ThreadFacts DEF Boot
<1>4. t \in Boot \/ t \in Readers
  BY DEF Updaters
<1>5. u \in Boot \/ u \in Readers
  BY DEF Updaters
<1>. QED
  BY <1>1, <1>2, <1>3, <1>4, <1>5 DEF OneUserPerEnd

\* stream_send_flags leaves the stream in one of its states.
LEMMA SentStateType ==
  ASSUME TypeOK, NEW e \in Ends, state' = [state EXCEPT ![e] = SentState(@)]
  PROVE  state' \in [Ends -> States]
BY DEF TypeOK, SentState, States

\* A thread in send_window_update may move on to any label of its end.
LEMMA UpdaterMoves ==
  ASSUME TypeOK, ThreadShape, NEW t \in Updaters,
         pc[t] \in {"update", "announce"},
         NEW l, pc' = [pc EXCEPT ![t] = l],
         \/ l = "announce"
         \/ t \in Boot /\ l \in {"done", "failed"}
         \/ t \notin Boot /\ l = "idle"
  PROVE  Moves(t, l) /\ t \in Threads /\ t \notin Writers /\ Home[t] \in Ends
<1>1. t \in Threads /\ t \notin Writers /\ Home[t] \in Ends
  BY ThreadFacts
<1>2. t \in Readers => HasStream(Home[t])
  BY DEF ThreadShape
<1>. QED
  BY <1>1, <1>2, ThreadFacts DEF Moves, BootPCs, ReaderPCs, Updaters

\* send_window_update grants exactly what was read since the last grant.
LEMMA WindowUpdateInv ==
  ASSUME OneUserPerEnd, IInv, NEW t \in Updaters, WindowUpdate(t)
  PROVE  IInv'
<1> DEFINE e == Home[t]
           flags == SendFlags(state[e])
           delta == Delta(e)
<1>0. /\ TypeOK /\ ThreadShape /\ SendLedger /\ RecvLedger /\ DataOrder
      /\ CreditOrder
  BY DEF IInv, FlowLedger
<1>1. /\ t \in Threads /\ e \in Ends /\ t \notin Writers /\ pc[t] = "update"
  BY ThreadFacts DEF WindowUpdate
<1>2. /\ state' = [state EXCEPT ![e] = SentState(@)]
      /\ UNCHANGED <<send_window, applied, buffer, ready, chan, rxvars, session>>
  BY DEF WindowUpdate
<1>3. state' \in [Ends -> States] /\ chan' \in [Ends -> Seq(Frame)] /\ ThinnerChan
  BY <1>0, <1>1, <1>2, SentStateType, SameChan DEF TypeOK
<1>4. CASE Return(t, "ok") /\ UNCHANGED <<recv_window, granted, hdr>>
  <2> DEFINE l == IF t \in Boot THEN "done" ELSE "idle"
  <2>1. /\ pc' = [pc EXCEPT ![t] = l] /\ val' = [val EXCEPT ![t] = 0]
        /\ arg' = [arg EXCEPT ![t] = 0] /\ ret' = [ret EXCEPT ![t] = "ok"]
    BY <1>4 DEF Return
  <2>2. Moves(t, l)
    BY <1>0, <1>1, <2>1, UpdaterMoves
  <2>3. Alone(t, l) /\ l \notin {"announce", "send", "reduce"}
    BY <1>0, <1>1, <1>4, <2>1, <2>2, Locals DEF Alone
  <2>4. FlowLedger' /\ pc' \in [Threads -> PCs]
    BY <1>1, <1>2, <1>3, <1>4, <2>3, AloneLedger DEF window
  <2>5. TypeOK'
    <3>1. /\ val' \in [Threads -> Nat] /\ arg' \in [Threads -> Nat]
          /\ ret' \in [Threads -> {"none", "ok", "again", "eof", "error", "closed"}]
      BY <1>0, <2>1 DEF TypeOK
    <3>2. /\ readable' \in [Ends -> BOOLEAN] /\ writeable' \in [Ends -> BOOLEAN]
          /\ local_go_away' \in [Ends -> BOOLEAN] /\ backlog' \in [Ends -> BOOLEAN]
          /\ fin' \in [Ends -> Nat] /\ hdr' \in [Updaters -> Frame]
      BY <1>0, <1>2, <1>4 DEF TypeOK, ready, session
    <3>. QED
      BY <1>0, <1>2, <1>3, <1>4, <2>4, <3>1, <3>2, TypeFrame DEF window, session
  <2>. QED
    BY <2>4, <2>5 DEF IInv
<1>5. CASE /\ recv_window' = [recv_window EXCEPT ![e] = Add32(@, delta)]
           /\ granted' = [granted EXCEPT ![e] = @ + delta]
           /\ hdr' = [hdr EXCEPT ![t] = hdr_encode("WINDOW_UPDATE", flags,
                                          granted[e], granted[e] + delta)]
           /\ Goto(t, "announce")
  <2> DEFINE new == hdr_encode("WINDOW_UPDATE", flags, granted[e], granted[e] + delta)
  <2>1. /\ delta = taken[e] - granted[e] /\ delta \in Nat
        /\ Add32(recv_window[e], delta) = recv_window[e] + delta
        /\ recv_window[e] + delta \in 0 .. Word - 1
        /\ granted[e] \in Nat /\ taken[e] \in Nat /\ recv_window[e] \in Nat
    BY <1>0, <1>1, DeltaFacts, Numbers
  <2> HIDE DEF delta
  <2>2. /\ new \in Frame /\ new.type = "WINDOW_UPDATE" /\ new.lo = granted[e]
        /\ new.hi = granted[e] + delta
    BY <2>1 DEF hdr_encode, Frame, Types, Flags, SendFlags
  <2> HIDE DEF new
  <2>3. /\ pc' = [pc EXCEPT ![t] = "announce"] /\ UNCHANGED <<arg, val, ret>>
        /\ hdr' = [hdr EXCEPT ![t] = new]
    BY <1>5 DEF Goto, new
  <2>4. Moves(t, "announce")
    <3>1. pc' = [pc EXCEPT ![t] = "announce"]
      BY <2>3
    <3>2. t \in Readers => HasStream(Home[t])
      BY <1>0, <1>1 DEF ThreadShape
    <3>. QED
      BY <1>1, <3>1, <3>2, ThreadFacts DEF Moves, BootPCs, ReaderPCs
  <2>5. /\ ThreadShape' /\ pc' \in [Threads -> PCs] /\ pc'[t] = "announce"
        /\ \A u \in Threads : u # t => pc'[u] = pc[u]
    BY <1>0, <1>1, <2>4, MovesShape
  <2>6. SendLedger'
    <3>1. SameWriters
      BY <1>1, <2>3, <2>5, ThreadFacts DEF SameWriters
    <3>. QED
      BY <1>0, <1>2, <3>1, SendFrame DEF buffer
  <2>7. /\ recv_window'[e] = recv_window[e] + delta
        /\ granted'[e] = granted[e] + delta
        /\ \A d \in Ends : d # e => /\ recv_window'[d] = recv_window[d]
                                    /\ granted'[d] = granted[d]
        /\ UNCHANGED <<got, taken, out>>
    BY <1>0, <1>1, <1>2, <1>5, <2>1 DEF TypeOK, buffer
  <2>8. RecvLedger'
    <3>1. ASSUME NEW d \in Ends
          PROVE  /\ recv_window'[d] = MAX_STREAM_WINDOW_SIZE + granted'[d] - got[d]
                 /\ granted'[d] <= taken[d] /\ taken[d] <= got[d]
      <4>1. /\ recv_window[d] = MAX_STREAM_WINDOW_SIZE + granted[d] - got[d]
            /\ granted[d] <= taken[d] /\ taken[d] <= got[d]
        BY <1>0 DEF RecvLedger
      <4>2. /\ granted[d] \in Nat /\ got[d] \in Nat /\ taken[d] \in Nat
        BY <1>0, Numbers
      <4>. QED
        BY <2>1, <2>7, <4>1, <4>2, NumberFacts
    <3>. QED
      BY <2>7, <3>1 DEF RecvLedger
  <2>9. DataOrder'
    BY <1>0, <1>2, <1>3, DataFrame DEF buffer, rxvars, ThinnerChan
  <2>10. CreditOrder'
    <3>1. ASSUME NEW d \in Ends
          PROVE  /\ applied[d] <= granted'[Other(d)]
                 /\ Runs(chan[d], "WINDOW_UPDATE", applied[d], granted'[Other(d)])
      <4>1. /\ applied[d] <= granted[Other(d)]
            /\ Runs(chan[d], "WINDOW_UPDATE", applied[d], granted[Other(d)])
        BY <1>0 DEF CreditOrder
      <4>2. /\ applied[d] \in Nat /\ granted[Other(d)] \in Nat /\ Other(d) \in Ends
            /\ chan[d] \in Seq(Frame)
        BY <1>0, Numbers, EndFacts
      <4>3. granted[Other(d)] <= granted'[Other(d)] /\ granted'[Other(d)] \in Nat
        BY <2>1, <2>7, <4>2, SMTT(20)
      <4>. QED
        BY <4>1, <4>2, <4>3, RunsWiden
    <3>2. ASSUME NEW d \in Ends, NEW u \in Updaters, Home[u] = Other(d),
                 pc'[u] = "announce"
          PROVE  /\ hdr'[u].type = "WINDOW_UPDATE" /\ hdr'[u].lo <= hdr'[u].hi
                 /\ applied[d] <= hdr'[u].lo /\ hdr'[u].hi <= granted'[Other(d)]
                 /\ Runs(chan[d], "WINDOW_UPDATE", applied[d], hdr'[u].lo)
      <4>1. CASE u = t
        <5>1. hdr'[u] = new /\ Other(d) = e
          BY <1>0, <2>3, <3>2, <4>1, Locals
        <5>2. /\ applied[d] <= granted[e]
              /\ Runs(chan[d], "WINDOW_UPDATE", applied[d], granted[e])
          BY <1>0, <5>1 DEF CreditOrder
        <5>. QED
          BY <2>1, <2>2, <2>7, <5>1, <5>2
      <4>2. CASE u # t
        <5>1. pc[u] = "announce" /\ hdr'[u] = hdr[u]
          BY <1>0, <2>3, <2>5, <3>2, <4>2, ThreadFacts, Locals
        <5>2. Other(d) # e
          BY <1>0, <1>1, <3>2, <4>2, <5>1, SoleUpdater
        <5>3. granted'[Other(d)] = granted[Other(d)]
          BY <2>7, <5>2, EndFacts
        <5>. QED
          BY <1>0, <3>2, <5>1, <5>3 DEF CreditOrder
      <4>. QED
        BY <4>1, <4>2
    <3>. QED
      BY <1>2, <3>1, <3>2 DEF CreditOrder, Runs
  <2>11. TypeOK'
    <3>1. recv_window' \in [Ends -> 0 .. Word - 1] /\ granted' \in [Ends -> Nat]
      <4>1. recv_window \in [Ends -> 0 .. Word - 1] /\ granted \in [Ends -> Nat]
        BY <1>0 DEF TypeOK
      <4>2. /\ recv_window' = [recv_window EXCEPT ![e] = recv_window[e] + delta]
            /\ granted' = [granted EXCEPT ![e] = granted[e] + delta]
        BY <1>5, <2>1
      <4>3. granted[e] + delta \in Nat
        BY <2>1
      <4> HIDE DEF e
      <4>. QED
        BY <1>1, <2>1, <4>1, <4>2, <4>3
    <3>2. hdr' \in [Updaters -> Frame]
      BY <1>0, <2>2, <2>3, Locals
    <3>. QED
      BY <1>0, <1>2, <1>3, <2>3, <2>5, <3>1, <3>2
         DEF TypeOK, buffer, ready, rxvars, session
  <2>. QED
    BY <2>5, <2>6, <2>8, <2>9, <2>10, <2>11 DEF IInv, FlowLedger
<1>. QED
  BY <1>4, <1>5 DEF WindowUpdate

\* Queueing the header leaves nothing of this end to announce.
LEMMA AnnounceInv ==
  ASSUME OneUserPerEnd, IInv, NEW t \in Updaters, Announce(t)
  PROVE  IInv'
<1> DEFINE e == Home[t]
           d == Other(e)
           l == IF t \in Boot THEN "done" ELSE "idle"
<1>0. /\ TypeOK /\ ThreadShape /\ SendLedger /\ RecvLedger /\ DataOrder
      /\ CreditOrder
  BY DEF IInv, FlowLedger
<1>1. /\ t \in Threads /\ e \in Ends /\ t \notin Writers /\ pc[t] = "announce"
      /\ d \in Ends /\ Other(d) = e /\ d # e
  BY ThreadFacts, EndFacts DEF Announce
<1>2. /\ pc' = [pc EXCEPT ![t] = l] /\ val' = [val EXCEPT ![t] = 0]
      /\ arg' = [arg EXCEPT ![t] = 0] /\ ret' = [ret EXCEPT ![t] = "ok"]
      /\ hdr' = [hdr EXCEPT ![t] = NoFrame]
  BY DEF Announce, Return
<1>3. /\ UNCHANGED <<state, window, buffer, ready, rxvars, session>>
      /\ chan' = [chan EXCEPT ![d] = Append(chan[d], hdr[t])]
  BY DEF Announce, Queue
<1>4. Alone(t, l) /\ l \notin {"announce", "send", "reduce"}
  <2>1. t \in Readers => HasStream(Home[t])
    BY <1>0, <1>1 DEF ThreadShape
  <2>2. pc' = [pc EXCEPT ![t] = l]
    BY <1>2
  <2>3. Moves(t, l)
    BY <1>1, <2>1, <2>2, ThreadFacts DEF Moves, BootPCs, ReaderPCs
  <2>4. /\ val \in [Threads -> Nat] /\ hdr \in [Updaters -> Frame]
    BY <1>0, Locals
  <2>. QED
    BY <1>1, <1>2, <2>3, <2>4 DEF Alone
<1>5. /\ ThreadShape' /\ pc' \in [Threads -> PCs] /\ pc'[t] = l
      /\ \A u \in Threads : u # t => pc'[u] = pc[u]
  BY <1>0, <1>1, <1>4, MovesShape DEF Alone
<1>6. SendLedger' /\ RecvLedger'
  <2>1. SameWriters
    BY <1>0, <1>1, <1>4, AloneSame
  <2>. QED
    BY <1>0, <1>3, <2>1, SendFrame, RecvFrame DEF window, buffer, RecvVars
<1>7. /\ hdr[t] \in Frame /\ hdr[t].type = "WINDOW_UPDATE"
      /\ hdr[t].lo <= hdr[t].hi /\ hdr[t].lo \in Nat /\ hdr[t].hi \in Nat
      /\ applied[d] <= hdr[t].lo /\ hdr[t].hi <= granted[e]
      /\ Runs(chan[d], "WINDOW_UPDATE", applied[d], hdr[t].lo)
  BY <1>0, <1>1, Locals, FrameFacts DEF CreditOrder
<1>8. /\ chan \in [Ends -> Seq(Frame)] /\ chan[d] \in Seq(Frame)
      /\ Append(chan[d], hdr[t]) \in Seq(Frame)
      /\ applied[d] \in Nat /\ granted[e] \in Nat
  <2>1. chan \in [Ends -> Seq(Frame)] /\ chan[d] \in Seq(Frame)
        /\ applied[d] \in Nat /\ granted[e] \in Nat
    BY <1>0, <1>1, Numbers DEF TypeOK
  <2>. QED
    BY <1>7, <2>1, AppendFacts
<1>9. DataOrder'
  <2>1. Thinner(chan[d], Append(chan[d], hdr[t]), "DATA")
    <3>1. \A a \in Int, b \in Int : Runs(chan[d], "DATA", a, b) =>
            Runs(Append(chan[d], hdr[t]), "DATA", a, b)
      BY <1>7, <1>8, RunsAppendOther
    <3>2. WellFormed(chan[d]) => WellFormed(Append(chan[d], hdr[t]))
      BY <1>7, <1>8, WellFormedSteps
    <3>. QED
      BY <3>1, <3>2 DEF Thinner
  <2>2. \A q : Thinner(q, q, "DATA")
    BY DEF Thinner
  <2>3. ThinnerFor("DATA")
    BY <1>1, <1>3, <1>8, <2>1, <2>2 DEF ThinnerFor
  <2>. QED
    BY <1>0, <1>3, <2>3, DataFrame DEF buffer, rxvars
<1>10. Runs(Append(chan[d], hdr[t]), "WINDOW_UPDATE", applied[d], granted[e])
  <2> DEFINE q == Append(chan[d], hdr[t])
  <2>1. q \in Seq(Frame)
    BY <1>8
  <2>2. Runs(q, "WINDOW_UPDATE", applied[d], hdr[t].hi)
    BY <1>7, <1>8, RunsAppend, SMTT(20)
  <2>3. applied[d] \in Int /\ granted[e] \in Int /\ hdr[t].hi \in Int
    BY <1>7, <1>8
  <2>4. applied[d] <= applied[d] /\ hdr[t].hi <= granted[e]
    BY <1>7, <1>8
  <2> HIDE DEF q
  <2>5. Runs(q, "WINDOW_UPDATE", applied[d], granted[e])
    BY <2>1, <2>2, <2>3, <2>4, RunsWiden
  <2>. QED
    BY <2>5 DEF q
<1>11. CreditOrder'
  <2>1. ASSUME NEW k \in Ends
        PROVE  /\ applied[k] <= granted[Other(k)]
               /\ Runs(chan'[k], "WINDOW_UPDATE", applied[k], granted[Other(k)])
    <3>1. CASE k = d
      <4>1. chan'[k] = Append(chan[d], hdr[t])
        BY <1>1, <1>3, <1>8, <3>1
      <4>. QED
        BY <1>0, <1>1, <1>10, <3>1, <4>1 DEF CreditOrder
    <3>2. CASE k # d
      BY <1>0, <1>3, <1>8, <3>2 DEF CreditOrder
    <3>. QED
      BY <3>1, <3>2
  <2>2. ASSUME NEW k \in Ends, NEW u \in Updaters, Home[u] = Other(k),
               pc'[u] = "announce"
        PROVE  /\ hdr'[u].type = "WINDOW_UPDATE" /\ hdr'[u].lo <= hdr'[u].hi
               /\ applied[k] <= hdr'[u].lo /\ hdr'[u].hi <= granted[Other(k)]
               /\ Runs(chan'[k], "WINDOW_UPDATE", applied[k], hdr'[u].lo)
    <3>1. u # t
      BY <1>4, <1>5, <2>2
    <3>2. pc[u] = "announce" /\ hdr'[u] = hdr[u]
      BY <1>4, <1>5, <2>2, <3>1, ThreadFacts DEF Alone
    <3>3. Home[u] # e
      BY <1>0, <1>1, <3>1, <3>2, SoleUpdater
    <3>4. k # d
      BY <1>1, <2>2, <3>3
    <3>5. chan'[k] = chan[k]
      BY <1>3, <1>8, <3>4
    <3>. QED
      BY <1>0, <2>2, <3>2, <3>5 DEF CreditOrder
  <2>. QED
    BY <1>3, <2>1, <2>2 DEF CreditOrder, Runs, window
<1>12. TypeOK'
  <2>1. chan' \in [Ends -> Seq(Frame)]
    BY <1>3, <1>8
  <2>2. /\ val' \in [Threads -> Nat] /\ arg' \in [Threads -> Nat]
        /\ ret' \in [Threads -> {"none", "ok", "again", "eof", "error", "closed"}]
    BY <1>0, <1>2 DEF TypeOK
  <2>3. hdr' \in [Updaters -> Frame]
    <3>1. NoFrame \in Frame
      BY DEF NoFrame, hdr_encode, Frame, Types
    <3>. QED
      BY <1>0, <1>2, <3>1, Locals
  <2>4. /\ readable' \in [Ends -> BOOLEAN] /\ writeable' \in [Ends -> BOOLEAN]
        /\ local_go_away' \in [Ends -> BOOLEAN] /\ backlog' \in [Ends -> BOOLEAN]
        /\ fin' \in [Ends -> Nat] /\ state' \in [Ends -> States]
    BY <1>0, <1>3 DEF TypeOK, ready, session
  <2>. QED
    BY <1>0, <1>3, <1>5, <2>1, <2>2, <2>3, <2>4, TypeFrame DEF session
<1>. QED
  BY <1>5, <1>6, <1>9, <1>11, <1>12 DEF IInv, FlowLedger

\* A header that cannot be queued loses its credit and spends none.
LEMMA AnnounceFailInv ==
  ASSUME IInv, NEW t \in Updaters, AnnounceFail(t)
  PROVE  IInv'
<1> DEFINE l == IF t \in Boot THEN "failed" ELSE "idle"
<1>0. TypeOK /\ ThreadShape
  BY DEF IInv, FlowLedger
<1>1. /\ t \in Threads /\ t \notin Writers /\ pc[t] = "announce"
      /\ UNCHANGED <<window, buffer, ready, chan, rxvars, session>>
  BY ThreadFacts DEF AnnounceFail
<1>2. /\ pc' = [pc EXCEPT ![t] = l] /\ hdr' = [hdr EXCEPT ![t] = NoFrame]
      /\ val' = val \/ val' = [val EXCEPT ![t] = 0]
      /\ arg' = arg \/ arg' = [arg EXCEPT ![t] = 0]
      /\ ret' = ret \/ ret' = [ret EXCEPT ![t] = "ok"]
  BY DEF AnnounceFail, Goto, Return
<1>3. /\ val \in [Threads -> Nat] /\ hdr \in [Updaters -> Frame]
      /\ arg \in [Threads -> Nat]
  BY <1>0, Locals
<1>4. Alone(t, l) /\ l \notin {"announce", "send", "reduce"}
  <2>1. t \in Readers => HasStream(Home[t])
    BY <1>0, <1>1 DEF ThreadShape
  <2>2. pc' = [pc EXCEPT ![t] = l]
    BY <1>2
  <2>3. Moves(t, l)
    BY <1>1, <2>1, <2>2, ThreadFacts DEF Moves, BootPCs, ReaderPCs
  <2>. QED
    BY <1>1, <1>2, <1>3, <2>3 DEF Alone
<1>5. FlowLedger' /\ pc' \in [Threads -> PCs]
  BY <1>1, <1>4, SameChan, AloneLedger
<1>6. TypeOK'
  <2>1. /\ val' \in [Threads -> Nat] /\ arg' \in [Threads -> Nat]
    BY <1>2, <1>3
  <2>2. ret' \in [Threads -> {"none", "ok", "again", "eof", "error", "closed"}]
    BY <1>0, <1>2 DEF TypeOK
  <2>3. hdr' \in [Updaters -> Frame]
    <3>1. NoFrame \in Frame
      BY DEF NoFrame, hdr_encode, Frame, Types
    <3>. QED
      BY <1>2, <1>3, <3>1
  <2>4. state' \in [Ends -> States]
    BY <1>0 DEF TypeOK, AnnounceFail, States
  <2>5. /\ readable' \in [Ends -> BOOLEAN] /\ writeable' \in [Ends -> BOOLEAN]
        /\ local_go_away' \in [Ends -> BOOLEAN] /\ backlog' \in [Ends -> BOOLEAN]
        /\ fin' \in [Ends -> Nat] /\ chan' \in [Ends -> Seq(Frame)]
    BY <1>0, <1>1 DEF TypeOK, ready, session
  <2>. QED
    BY <1>0, <1>1, <1>5, <2>1, <2>2, <2>3, <2>4, <2>5, TypeFrame DEF session
<1>. QED
  BY <1>5, <1>6 DEF IInv

-----------------------------------------------------------------------------
(* stream_write and stream_read move bytes between the windows. *)

\* What the two ledgers say of an end together.
LEMMA Books ==
  ASSUME IInv, NEW e \in Ends
  PROVE  /\ applied[e] <= out[e] /\ out[e] <= MAX_STREAM_WINDOW_SIZE + applied[e]
         /\ applied[e] <= granted[Other(e)] /\ granted[Other(e)] <= out[e]
         /\ \E n \in 0 .. MAX_STREAM_WINDOW_SIZE : Unreduced(e, n)
         /\ \A n \in 0 .. MAX_STREAM_WINDOW_SIZE : Unreduced(e, n) =>
              /\ send_window[e] = MAX_STREAM_WINDOW_SIZE + applied[e] - out[e] + n
              /\ n <= send_window[e]
<1> DEFINE d == Other(e)
<1>0. TypeOK /\ SendLedger /\ RecvLedger /\ DataOrder /\ CreditOrder
  BY DEF IInv, FlowLedger
<1>1. d \in Ends /\ Other(d) = e
  BY EndFacts
<1>2. /\ applied[e] <= granted[d] /\ granted[d] <= taken[d] /\ taken[d] <= got[d]
      /\ got[d] + frame_remain[d] <= out[e]
  BY <1>0, <1>1 DEF RecvLedger, DataOrder, CreditOrder
<1>3. /\ applied[e] \in Nat /\ out[e] \in Nat /\ send_window[e] \in Nat
      /\ granted[d] \in Nat /\ taken[d] \in Nat /\ got[d] \in Nat
      /\ frame_remain[d] \in Nat
  BY <1>0, <1>1, Numbers
<1>4. applied[e] <= out[e] /\ granted[d] <= out[e]
  BY <1>2, <1>3
<1>5. PICK n \in 0 .. MAX_STREAM_WINDOW_SIZE : Unreduced(e, n)
  <2>1. CASE \A t \in Writers : Home[t] = e => pc[t] # "reduce"
    <3>1. Unreduced(e, 0) /\ 0 \in 0 .. MAX_STREAM_WINDOW_SIZE
      BY <2>1, NumberFacts DEF Unreduced
    <3>. QED
      BY <3>1
  <2>2. ASSUME NEW t \in Writers, Home[t] = e, pc[t] = "reduce"
        PROVE  \E n \in 0 .. MAX_STREAM_WINDOW_SIZE : Unreduced(e, n)
    <3>1. Unreduced(e, val[t])
      BY <2>2 DEF Unreduced
    <3>2. val[t] \in Nat /\ val[t] <= MAX_STREAM_WINDOW_SIZE
      BY <1>0, <2>2, Locals, ThreadFacts DEF SendLedger
    <3>3. val[t] \in 0 .. MAX_STREAM_WINDOW_SIZE
      BY <3>2, NumberFacts
    <3>. QED
      BY <3>1, <3>3
  <2>. QED
    BY <2>1, <2>2
<1>6. \A k \in 0 .. MAX_STREAM_WINDOW_SIZE : Unreduced(e, k) =>
              /\ send_window[e] = MAX_STREAM_WINDOW_SIZE + applied[e] - out[e] + k
              /\ k <= send_window[e]
  BY <1>0 DEF SendLedger
<1>7. out[e] <= MAX_STREAM_WINDOW_SIZE + applied[e]
  <2>1. /\ send_window[e] = MAX_STREAM_WINDOW_SIZE + applied[e] - out[e] + n
        /\ n <= send_window[e]
    BY <1>5, <1>6
  <2>. QED
    BY <1>3, <2>1, NumberFacts
<1>. QED
  BY <1>2, <1>4, <1>5, <1>6, <1>7

\* The only writer of an end accounts for what is sent and not reduced.
LEMMA SoleWriter ==
  ASSUME OneUserPerEnd, NEW t \in Writers
  PROVE  /\ pc[t] # "reduce" => Unreduced(Home[t], 0)
         /\ pc[t] = "reduce" => Unreduced(Home[t], val[t])
         /\ \A n : Unreduced(Home[t], n) => n = IF pc[t] = "reduce" THEN val[t] ELSE 0
         /\ \A u \in Writers : Home[u] = Home[t] => u = t
BY DEF OneUserPerEnd, Unreduced

\* The window that stream_write reads is at most one full window.
LEMMA WriteWindowInv ==
  ASSUME OneUserPerEnd, IInv, NEW t \in Writers, WriteWindow(t)
  PROVE  IInv'
<1> DEFINE e == Home[t]
<1>0. TypeOK /\ ThreadShape /\ SendLedger /\ RecvLedger /\ DataOrder /\ CreditOrder
  BY DEF IInv, FlowLedger
<1>1. /\ t \in Threads /\ e \in Ends /\ pc[t] = "window" /\ t \notin Boot
      /\ t \notin Readers
      /\ UNCHANGED <<state, window, buffer, ready, chan, rxvars, session, hdr>>
  BY ThreadFacts DEF WriteWindow
<1>2. ThinnerChan
  BY <1>1, SameChan
<1>3. PICK l \in {"send", "select", "idle"} :
        /\ Alone(t, l) /\ val' \in [Threads -> Nat] /\ arg' \in [Threads -> Nat]
        /\ l = "send" => val' = [val EXCEPT ![t] = send_window[e]]
  <2>1. CASE /\ val' = [val EXCEPT ![t] = send_window[e]]
             /\ pc' = [pc EXCEPT ![t] = "send"] /\ UNCHANGED <<arg, ret>>
    <3>1. Moves(t, "send")
      BY <1>1, <2>1 DEF Moves, WriterPCs
    <3>2. /\ val \in [Threads -> Nat] /\ arg \in [Threads -> Nat]
          /\ send_window[e] \in Nat
      BY <1>0, <1>1, Locals, Numbers
    <3>. QED
      BY <1>1, <2>1, <3>1, <3>2 DEF Alone
  <2>2. CASE Goto(t, "select")
    <3>1. Moves(t, "select")
      BY <1>1, <2>2 DEF Goto, Moves, WriterPCs
    <3>. QED
      BY <1>0, <1>1, <2>2, <3>1, GotoAlone, Locals DEF Goto
  <2>3. CASE Return(t, "again")
    BY <1>0, <1>1, <2>3, ReturnAlone
  <2>. QED
    BY <2>1, <2>2, <2>3 DEF WriteWindow
<1>4. FlowLedger' /\ pc' \in [Threads -> PCs]
  <2>1. CASE l # "send"
    BY <1>1, <1>2, <1>3, <2>1, AloneLedger
  <2>2. CASE l = "send"
    <3>1. /\ ThreadShape' /\ pc' \in [Threads -> PCs] /\ pc'[t] = "send"
          /\ \A u \in Threads : u # t => pc'[u] = pc[u] /\ val'[u] = val[u]
      BY <1>0, <1>1, <1>3, <2>2, MovesShape DEF Alone
    <3>2. val'[t] = send_window[e] /\ send_window[e] <= MAX_STREAM_WINDOW_SIZE
      <4>1. send_window[e] = MAX_STREAM_WINDOW_SIZE + applied[e] - out[e] + 0
            /\ applied[e] <= out[e]
        BY <1>1, SoleWriter, Books, NumberFacts
      <4>2. send_window[e] \in Nat /\ applied[e] \in Nat /\ out[e] \in Nat
        BY <1>0, <1>1, Numbers
      <4>3. val'[t] = send_window[e]
        BY <1>0, <1>1, <1>3, <2>2, Locals
      <4>. QED
        BY <4>1, <4>2, <4>3, NumberFacts
    <3>3. SendLedger'
      <4>1. \A d, n : Unreduced(d, n)' => Unreduced(d, n)
        BY <1>1, <3>1, ThreadFacts DEF Unreduced
      <4>2. \A d \in Ends, n \in 0 .. MAX_STREAM_WINDOW_SIZE : Unreduced(d, n)' =>
              /\ send_window[d] = MAX_STREAM_WINDOW_SIZE + applied[d] - out[d] + n
              /\ n <= send_window[d]
        BY <1>0, <4>1 DEF SendLedger
      <4>3. ASSUME NEW u \in Writers, pc'[u] \in {"send", "reduce"}
            PROVE  val'[u] <= send_window[Home[u]] /\ val'[u] <= MAX_STREAM_WINDOW_SIZE
        <5>1. CASE u = t
          <6>1. send_window[e] \in Nat
            BY <1>0, <1>1, Numbers
          <6>. QED
            BY <3>2, <5>1, <6>1
        <5>2. CASE u # t
          BY <1>0, <3>1, <4>3, <5>2, ThreadFacts DEF SendLedger
        <5>. QED
          BY <5>1, <5>2
      <4>. QED
        BY <1>1, <4>2, <4>3 DEF SendLedger, window, buffer
    <3>4. SameAnnouncers
      BY <1>1, <3>1, ThreadFacts DEF SameAnnouncers
    <3>5. RecvLedger' /\ DataOrder' /\ CreditOrder'
      BY <1>0, <1>1, <1>2, <3>4, RecvFrame, DataFrame, CreditFrame
         DEF window, buffer, rxvars, RecvVars, ThinnerChan
    <3>. QED
      BY <3>1, <3>3, <3>5 DEF FlowLedger
  <2>. QED
    BY <2>1, <2>2
<1>5. TypeOK'
  <2>1. ret' \in [Threads -> {"none", "ok", "again", "eof", "error", "closed"}]
    BY <1>0 DEF TypeOK, WriteWindow, Goto, Return
  <2>2. /\ readable' \in [Ends -> BOOLEAN] /\ writeable' \in [Ends -> BOOLEAN]
        /\ local_go_away' \in [Ends -> BOOLEAN] /\ backlog' \in [Ends -> BOOLEAN]
        /\ fin' \in [Ends -> Nat] /\ chan' \in [Ends -> Seq(Frame)]
        /\ state' \in [Ends -> States] /\ hdr' \in [Updaters -> Frame]
    BY <1>0, <1>1 DEF TypeOK, ready, session
  <2>. QED
    BY <1>0, <1>1, <1>3, <1>4, <2>1, <2>2, TypeFrame DEF session
<1>. QED
  BY <1>4, <1>5 DEF IInv

\* A frame of one type disturbs none of the runs of the other.
LEMMA QueueOther ==
  ASSUME TypeOK, NEW e \in Ends, NEW f \in Frame, f.lo <= f.hi, Queue(e, f),
         NEW type, f.type # type
  PROVE  /\ ThinnerFor(type) /\ chan' \in [Ends -> Seq(Frame)]
         /\ chan'[Other(e)] = Append(chan[Other(e)], f)
         /\ chan'[e] = chan[e]
<1>1. /\ chan \in [Ends -> Seq(Frame)] /\ Other(e) \in Ends /\ Other(e) # e
      /\ \A d \in Ends : d = e \/ d = Other(e)
  BY EndFacts DEF TypeOK
<1>2. chan' = [chan EXCEPT ![Other(e)] = Append(chan[Other(e)], f)]
  BY DEF Queue
<1>3. Append(chan[Other(e)], f) \in Seq(Frame)
  BY <1>1, AppendFacts
<1>4. Thinner(chan[Other(e)], Append(chan[Other(e)], f), type)
  BY <1>1, RunsAppendOther, WellFormedSteps DEF Thinner
<1>5. \A q : Thinner(q, q, type)
  BY DEF Thinner
<1>. QED
  BY <1>1, <1>2, <1>3, <1>4, <1>5 DEF ThinnerFor

\* stream_write sends bytes the window allows before it reduces the window.
LEMMA WriteSendInv ==
  ASSUME OneUserPerEnd, IInv, NEW t \in Writers, WriteSend(t)
  PROVE  IInv'
<1> DEFINE e == Home[t]
           d == Other(e)
           max == SendSize(t)
<1>0. TypeOK /\ ThreadShape /\ SendLedger /\ RecvLedger /\ DataOrder /\ CreditOrder
  BY DEF IInv, FlowLedger
<1>1. /\ t \in Threads /\ e \in Ends /\ pc[t] = "send" /\ t \notin Boot
      /\ t \notin Readers /\ t \notin Updaters
      /\ d \in Ends /\ Other(d) = e /\ d # e /\ \A k \in Ends : k = e \/ k = d
  BY ThreadFacts, EndFacts DEF WriteSend
<1>2. /\ UNCHANGED <<window, got, taken, ready, rxvars, local_go_away,
                     remote_go_away, backlog, arg, hdr, ret>>
      /\ state' = [state EXCEPT ![e] = SentState(@)]
      /\ out' = [out EXCEPT ![e] = out[e] + max]
      /\ val' = [val EXCEPT ![t] = max]
      /\ pc' = [pc EXCEPT ![t] = "reduce"]
  BY DEF WriteSend
<1>3. /\ max \in Nat /\ max <= send_window[e] /\ max <= MAX_STREAM_WINDOW_SIZE
      /\ send_window[e] \in Nat /\ out[e] \in Nat /\ applied[e] \in Nat
  <2>1. /\ val[t] <= send_window[e] /\ val[t] <= MAX_STREAM_WINDOW_SIZE
        /\ val[t] \in Nat /\ arg[t] \in Nat
    BY <1>0, <1>1, Locals DEF SendLedger
  <2>2. send_window[e] \in Nat /\ out[e] \in Nat /\ applied[e] \in Nat
    BY <1>0, <1>1, Numbers
  <2>. QED
    BY <2>1, <2>2, NumberFacts DEF SendSize, MIN
<1> HIDE DEF max
<1>4. PICK f \in Frame : /\ f.type = "DATA" /\ f.lo = out[e] /\ f.hi = out[e] + max
                         /\ Queue(e, f)
  <2>1. PICK last \in BOOLEAN :
          Queue(e, hdr_encode("DATA",
            SendFlags(state[e]) \cup (IF last THEN {"FIN"} ELSE {}), out[e],
            out[e] + max))
    BY DEF WriteSend, max
  <2> DEFINE f == hdr_encode("DATA",
            SendFlags(state[e]) \cup (IF last THEN {"FIN"} ELSE {}), out[e],
            out[e] + max)
  <2>2. SendFlags(state[e]) \cup (IF last THEN {"FIN"} ELSE {}) \in SUBSET Flags
    BY DEF SendFlags, Flags
  <2>3. /\ f \in Frame /\ f.type = "DATA" /\ f.lo = out[e] /\ f.hi = out[e] + max
    BY <1>3, <2>2 DEF hdr_encode, Frame, Types
  <2>4. Queue(e, f)
    BY <2>1
  <2>. QED
    BY <2>3, <2>4
<1>5. /\ ThinnerFor("WINDOW_UPDATE") /\ chan' \in [Ends -> Seq(Frame)]
      /\ chan'[d] = Append(chan[d], f) /\ chan'[e] = chan[e] /\ f.lo <= f.hi
  <2>1. f.lo <= f.hi
    BY <1>3, <1>4
  <2>. QED
    BY <1>0, <1>1, <1>4, <2>1, QueueOther
<1>6. /\ ThreadShape' /\ pc' \in [Threads -> PCs] /\ pc'[t] = "reduce"
      /\ \A u \in Threads : u # t => pc'[u] = pc[u]
  <2>1. pc' = [pc EXCEPT ![t] = "reduce"]
    BY <1>2
  <2>2. Moves(t, "reduce")
    BY <1>1, <2>1 DEF Moves, WriterPCs
  <2>. QED
    BY <1>0, <1>1, <2>2, MovesShape
<1>7. /\ val'[t] = max /\ \A u \in Threads : u # t => val'[u] = val[u]
      /\ val' \in [Threads -> Nat]
  <2>1. val \in [Threads -> Nat]
    BY <1>0, Locals
  <2>. QED
    BY <1>1, <1>2, <1>3, <2>1
<1>8. out'[e] = out[e] + max /\ out'[d] = out[d] /\ out' \in [Ends -> Nat]
  <2>1. out \in [Ends -> Nat] /\ out[e] + max \in Nat
    BY <1>0, <1>3, SMTT(20) DEF TypeOK
  <2>. QED
    BY <1>1, <1>2, <2>1
<1>9. SendLedger'
  <2>1. \A n : Unreduced(e, n)' => n = max
    BY <1>1, <1>6, <1>7, SoleWriter DEF Unreduced
  <2>2. \A n : Unreduced(d, n)' => Unreduced(d, n)
    BY <1>1, <1>6, <1>7, ThreadFacts DEF Unreduced
  <2>3. send_window[e] = MAX_STREAM_WINDOW_SIZE + applied[e] - out[e] + 0
    BY <1>1, SoleWriter, Books, NumberFacts
  <2>4. ASSUME NEW k \in Ends, NEW n \in 0 .. MAX_STREAM_WINDOW_SIZE, Unreduced(k, n)'
        PROVE  /\ send_window[k] = MAX_STREAM_WINDOW_SIZE + applied[k] - out'[k] + n
               /\ n <= send_window[k]
    <3>1. CASE k = e
      BY <1>3, <1>8, <2>1, <2>3, <2>4, <3>1, NumberFacts
    <3>2. CASE k = d
      BY <1>0, <1>8, <2>2, <2>4, <3>2 DEF SendLedger
    <3>. QED
      BY <1>1, <3>1, <3>2
  <2>5. ASSUME NEW u \in Writers, pc'[u] \in {"send", "reduce"}
        PROVE  val'[u] <= send_window[Home[u]] /\ val'[u] <= MAX_STREAM_WINDOW_SIZE
    <3>1. CASE u = t
      BY <1>3, <1>7, <3>1
    <3>2. CASE u # t
      BY <1>0, <1>6, <1>7, <2>5, <3>2, ThreadFacts DEF SendLedger
    <3>. QED
      BY <3>1, <3>2
  <2>. QED
    BY <1>2, <2>4, <2>5 DEF SendLedger, window
<1>10. RecvLedger' /\ CreditOrder'
  <2>1. SameAnnouncers
    BY <1>1, <1>2, <1>6, ThreadFacts DEF SameAnnouncers
  <2>. QED
    BY <1>0, <1>2, <1>5, <2>1, RecvFrame, CreditFrame DEF window, RecvVars
<1>11. DataOrder'
  <2>1. /\ got[d] + frame_remain[d] <= out[e]
        /\ WellFormed(chan[d])
        /\ Runs(chan[d], "DATA", got[d] + frame_remain[d], out[e])
        /\ rx[d] \in {"idle", "wnotify"} => frame_remain[d] = 0
    BY <1>0, <1>1 DEF DataOrder
  <2>2. chan[d] \in Seq(Frame) /\ got[d] \in Nat /\ frame_remain[d] \in Nat
    BY <1>0, <1>1, Numbers
  <2>3. /\ WellFormed(Append(chan[d], f))
        /\ Runs(Append(chan[d], f), "DATA", got[d] + frame_remain[d], out[e] + max)
    <3>1. got[d] + frame_remain[d] \in Int /\ out[e] \in Int /\ out[e] <= f.lo
      BY <1>3, <1>4, <2>2
    <3>2. WellFormed(Append(chan[d], f))
      BY <1>4, <1>5, <2>1, <2>2, WellFormedSteps
    <3>3. Runs(Append(chan[d], f), "DATA", got[d] + frame_remain[d], f.hi)
      BY <1>4, <1>5, <2>1, <2>2, <3>1, RunsAppend
    <3>. QED
      BY <1>4, <3>2, <3>3
  <2>4. got[d] + frame_remain[d] <= out[e] + max
    BY <1>3, <2>1, <2>2
  <2>5. ASSUME NEW k \in Ends
        PROVE  /\ got[k] + frame_remain[k] <= out'[Other(k)]
               /\ rx[k] \in {"idle", "wnotify"} => frame_remain[k] = 0
               /\ WellFormed(chan'[k])
               /\ Runs(chan'[k], "DATA", got[k] + frame_remain[k], out'[Other(k)])
    <3>1. CASE k = e
      BY <1>0, <1>1, <1>5, <1>8, <3>1 DEF DataOrder
    <3>2. CASE k = d
      BY <1>1, <1>5, <1>8, <2>1, <2>3, <2>4, <3>2
    <3>. QED
      BY <1>1, <3>1, <3>2
  <2>. QED
    BY <1>2, <2>5 DEF DataOrder, Runs, WellFormed, rxvars
<1>12. TypeOK'
  <2>1. state' \in [Ends -> States] /\ fin' \in [Ends -> Nat]
    <3>1. fin' \in [Ends -> Nat]
      <4>1. fin \in [Ends -> Nat]
        BY <1>0 DEF TypeOK
      <4>2. \E last \in BOOLEAN : fin' = [fin EXCEPT ![e] = IF last THEN @ + 1 ELSE @]
        BY DEF WriteSend
      <4>. QED
        BY <1>1, <4>1, <4>2
    <3>. QED
      BY <1>0, <1>1, <1>2, <3>1, SentStateType
  <2>. QED
    BY <1>0, <1>2, <1>5, <1>6, <1>7, <1>8, <2>1 DEF TypeOK, window, ready, rxvars
<1>. QED
  BY <1>6, <1>9, <1>10, <1>11, <1>12 DEF IInv, FlowLedger

\* Reducing the window by what was sent does not wrap.
LEMMA WriteReduceInv ==
  ASSUME OneUserPerEnd, IInv, NEW t \in Writers, WriteReduce(t)
  PROVE  IInv'
<1> DEFINE e == Home[t]
           left == Sub32(send_window[e], val[t])
<1>0. TypeOK /\ ThreadShape /\ SendLedger /\ RecvLedger /\ DataOrder /\ CreditOrder
  BY DEF IInv, FlowLedger
<1>1. /\ t \in Threads /\ e \in Ends /\ pc[t] = "reduce" /\ t \notin Boot
      /\ t \notin Readers
      /\ UNCHANGED <<state, recv_window, granted, applied, buffer, ready, chan,
                     rxvars, session, hdr>>
      /\ send_window' = [send_window EXCEPT ![e] = left]
  BY ThreadFacts DEF WriteReduce
<1>2. /\ left = send_window[e] - val[t] /\ left \in 0 .. Word - 1
      /\ left = MAX_STREAM_WINDOW_SIZE + applied[e] - out[e]
  <2>1. /\ val[t] <= send_window[e] /\ val[t] <= MAX_STREAM_WINDOW_SIZE
        /\ val[t] \in Nat
    BY <1>0, <1>1, Locals DEF SendLedger
  <2>2. /\ send_window[e] \in Nat /\ send_window[e] < Word
        /\ applied[e] \in Nat /\ out[e] \in Nat
    BY <1>0, <1>1, Numbers
  <2>3. send_window[e] = MAX_STREAM_WINDOW_SIZE + applied[e] - out[e] + val[t]
    <3>1. Unreduced(e, val[t]) /\ val[t] \in 0 .. MAX_STREAM_WINDOW_SIZE
      BY <1>1, <2>1, SoleWriter, NumberFacts
    <3>. QED
      BY <1>1, <3>1, Books
  <2>. QED
    BY <2>1, <2>2, <2>3, NumberFacts DEF Sub32
<1> HIDE DEF left
<1>3. /\ send_window'[e] = left /\ send_window' \in [Ends -> 0 .. Word - 1]
      /\ \A k \in Ends : k # e => send_window'[k] = send_window[k]
  <2>1. send_window \in [Ends -> 0 .. Word - 1]
    BY <1>0 DEF TypeOK
  <2>. QED
    BY <1>1, <1>2, <2>1
<1>4. PICK l \in {"fill", "idle"} :
        Alone(t, l) /\ val' \in [Threads -> Nat] /\ arg' \in [Threads -> Nat]
  <2>1. CASE Goto(t, "fill")
    <3>1. Moves(t, "fill")
      BY <1>1, <2>1 DEF Goto, Moves, WriterPCs
    <3>. QED
      BY <1>0, <1>1, <2>1, <3>1, GotoAlone, Locals DEF Goto
  <2>2. CASE Return(t, "ok")
    BY <1>0, <1>1, <2>2, ReturnAlone
  <2>. QED
    BY <2>1, <2>2 DEF WriteReduce
<1>5. /\ ThreadShape' /\ pc' \in [Threads -> PCs] /\ pc'[t] = l
      /\ \A u \in Threads : u # t => pc'[u] = pc[u] /\ val'[u] = val[u]
  BY <1>0, <1>1, <1>4, MovesShape DEF Alone
<1>6. SendLedger'
  <2>1. \A n : Unreduced(e, n)' => n = 0
    BY <1>1, <1>5, SoleWriter DEF Unreduced
  <2>2. \A k, n : k # e /\ Unreduced(k, n)' => Unreduced(k, n)
    BY <1>1, <1>5, ThreadFacts DEF Unreduced
  <2>3. ASSUME NEW k \in Ends, NEW n \in 0 .. MAX_STREAM_WINDOW_SIZE, Unreduced(k, n)'
        PROVE  /\ send_window'[k] = MAX_STREAM_WINDOW_SIZE + applied[k] - out[k] + n
               /\ n <= send_window'[k]
    <3>1. CASE k = e
      <4>1. applied[e] \in Nat /\ out[e] \in Nat
        BY <1>0, <1>1, Numbers
      <4>. QED
        BY <1>2, <1>3, <2>1, <2>3, <3>1, <4>1, NumberFacts
    <3>2. CASE k # e
      BY <1>0, <1>3, <2>2, <2>3, <3>2 DEF SendLedger
    <3>. QED
      BY <3>1, <3>2
  <2>4. ASSUME NEW u \in Writers, pc'[u] \in {"send", "reduce"}
        PROVE  val'[u] <= send_window'[Home[u]] /\ val'[u] <= MAX_STREAM_WINDOW_SIZE
    <3>1. u # t
      BY <1>4, <1>5, <2>4
    <3>2. Home[u] # e /\ Home[u] \in Ends /\ u \in Threads
      BY <3>1, SoleWriter, ThreadFacts
    <3>. QED
      BY <1>0, <1>3, <1>5, <2>4, <3>1, <3>2 DEF SendLedger
  <2>. QED
    BY <1>1, <2>3, <2>4 DEF SendLedger, buffer
<1>7. RecvLedger' /\ DataOrder' /\ CreditOrder'
  <2>1. SameAnnouncers /\ ThinnerChan
    BY <1>1, <1>4, <1>5, ThreadFacts, SameChan DEF SameAnnouncers
  <2>. QED
    BY <1>0, <1>1, <2>1, RecvFrame, DataFrame, CreditFrame
       DEF buffer, rxvars, RecvVars, ThinnerChan
<1>8. TypeOK'
  <2>1. ret' \in [Threads -> {"none", "ok", "again", "eof", "error", "closed"}]
    BY <1>0 DEF TypeOK, WriteReduce, Goto, Return
  <2>. QED
    BY <1>0, <1>1, <1>3, <1>4, <1>5, <2>1 DEF TypeOK, buffer, ready, rxvars, session
<1>. QED
  BY <1>5, <1>6, <1>7, <1>8 DEF IInv, FlowLedger

\* bio_read in stream_read takes no more than was received.
LEMMA ReadTakeInv ==
  ASSUME IInv, NEW t \in Readers, ReadTake(t)
  PROVE  IInv'
<1> DEFINE e == Home[t]
           r == MIN(bio_pending(e), arg[t])
<1>0. TypeOK /\ ThreadShape /\ SendLedger /\ RecvLedger /\ DataOrder /\ CreditOrder
  BY DEF IInv, FlowLedger
<1>1. /\ t \in Threads /\ e \in Ends /\ pc[t] = "take" /\ t \notin Boot
      /\ t \notin Writers
      /\ UNCHANGED <<state, window, got, out, ready, chan, rxvars, session, arg,
                     hdr, ret>>
      /\ taken' = [taken EXCEPT ![e] = taken[e] + r]
      /\ val' = [val EXCEPT ![t] = r]
  BY ThreadFacts DEF ReadTake
<1>2. r \in Nat /\ taken[e] + r <= got[e] /\ taken[e] \in Nat
  <2>1. got[e] \in Nat /\ taken[e] \in Nat /\ arg[t] \in Nat /\ taken[e] <= got[e]
    BY <1>0, <1>1, Numbers, Locals DEF RecvLedger
  <2>. QED
    BY <2>1 DEF MIN, bio_pending
<1> HIDE DEF r
<1>3. /\ taken'[e] = taken[e] + r /\ taken' \in [Ends -> Nat]
      /\ \A k \in Ends : k # e => taken'[k] = taken[k]
  <2>1. taken \in [Ends -> Nat] /\ taken[e] + r \in Nat
    BY <1>0, <1>2, SMTT(20) DEF TypeOK
  <2>. QED
    BY <1>1, <2>1
<1>4. PICK l \in {"clear", "update"} : Alone(t, l) /\ val' \in [Threads -> Nat]
  <2>1. PICK l \in {"clear", "update"} : pc' = [pc EXCEPT ![t] = l]
    BY DEF ReadTake
  <2>2. HasStream(e)
    BY <1>0, <1>1 DEF ThreadShape
  <2>3. Moves(t, l)
    BY <1>1, <2>1, <2>2 DEF Moves, ReaderPCs
  <2>4. val \in [Threads -> Nat]
    BY <1>0, Locals
  <2>. QED
    BY <1>1, <1>2, <2>3, <2>4 DEF Alone
<1>5. /\ ThreadShape' /\ pc' \in [Threads -> PCs]
  BY <1>0, <1>1, <1>4, MovesShape DEF Alone
<1>6. SameWriters /\ SameAnnouncers /\ ThinnerChan
  BY <1>0, <1>1, <1>4, AloneSame, SameChan
<1>7. SendLedger' /\ DataOrder' /\ CreditOrder'
  BY <1>0, <1>1, <1>6, SendFrame, DataFrame, CreditFrame
     DEF window, rxvars, ThinnerChan
<1>8. RecvLedger'
  <2>1. ASSUME NEW k \in Ends
        PROVE  /\ recv_window[k] = MAX_STREAM_WINDOW_SIZE + granted[k] - got[k]
               /\ granted[k] <= taken'[k] /\ taken'[k] <= got[k]
    <3>1. /\ recv_window[k] = MAX_STREAM_WINDOW_SIZE + granted[k] - got[k]
          /\ granted[k] <= taken[k] /\ taken[k] <= got[k]
      BY <1>0 DEF RecvLedger
    <3>2. granted[k] \in Nat /\ taken[k] \in Nat /\ got[k] \in Nat
      BY <1>0, Numbers
    <3>3. CASE k = e
      BY <1>2, <1>3, <3>1, <3>2, <3>3
    <3>4. CASE k # e
      BY <1>3, <3>1, <3>4
    <3>. QED
      BY <3>3, <3>4
  <2>. QED
    BY <1>1, <2>1 DEF RecvLedger, window
<1>9. TypeOK'
  BY <1>0, <1>1, <1>3, <1>4, <1>5 DEF TypeOK, window, ready, rxvars, session
<1>. QED
  BY <1>5, <1>7, <1>8, <1>9 DEF IInv, FlowLedger

-----------------------------------------------------------------------------
(* The receive thread. *)

RxStates == {"idle", "chunk", "notify", "wnotify", "dead"}

\* A step of the receive thread that moves no payload and no credit.
LEMMA RxLedger ==
  ASSUME IInv, UNCHANGED <<window, buffer, frame_remain, local>>, ThinnerChan,
         \A e \in Ends : rx'[e] \in {"idle", "wnotify"} =>
                           rx[e] \in {"idle", "wnotify"} \/ frame_remain[e] = 0
  PROVE  FlowLedger'
<1>1. /\ TypeOK /\ ThreadShape /\ SendLedger /\ RecvLedger /\ DataOrder
      /\ CreditOrder
  BY DEF IInv, FlowLedger
<1>2. SameWriters /\ SameAnnouncers
  BY DEF SameWriters, SameAnnouncers, local
<1>3. ThreadShape'
  BY <1>1 DEF ThreadShape, HasStream, local
<1>. QED
  BY <1>1, <1>2, <1>3, SendFrame, RecvFrame, DataFrame, CreditFrame
     DEF FlowLedger, window, buffer, RecvVars, ThinnerChan

\* The part of the type invariant that such a step leaves alone.
LEMMA RxType ==
  ASSUME TypeOK, UNCHANGED <<window, buffer, frame_remain, local>>,
         chan' \in [Ends -> Seq(Frame)], state' \in [Ends -> States],
         readable' \in [Ends -> BOOLEAN], writeable' \in [Ends -> BOOLEAN],
         local_go_away' \in [Ends -> BOOLEAN], remote_go_away' \in [Ends -> BOOLEAN],
         backlog' \in [Ends -> BOOLEAN], fin' \in [Ends -> Nat],
         rx' \in [Ends -> RxStates]
  PROVE  TypeOK'
BY DEF TypeOK, window, buffer, local, RxStates

\* Flags move a stream from one of its states to another.
LEMMA IncomingType ==
  ASSUME TypeOK, NEW e \in Ends, NEW f, Incoming(e, f)
  PROVE  /\ state' \in [Ends -> States] /\ backlog' \in [Ends -> BOOLEAN]
         /\ readable' \in [Ends -> BOOLEAN] /\ writeable' \in [Ends -> BOOLEAN]
<1>1. FoundState(e, f) \in States
  BY DEF TypeOK, FoundState, States
<1>2. \A flags : \A st \in States : FlagsState(st, flags) \in States
  BY DEF FlagsState, AckState, States
<1>3. state' \in [Ends -> States]
  BY <1>1, <1>2 DEF TypeOK, Incoming
<1>4. backlog' \in [Ends -> BOOLEAN]
  BY DEF TypeOK, Incoming
<1>5. readable' \in [Ends -> BOOLEAN] /\ writeable' \in [Ends -> BOOLEAN]
  <2>1. PICK w \in BOOLEAN, r \in BOOLEAN :
          /\ writeable' = [writeable EXCEPT ![e] = @ \/ (w /\ Wakes(f.flags))]
          /\ readable' = [readable EXCEPT ![e] = @ \/ (r /\ Wakes(f.flags))]
    BY DEF Incoming, stream_notify_waiting
  <2>. QED
    BY <2>1 DEF TypeOK, Wakes
<1>. QED
  BY <1>3, <1>4, <1>5

\* Every step of the receive thread that moves no payload and no credit.
LEMMA RxNeutralInv ==
  ASSUME IInv, NEW e \in Ends,
         \/ RxRefuse(e) \/ RxMissing(e) \/ RxProtocolError(e) \/ RxWindowExceeded(e)
         \/ RxGoAway(e) \/ RxFail(e) \/ RxIncomingFail(e) \/ RxNotify(e)
         \/ RxWriteableNotify(e) \/ RxRefuseFail(e)
  PROVE  IInv'
<1>0. TypeOK /\ DataOrder
  BY DEF IInv, FlowLedger
<1>1. /\ UNCHANGED <<window, buffer, frame_remain, local>> /\ UNCHANGED fin
  BY DEF RxRefuse, RxMissing, RxProtocolError, RxWindowExceeded, RxGoAway, RxFail,
         RxIncomingFail, RxRefuseFail, RxNotify, RxWriteableNotify, rxvars, session
<1>2. /\ rx' \in [Ends -> RxStates]
      /\ \A k \in Ends : rx'[k] \in {"idle", "wnotify"} =>
                        rx[k] \in {"idle", "wnotify"} \/ frame_remain[k] = 0
  <2>1. rx \in [Ends -> RxStates]
    BY <1>0 DEF TypeOK, RxStates
  <2>2. CASE UNCHANGED rx
    BY <2>1, <2>2
  <2>3. ASSUME NEW l \in RxStates, rx' = [rx EXCEPT ![e] = l],
               l \in {"idle", "wnotify"} => rx[e] \in {"idle", "wnotify"}
                                              \/ frame_remain[e] = 0
        PROVE  /\ rx' \in [Ends -> RxStates]
               /\ \A k \in Ends : rx'[k] \in {"idle", "wnotify"} =>
                    rx[k] \in {"idle", "wnotify"} \/ frame_remain[k] = 0
    BY <2>1, <2>3
  <2>. QED
    BY <2>2, <2>3 DEF RxRefuse, RxMissing, RxProtocolError, RxWindowExceeded, RxGoAway,
       RxFail, RxIncomingFail, RxRefuseFail, RxNotify, RxWriteableNotify, rxvars,
       RxStates, StreamFrame, Arrived
<1>3. ThinnerChan /\ chan' \in [Ends -> Seq(Frame)]
  <2>1. CASE UNCHANGED chan
    BY <1>0, <2>1, SameChan DEF TypeOK
  <2>2. CASE chan[e] # << >> /\ Discard(e)
    BY <1>0, <2>2, DiscardNeutral
  <2>3. ASSUME NEW f, Neutral(f), chan[e] # << >>, Reply(e, f)
        PROVE  ThinnerChan /\ chan' \in [Ends -> Seq(Frame)]
    BY <1>0, <2>3, ReplyNeutral
  <2>5. {"RST"} \in SUBSET Flags
    BY DEF Flags
  <2>6. CASE RxRefuse(e)
    BY <2>3, <2>5, <2>6, GoAwayNeutral DEF RxRefuse, StreamFrame, Arrived
  <2>7. CASE RxMissing(e) \/ RxGoAway(e) \/ RxRefuseFail(e)
    BY <2>2, <2>7 DEF RxMissing, RxGoAway, RxRefuseFail, StreamFrame, Arrived
  <2>8. CASE RxProtocolError(e) \/ RxWindowExceeded(e) \/ RxIncomingFail(e)
    BY <1>0, <2>8, GoAwaySteps
       DEF RxProtocolError, RxWindowExceeded, RxIncomingFail, StreamFrame, Arrived
  <2>9. CASE RxFail(e)
    BY <1>0, <2>9, GoAwaySteps DEF RxFail
  <2>10. CASE RxNotify(e) \/ RxWriteableNotify(e)
    BY <2>1, <2>10 DEF RxNotify, RxWriteableNotify
  <2>. QED
    BY <2>6, <2>7, <2>8, <2>9, <2>10
<1>4. FlowLedger'
  BY <1>1, <1>2, <1>3, RxLedger
<1>5. /\ state' \in [Ends -> States] /\ backlog' \in [Ends -> BOOLEAN]
      /\ readable' \in [Ends -> BOOLEAN] /\ writeable' \in [Ends -> BOOLEAN]
  <2>1. CASE RxWindowExceeded(e)
    BY <1>0, <2>1, IncomingType DEF RxWindowExceeded
  <2>2. CASE RxNotify(e) \/ RxWriteableNotify(e)
    BY <1>0, <2>2 DEF TypeOK, RxNotify, RxWriteableNotify, stream_readable_notify,
       session
  <2>3. CASE UNCHANGED <<state, backlog, ready>>
    BY <1>0, <2>3 DEF TypeOK, ready
  <2>. QED
    BY <2>1, <2>2, <2>3 DEF RxRefuse, RxMissing, RxProtocolError, RxGoAway, RxFail,
       RxIncomingFail, RxRefuseFail, session
<1>6. /\ local_go_away' \in [Ends -> BOOLEAN] /\ remote_go_away' \in [Ends -> BOOLEAN]
      /\ fin' \in [Ends -> Nat]
  <2>1. /\ local_go_away \in [Ends -> BOOLEAN] /\ remote_go_away \in [Ends -> BOOLEAN]
        /\ fin \in [Ends -> Nat]
    BY <1>0 DEF TypeOK
  <2>2. \/ local_go_away' = local_go_away
        \/ local_go_away' = [local_go_away EXCEPT ![e] = TRUE]
    BY DEF GoAway, GoAwayReply, RxRefuse, RxMissing, RxProtocolError, RxWindowExceeded,
       RxGoAway, RxFail,
           RxIncomingFail, RxRefuseFail, RxNotify, RxWriteableNotify, session
  <2>3. \/ remote_go_away' = remote_go_away
        \/ remote_go_away' = [remote_go_away EXCEPT ![e] = TRUE]
    BY DEF RxRefuse, RxMissing, RxProtocolError, RxWindowExceeded, RxGoAway, RxFail,
           RxIncomingFail, RxRefuseFail, RxNotify, RxWriteableNotify, session
  <2>. QED
    BY <1>1, <2>1, <2>2, <2>3
<1>7. TypeOK'
  BY <1>0, <1>1, <1>2, <1>3, <1>5, <1>6, RxType
<1>. QED
  BY <1>4, <1>7 DEF IInv

\* session_go_away, and the closing of a foreign peer.
LEMMA SessionInv ==
  ASSUME IInv, NEW e \in Ends, SessionGoAway(e) \/ PeerClose(e)
  PROVE  IInv'
<1>0. TypeOK
  BY DEF IInv
<1>1. UNCHANGED <<window, buffer, ready, rxvars, remote_go_away, backlog, local>>
  BY DEF SessionGoAway, PeerClose
<1>2. ThinnerChan /\ chan' \in [Ends -> Seq(Frame)]
  <2>1. CASE SessionGoAway(e)
    BY <1>0, <2>1, GoAwaySteps DEF SessionGoAway
  <2>2. CASE PeerClose(e)
    <3>1. \A how : {IF how = "rst" THEN "RST" ELSE "FIN"} \in SUBSET Flags
      BY DEF Flags
    <3>2. PICK f : Neutral(f) /\ Queue(e, f)
      BY <2>2, <3>1, GoAwayNeutral DEF PeerClose
    <3>. QED
      BY <1>0, <3>2, QueueNeutral
  <2>. QED
    BY <2>1, <2>2
<1>3. FlowLedger'
  BY <1>1, <1>2, RxLedger DEF rxvars
<1>4. state' \in [Ends -> States]
  <2>1. state' = state \/ \E s \in States : state' = [state EXCEPT ![e] = s]
    BY DEF SessionGoAway, PeerClose, States
  <2>. QED
    BY <1>0, <2>1 DEF TypeOK
<1>5. fin' \in [Ends -> Nat]
  <2>1. fin \in [Ends -> Nat] /\ (fin' = fin \/ fin' = [fin EXCEPT ![e] = fin[e] + 1])
    BY <1>0 DEF TypeOK, SessionGoAway, PeerClose
  <2>. QED
    BY <2>1
<1>6. local_go_away' \in [Ends -> BOOLEAN]
  <2>1. CASE SessionGoAway(e)
    BY <1>0, <2>1, GoAwaySteps DEF SessionGoAway
  <2>. QED
    BY <1>0, <2>1 DEF TypeOK, PeerClose
<1>7. TypeOK'
  BY <1>0, <1>1, <1>2, <1>4, <1>5, <1>6, RxType DEF TypeOK, ready, rxvars, RxStates
<1>. QED
  BY <1>3, <1>7 DEF IInv

\* A chunk of payload never exceeds the receive window: this is where the
\* ledger of the sender pays for the unchecked subtraction (mux.c:821).
LEMMA RxChunkInv ==
  ASSUME IInv, NEW e \in Ends, RxChunk(e)
  PROVE  IInv'
<1> DEFINE d == Other(e)
<1>0. TypeOK /\ ThreadShape /\ SendLedger /\ RecvLedger /\ DataOrder /\ CreditOrder
  BY DEF IInv, FlowLedger
<1>1. d \in Ends /\ Other(d) = e /\ d # e /\ \A k \in Ends : k = e \/ k = d
  BY EndFacts
<1>2. PICK r \in 1 .. ChunkSize(e) :
        /\ got' = [got EXCEPT ![e] = got[e] + r]
        /\ recv_window' = [recv_window EXCEPT ![e] = Sub32(recv_window[e], r)]
        /\ frame_remain' = [frame_remain EXCEPT ![e] = frame_remain[e] - r]
  BY DEF RxChunk
<1>3. /\ rx[e] = "chunk" /\ rx' = [rx EXCEPT ![e] = "notify"]
      /\ UNCHANGED <<state, send_window, granted, applied, taken, out, ready, chan,
                     session, local>>
  BY DEF RxChunk
<1>4. /\ got[e] \in Nat /\ recv_window[e] \in Nat /\ frame_remain[e] \in Nat
      /\ recv_window[e] < Word /\ granted[e] \in Nat /\ taken[e] \in Nat
      /\ out[d] \in Nat /\ applied[d] \in Nat
  BY <1>0, <1>1, Numbers
<1>5. r \in Nat /\ r <= frame_remain[e]
  BY <1>2, <1>4, NumberFacts DEF ChunkSize, MIN
<1>6. r <= recv_window[e]
  <2>1. got[e] + frame_remain[e] <= out[d]
    BY <1>0 DEF DataOrder
  <2>2. out[d] <= MAX_STREAM_WINDOW_SIZE + applied[d] /\ applied[d] <= granted[e]
    BY <1>1, Books
  <2>3. recv_window[e] = MAX_STREAM_WINDOW_SIZE + granted[e] - got[e]
    BY <1>0 DEF RecvLedger
  <2>. QED
    BY <1>4, <1>5, <2>1, <2>2, <2>3, NumberFacts
<1>7. Sub32(recv_window[e], r) = recv_window[e] - r
  BY <1>4, <1>5, <1>6 DEF Sub32
<1>8. /\ got'[e] = got[e] + r /\ got'[d] = got[d]
      /\ recv_window'[e] = recv_window[e] - r /\ recv_window'[d] = recv_window[d]
      /\ frame_remain'[e] = frame_remain[e] - r
      /\ frame_remain'[d] = frame_remain[d]
      /\ rx'[e] = "notify" /\ rx'[d] = rx[d]
  <2>1. /\ got \in [Ends -> Nat] /\ recv_window \in [Ends -> 0 .. Word - 1]
        /\ frame_remain \in [Ends -> Nat] /\ rx \in [Ends -> RxStates]
    BY <1>0 DEF TypeOK, RxStates
  <2>. QED
    BY <1>1, <1>2, <1>3, <1>7, <2>1
<1>9. SendLedger' /\ CreditOrder' /\ ThreadShape'
  <2>1. SameWriters /\ SameAnnouncers /\ ThinnerChan
    BY <1>3, SameChan DEF SameWriters, SameAnnouncers, local
  <2>2. ThreadShape'
    BY <1>0, <1>3 DEF ThreadShape, HasStream, local
  <2>. QED
    BY <1>0, <1>3, <2>1, <2>2, SendFrame, CreditFrame DEF ThinnerChan
<1>10. RecvLedger'
  <2>1. ASSUME NEW k \in Ends
        PROVE  /\ recv_window'[k] = MAX_STREAM_WINDOW_SIZE + granted[k] - got'[k]
               /\ granted[k] <= taken[k] /\ taken[k] <= got'[k]
    <3>1. /\ recv_window[k] = MAX_STREAM_WINDOW_SIZE + granted[k] - got[k]
          /\ granted[k] <= taken[k] /\ taken[k] <= got[k]
      BY <1>0 DEF RecvLedger
    <3>2. CASE k = e
      BY <1>4, <1>5, <1>8, <3>1, <3>2, NumberFacts
    <3>3. CASE k = d
      BY <1>8, <3>1, <3>3
    <3>. QED
      BY <1>1, <3>2, <3>3
  <2>. QED
    BY <1>3, <2>1 DEF RecvLedger
<1>11. DataOrder'
  <2>1. \A k \in Ends : got'[k] + frame_remain'[k] = got[k] + frame_remain[k]
    BY <1>1, <1>4, <1>5, <1>8
  <2>2. \A k \in Ends : rx'[k] \in {"idle", "wnotify"} => frame_remain'[k] = 0
    BY <1>0, <1>1, <1>8 DEF DataOrder
  <2>. QED
    BY <1>0, <1>3, <2>1, <2>2 DEF DataOrder, Runs, WellFormed
<1>12. TypeOK'
  <2>1. /\ got \in [Ends -> Nat] /\ recv_window \in [Ends -> 0 .. Word - 1]
        /\ frame_remain \in [Ends -> Nat] /\ rx \in [Ends -> RxStates]
    BY <1>0 DEF TypeOK, RxStates
  <2>2. /\ got[e] + r \in Nat /\ recv_window[e] - r \in 0 .. Word - 1
        /\ frame_remain[e] - r \in Nat
    BY <1>4, <1>5, <1>6, NumberFacts
  <2>3. /\ got' \in [Ends -> Nat] /\ recv_window' \in [Ends -> 0 .. Word - 1]
        /\ frame_remain' \in [Ends -> Nat] /\ rx' \in [Ends -> RxStates]
    BY <1>2, <1>3, <1>7, <2>1, <2>2 DEF RxStates
  <2>. QED
    BY <1>0, <1>3, <2>3 DEF TypeOK, RxStates, ready, session, local
<1>. QED
  BY <1>9, <1>10, <1>11, <1>12 DEF IInv, FlowLedger

\* session_handle_data takes up a frame that continues what was received.
LEMMA RxDataInv ==
  ASSUME IInv, NEW e \in Ends, RxData(e)
  PROVE  IInv'
<1> DEFINE d == Other(e)
           f == Head(chan[e])
           len == hdr_length(f)
<1>0. TypeOK /\ ThreadShape /\ SendLedger /\ RecvLedger /\ DataOrder /\ CreditOrder
  BY DEF IInv, FlowLedger
<1>1. /\ rx[e] = "idle" /\ chan[e] # << >> /\ f.type = "DATA"
      /\ Incoming(e, f)
      /\ frame_remain' = [frame_remain EXCEPT ![e] = len]
      /\ rx' = [rx EXCEPT ![e] = IF len = 0 THEN "idle" ELSE "chunk"]
      /\ Discard(e)
      /\ UNCHANGED <<window, buffer, local_go_away, remote_go_away, fin, local>>
  BY DEF RxData, Arrived
<1>2. ThinnerChan /\ chan' \in [Ends -> Seq(Frame)]
  BY <1>0, <1>1, DiscardNeutral
<1>3. SendLedger' /\ RecvLedger' /\ CreditOrder' /\ ThreadShape'
  <2>1. SameWriters /\ SameAnnouncers
    BY <1>1 DEF SameWriters, SameAnnouncers, local
  <2>2. ThreadShape'
    BY <1>0, <1>1 DEF ThreadShape, HasStream, local
  <2>. QED
    BY <1>0, <1>1, <1>2, <2>1, <2>2, SendFrame, RecvFrame, CreditFrame
       DEF ThinnerChan, window, buffer, RecvVars
<1>4. /\ chan[e] \in Seq(Frame) /\ got[e] \in Nat /\ out[d] \in Nat /\ d \in Ends
      /\ f \in Frame /\ f.lo \in Nat /\ f.hi \in Nat /\ Tail(chan[e]) \in Seq(Frame)
  <2>1. chan[e] \in Seq(Frame) /\ got[e] \in Nat /\ out[d] \in Nat /\ d \in Ends
    BY <1>0, Numbers, EndFacts
  <2>2. f \in Frame /\ Tail(chan[e]) \in Seq(Frame)
    BY <1>1, <2>1, TailFacts
  <2>. QED
    BY <2>1, <2>2, FrameFacts
<1>5. /\ frame_remain[e] = 0 /\ got[e] <= out[d] /\ WellFormed(chan[e])
      /\ Runs(chan[e], "DATA", got[e], out[d])
  BY <1>0, <1>1, <1>4 DEF DataOrder
<1>6. f.lo <= f.hi /\ WellFormed(Tail(chan[e]))
  BY <1>1, <1>4, <1>5, WellFormedSteps
<1>7. len = f.hi - f.lo /\ len \in Nat
  BY <1>4, <1>6 DEF hdr_length
<1>8. got[e] + len <= out[d] /\ Runs(Tail(chan[e]), "DATA", got[e] + len, out[d])
  <2> DEFINE q == Tail(chan[e])
  <2>1. CASE f.lo < f.hi
    <3>1. got[e] <= f.lo /\ f.hi <= out[d] /\ Runs(q, "DATA", f.hi, out[d])
      BY <1>1, <1>4, <1>5, <2>1, RunsTail, SMTT(20)
    <3>2. got[e] + len <= f.hi /\ got[e] + len \in Int /\ out[d] \in Int
          /\ f.hi \in Int /\ q \in Seq(Frame) /\ out[d] <= out[d]
      BY <1>4, <1>7, <3>1, SMTT(20)
    <3> HIDE DEF q, len
    <3>3. Runs(q, "DATA", got[e] + len, out[d])
      BY <3>1, <3>2, RunsWiden
    <3>4. got[e] + len <= out[d]
      BY <3>1, <3>2
    <3>. QED
      BY <3>3, <3>4 DEF q
  <2>2. CASE ~(f.lo < f.hi)
    <3>1. len = 0 /\ got[e] + len = got[e]
      BY <1>4, <1>6, <1>7, <2>2
    <3>2. Runs(q, "DATA", got[e], out[d])
      BY <1>1, <1>4, <1>5, RunsTail
    <3>. QED
      BY <1>5, <3>1, <3>2
  <2>. QED
    BY <2>1, <2>2
<1> HIDE DEF len, f
<1>9. /\ frame_remain' \in [Ends -> Nat] /\ frame_remain'[e] = len
      /\ rx' \in [Ends -> RxStates]
      /\ \A k \in Ends : k # e => frame_remain'[k] = frame_remain[k] /\ rx'[k] = rx[k]
      /\ rx'[e] \in {"idle", "wnotify"} => len = 0
  <2>1. frame_remain \in [Ends -> Nat] /\ rx \in [Ends -> RxStates]
    BY <1>0 DEF TypeOK, RxStates
  <2>. QED
    BY <1>1, <1>7, <2>1 DEF RxStates
<1>10. /\ chan'[e] = Tail(chan[e]) /\ \A k \in Ends : k # e => chan'[k] = chan[k]
  BY <1>0, <1>1 DEF TypeOK, Discard
<1>11. DataOrder'
  <2>1. ASSUME NEW k \in Ends
        PROVE  /\ got[k] + frame_remain'[k] <= out[Other(k)]
               /\ rx'[k] \in {"idle", "wnotify"} => frame_remain'[k] = 0
               /\ WellFormed(chan'[k])
               /\ Runs(chan'[k], "DATA", got[k] + frame_remain'[k], out[Other(k)])
    <3>1. CASE k = e
      BY <1>6, <1>8, <1>9, <1>10, <3>1
    <3>2. CASE k # e
      BY <1>0, <1>9, <1>10, <3>2 DEF DataOrder
    <3>. QED
      BY <3>1, <3>2
  <2>. QED
    BY <1>1, <2>1 DEF DataOrder, Runs, WellFormed, buffer
<1>12. TypeOK'
  <2>1. /\ state' \in [Ends -> States] /\ backlog' \in [Ends -> BOOLEAN]
        /\ readable' \in [Ends -> BOOLEAN] /\ writeable' \in [Ends -> BOOLEAN]
    BY <1>0, <1>1, IncomingType
  <2>. QED
    BY <1>0, <1>1, <1>2, <1>9, <2>1 DEF TypeOK, RxStates, window, buffer, local
<1>. QED
  BY <1>3, <1>11, <1>12 DEF IInv, FlowLedger

\* session_handle_window_update adds credit that was granted and not yet applied,
\* so the sum stays below 2^32.
LEMMA RxWindowUpdateInv ==
  ASSUME IInv, NEW e \in Ends, RxWindowUpdate(e)
  PROVE  IInv'
<1> DEFINE d == Other(e)
           f == Head(chan[e])
           len == hdr_length(f)
           q == Tail(chan[e])
<1>0. TypeOK /\ ThreadShape /\ SendLedger /\ RecvLedger /\ DataOrder /\ CreditOrder
  BY DEF IInv, FlowLedger
<1>1. /\ rx[e] = "idle" /\ chan[e] # << >> /\ f.type = "WINDOW_UPDATE"
      /\ Incoming(e, f)
      /\ send_window' = [send_window EXCEPT ![e] = Add32(send_window[e], len)]
      /\ applied' = [applied EXCEPT ![e] = applied[e] + len]
      /\ rx' = [rx EXCEPT ![e] = IF len = 0 THEN "idle" ELSE "wnotify"]
      /\ Discard(e)
      /\ UNCHANGED <<recv_window, granted, buffer, frame_remain, local_go_away,
                     remote_go_away, fin, local>>
  BY DEF RxWindowUpdate, Arrived
<1>2. ThinnerChan /\ chan' \in [Ends -> Seq(Frame)]
  BY <1>0, <1>1, DiscardNeutral
<1>3. /\ rx' \in [Ends -> RxStates]
      /\ \A k \in Ends : rx'[k] \in {"idle", "wnotify"} => rx[k] \in {"idle", "wnotify"}
  <2>1. rx \in [Ends -> RxStates]
    BY <1>0 DEF TypeOK, RxStates
  <2>. QED
    BY <1>1, <2>1 DEF RxStates
<1>4. RecvLedger' /\ DataOrder' /\ ThreadShape'
  <2>1. ThreadShape'
    BY <1>0, <1>1 DEF ThreadShape, HasStream, local
  <2>. QED
    BY <1>0, <1>1, <1>2, <1>3, <2>1, RecvFrame, DataFrame
       DEF ThinnerChan, buffer, RecvVars
<1>5. /\ chan[e] \in Seq(Frame) /\ d \in Ends /\ f \in Frame /\ f.lo \in Nat
      /\ f.hi \in Nat /\ q \in Seq(Frame)
      /\ applied[e] \in Nat /\ granted[d] \in Nat /\ send_window[e] \in Nat
      /\ out[e] \in Nat
  <2>1. /\ chan[e] \in Seq(Frame) /\ d \in Ends
        /\ applied[e] \in Nat /\ granted[d] \in Nat /\ send_window[e] \in Nat
        /\ out[e] \in Nat
    BY <1>0, Numbers, EndFacts
  <2>2. f \in Frame /\ q \in Seq(Frame)
    BY <1>1, <2>1, TailFacts
  <2>. QED
    BY <2>1, <2>2, FrameFacts
<1>6. f.lo <= f.hi
  BY <1>0, <1>1, <1>5, WellFormedSteps DEF DataOrder
<1>7. len = f.hi - f.lo /\ len \in Nat
  BY <1>5, <1>6 DEF hdr_length
\* Taking the frame leaves the runs that end at any hi above the new applied.
<1>8. ASSUME NEW hi \in Nat, applied[e] <= hi,
             Runs(chan[e], "WINDOW_UPDATE", applied[e], hi)
      PROVE  applied[e] + len <= hi /\ Runs(q, "WINDOW_UPDATE", applied[e] + len, hi)
  <2>1. CASE f.lo < f.hi
    <3>1. /\ applied[e] <= f.lo /\ f.hi <= hi
          /\ Runs(q, "WINDOW_UPDATE", f.hi, hi)
      BY <1>1, <1>5, <1>8, <2>1, RunsTail
    <3>2. /\ applied[e] + len <= f.hi /\ applied[e] + len \in Int /\ hi \in Int
          /\ f.hi \in Int /\ q \in Seq(Frame) /\ hi <= hi
      BY <1>5, <1>7, <1>8, <3>1
    <3> HIDE DEF q, len
    <3>3. Runs(q, "WINDOW_UPDATE", applied[e] + len, hi)
      BY <3>1, <3>2, RunsWiden
    <3>. QED
      BY <3>1, <3>2, <3>3
  <2>2. CASE ~(f.lo < f.hi)
    <3>1. len = 0 /\ applied[e] + len = applied[e]
      BY <1>5, <1>6, <1>7, <2>2
    <3>2. Runs(q, "WINDOW_UPDATE", applied[e], hi)
      BY <1>1, <1>5, <1>8, RunsTail
    <3>. QED
      BY <1>8, <3>1, <3>2
  <2>. QED
    BY <2>1, <2>2
<1>9. /\ applied[e] + len <= granted[d]
      /\ Runs(q, "WINDOW_UPDATE", applied[e] + len, granted[d])
  BY <1>0, <1>5, <1>8 DEF CreditOrder
<1>10. chan'[e] = q /\ \A k \in Ends : k # e => chan'[k] = chan[k]
  BY <1>0, <1>1 DEF TypeOK, Discard
<1> HIDE DEF len, q, f, d
<1>11. /\ len \in Nat /\ applied[e] \in Nat /\ granted[d] \in Nat
       /\ send_window[e] \in Nat /\ out[e] \in Nat
  BY <1>5, <1>7
<1>12. applied[e] + len <= granted[d]
  BY <1>9
<1>13. /\ Add32(send_window[e], len) = send_window[e] + len
       /\ send_window[e] + len \in 0 .. Word - 1
  <2>1. PICK n \in 0 .. MAX_STREAM_WINDOW_SIZE :
          send_window[e] = MAX_STREAM_WINDOW_SIZE + applied[e] - out[e] + n
    BY Books
  <2>2. granted[d] <= out[e]
    BY Books DEF d
  <2>3. send_window[e] + len <= 2 * MAX_STREAM_WINDOW_SIZE
    BY <1>11, <1>12, <2>1, <2>2, NumberFacts
  <2>. QED
    BY <1>11, <2>3, NumberFacts DEF Add32
<1>14. /\ send_window'[e] = send_window[e] + len /\ applied'[e] = applied[e] + len
       /\ send_window' \in [Ends -> 0 .. Word - 1] /\ applied' \in [Ends -> Nat]
       /\ \A k \in Ends : k # e => /\ send_window'[k] = send_window[k]
                                   /\ applied'[k] = applied[k]
  <2>1. send_window \in [Ends -> 0 .. Word - 1] /\ applied \in [Ends -> Nat]
    BY <1>0 DEF TypeOK
  <2>2. applied[e] + len \in Nat
    BY <1>11
  <2>. QED
    BY <1>1, <1>13, <2>1, <2>2
<1>15. SendLedger'
  <2>1. \A k, n : Unreduced(k, n)' => Unreduced(k, n)
    BY <1>1 DEF Unreduced, local
  <2>2. ASSUME NEW k \in Ends, NEW n \in 0 .. MAX_STREAM_WINDOW_SIZE, Unreduced(k, n)'
        PROVE  /\ send_window'[k] = MAX_STREAM_WINDOW_SIZE + applied'[k] - out[k] + n
               /\ n <= send_window'[k]
    <3>1. /\ send_window[k] = MAX_STREAM_WINDOW_SIZE + applied[k] - out[k] + n
          /\ n <= send_window[k]
      BY <1>0, <2>1, <2>2 DEF SendLedger
    <3>2. CASE k = e
      BY <1>14, <1>11, <3>1, <3>2, NumberFacts
    <3>3. CASE k # e
      BY <1>14, <3>1, <3>3
    <3>. QED
      BY <3>2, <3>3
  <2>3. ASSUME NEW u \in Writers, pc[u] \in {"send", "reduce"}
        PROVE  val[u] <= send_window'[Home[u]] /\ val[u] <= MAX_STREAM_WINDOW_SIZE
    <3>1. /\ val[u] <= send_window[Home[u]] /\ val[u] <= MAX_STREAM_WINDOW_SIZE
          /\ val[u] \in Nat /\ Home[u] \in Ends
      BY <1>0, <2>3, Locals, ThreadFacts DEF SendLedger
    <3>2. CASE Home[u] = e
      BY <1>14, <1>11, <3>1, <3>2
    <3>3. CASE Home[u] # e
      BY <1>14, <3>1, <3>3
    <3>. QED
      BY <3>2, <3>3
  <2>. QED
    BY <1>1, <2>2, <2>3 DEF SendLedger, local, buffer
<1>16. CreditOrder'
  <2>1. ASSUME NEW k \in Ends
        PROVE  /\ applied'[k] <= granted[Other(k)]
               /\ Runs(chan'[k], "WINDOW_UPDATE", applied'[k], granted[Other(k)])
    <3>1. CASE k = e
      BY <1>9, <1>10, <1>14, <3>1 DEF d
    <3>2. CASE k # e
      BY <1>0, <1>10, <1>14, <3>2 DEF CreditOrder
    <3>. QED
      BY <3>1, <3>2
  <2>2. ASSUME NEW k \in Ends, NEW u \in Updaters, Home[u] = Other(k),
               pc[u] = "announce"
        PROVE  /\ hdr[u].type = "WINDOW_UPDATE" /\ hdr[u].lo <= hdr[u].hi
               /\ applied'[k] <= hdr[u].lo /\ hdr[u].hi <= granted[Other(k)]
               /\ Runs(chan'[k], "WINDOW_UPDATE", applied'[k], hdr[u].lo)
    <3>1. /\ hdr[u].type = "WINDOW_UPDATE" /\ hdr[u].lo <= hdr[u].hi
          /\ applied[k] <= hdr[u].lo /\ hdr[u].hi <= granted[Other(k)]
          /\ Runs(chan[k], "WINDOW_UPDATE", applied[k], hdr[u].lo)
      BY <1>0, <2>2 DEF CreditOrder
    <3>2. hdr[u].lo \in Nat
      BY <1>0, Locals, FrameFacts
    <3>3. CASE k = e
      BY <1>8, <1>10, <1>14, <3>1, <3>2, <3>3
    <3>4. CASE k # e
      BY <1>10, <1>14, <3>1, <3>4
    <3>. QED
      BY <3>3, <3>4
  <2>. QED
    BY <1>1, <2>1, <2>2 DEF CreditOrder, Runs, local
<1>17. TypeOK'
  <2>1. /\ state' \in [Ends -> States] /\ backlog' \in [Ends -> BOOLEAN]
        /\ readable' \in [Ends -> BOOLEAN] /\ writeable' \in [Ends -> BOOLEAN]
    BY <1>0, <1>1, IncomingType
  <2>. QED
    BY <1>0, <1>1, <1>2, <1>3, <1>14, <2>1 DEF TypeOK, RxStates, buffer, local
<1>. QED
  BY <1>4, <1>15, <1>16, <1>17 DEF IInv, FlowLedger

-----------------------------------------------------------------------------
(* The theorems. *)

\* Both ends start with full windows and empty books.
LEMMA InitInv ==
  ASSUME Init
  PROVE  IInv
<1>1. TypeOK
  <2>1. NoFrame \in Frame
    BY DEF NoFrame, hdr_encode, Frame, Types
  <2>2. \A e \in Ends : << >> \in Seq(Frame)
    OBVIOUS
  <2>3. MAX_STREAM_WINDOW_SIZE \in 0 .. Word - 1
    BY NumberFacts
  <2>. QED
    BY <2>1, <2>2, <2>3 DEF Init, TypeOK, States, PCs
<1>2. ThreadShape
  BY ThreadFacts DEF Init, ThreadShape
<1>3. \A t \in Threads : pc[t] = "idle"
  BY DEF Init
<1>4. SendLedger
  <2>1. \A e, n : Unreduced(e, n) => n = 0
    BY <1>3, ThreadFacts DEF Unreduced
  <2>2. \A t \in Writers : pc[t] \notin {"send", "reduce"}
    BY <1>3, ThreadFacts
  <2>3. \A e \in Ends : send_window[e] = MAX_STREAM_WINDOW_SIZE /\ applied[e] = 0
                          /\ out[e] = 0
    BY DEF Init
  <2>. QED
    BY <2>1, <2>2, <2>3, NumberFacts DEF SendLedger
<1>5. RecvLedger
  BY NumberFacts DEF Init, RecvLedger
<1>6. DataOrder /\ CreditOrder
  <2>1. \A e \in Ends : /\ chan[e] = << >> /\ got[e] = 0 /\ out[e] = 0
                        /\ frame_remain[e] = 0 /\ applied[e] = 0 /\ granted[e] = 0
    BY DEF Init
  <2>2. \A type, a, b : Runs(<< >>, type, a, b) /\ WellFormed(<< >>)
    BY DEF Runs, WellFormed
  <2>3. \A t \in Updaters : pc[t] # "announce"
    BY <1>3, ThreadFacts
  <2>4. 0 + 0 = 0 /\ 0 <= 0
    OBVIOUS
  <2>. QED
    BY <2>1, <2>2, <2>3, <2>4, EndFacts DEF DataOrder, CreditOrder
<1>. QED
  BY <1>1, <1>2, <1>4, <1>5, <1>6 DEF IInv, FlowLedger

\* A stuttering step changes no book.
LEMMA StutterInv ==
  ASSUME IInv, UNCHANGED vars
  PROVE  IInv'
<1>1. TypeOK'
  BY DEF IInv, TypeOK, vars, window, buffer, ready, rxvars, session, local
<1>2. FlowLedger'
  BY SameChan, RxLedger DEF vars, rxvars
<1>. QED
  BY <1>1, <1>2 DEF IInv

\* Every step preserves the invariant: one case per action.
LEMMA NextInv ==
  ASSUME OneUserPerEnd, IInv, Next
  PROVE  IInv'
<1>1. CASE BootStep \/ OpenNewFail \/ AcceptFail
  BY <1>1, OpenInv, AcceptFailInv DEF BootStep
<1>2. ASSUME NEW t \in Threads, WriteCall(t) \/ ThreadStep(t) \/ ThreadFail(t)
      PROVE  IInv'
  <2>1. CASE \/ WriteCall(t) \/ WriteCheck(t) \/ WriteSelect(t) \/ WriteFill(t)
             \/ WriteFail(t) \/ WriteFillFail(t)
    <3>1. t \in Writers
      BY <2>1 DEF WriteCall, WriteCheck, WriteSelect, WriteFill, WriteFail,
         WriteFillFail
    <3>. QED
      BY <2>1, <3>1, WriteControlInv
  <2>2. CASE WriteWindow(t) \/ WriteSend(t) \/ WriteReduce(t)
    <3>1. t \in Writers
      BY <2>2 DEF WriteWindow, WriteSend, WriteReduce
    <3>. QED
      BY <2>2, <3>1, WriteWindowInv, WriteSendInv, WriteReduceInv
  <2>3. CASE \/ ReadCall(t) \/ ReadCheck(t) \/ ReadPending(t) \/ ReadSelect(t)
             \/ ReadClear(t) \/ ReadClearFail(t)
    <3>1. t \in Readers
      BY <2>3 DEF ReadCall, ReadCheck, ReadPending, ReadSelect, ReadClear, ReadClearFail
    <3>. QED
      BY <2>3, <3>1, ReadControlInv
  <2>4. CASE ReadTake(t)
    <3>1. t \in Readers
      BY <2>4 DEF ReadTake
    <3>. QED
      BY <2>4, <3>1, ReadTakeInv
  <2>5. CASE WindowUpdate(t) \/ Announce(t) \/ AnnounceFail(t)
    <3>1. t \in Updaters
      BY <2>5 DEF WindowUpdate, Announce, AnnounceFail
    <3>. QED
      BY <2>5, <3>1, WindowUpdateInv, AnnounceInv, AnnounceFailInv
  <2>6. CASE SelectFail(t)
    BY <2>6, WriteControlInv, ReadControlInv DEF SelectFail
  <2>. QED
    BY <1>2, <2>1, <2>2, <2>3, <2>4, <2>5, <2>6 DEF ThreadStep, ThreadFail
<1>3. ASSUME NEW e \in Ends, RxStep(e) \/ RxFailStep(e)
      PROVE  IInv'
  BY <1>3, RxNeutralInv, RxChunkInv, RxDataInv, RxWindowUpdateInv
     DEF RxStep, RxFailStep
<1>4. ASSUME NEW e \in Ends, SessionGoAway(e) \/ PeerClose(e)
      PROVE  IInv'
  BY <1>4, SessionInv
<1>. QED
  BY <1>1, <1>2, <1>3, <1>4 DEF Next

\* The books of the two ends agree at every step of every thread, whatever the
\* windows, the sizes of the calls, the number of bytes and the failures, as
\* long as each end has one thread in stream_write and one in stream_read.
THEOREM Invariance ==
  ASSUME OneUserPerEnd
  PROVE  Spec => []IInv
<1>1. Init => IInv
  BY InitInv
<1>2. IInv /\ [Next]_vars => IInv'
  BY NextInv, StutterInv
<1>. QED
  BY <1>1, <1>2, PTL DEF Spec

\* The ledger that stream_write, stream_read and the receive threads keep.
THEOREM LedgerCorrect ==
  ASSUME OneUserPerEnd
  PROVE  Spec => []FlowLedger
<1>1. IInv => FlowLedger
  BY DEF IInv
<1>. QED
  BY <1>1, Invariance, PTL

\* What is under way to an end fits its receive window, so that
\* session_handle_data never finds the window exceeded.
THEOREM InFlightCorrect ==
  ASSUME OneUserPerEnd
  PROVE  Spec => []InFlightFits
<1>1. IInv => InFlightFits
  <2> SUFFICES ASSUME IInv, NEW e \in Ends
               PROVE  out[e] - got[Other(e)] <= recv_window[Other(e)]
    BY DEF InFlightFits
  <2>1. /\ Other(e) \in Ends /\ TypeOK /\ RecvLedger
    BY EndFacts DEF IInv, FlowLedger
  <2>2. recv_window[Other(e)] = MAX_STREAM_WINDOW_SIZE + granted[Other(e)] - got[Other(e)]
    BY <2>1 DEF RecvLedger
  <2>3. /\ out[e] <= MAX_STREAM_WINDOW_SIZE + applied[e]
        /\ applied[e] <= granted[Other(e)]
    BY Books
  <2>4. /\ out[e] \in Nat /\ applied[e] \in Nat /\ granted[Other(e)] \in Nat
        /\ got[Other(e)] \in Nat
    BY <2>1, Numbers
  <2>. QED
    BY <2>2, <2>3, <2>4, NumberFacts
<1>. QED
  BY <1>1, Invariance, PTL
=============================================================================
