---------------------------- MODULE SessionProofs ---------------------------
(***************************************************************************)
(* Proofs about module Session, for every Word, Backlog, set of threads    *)
(* and number of calls.  Types hold unconditionally.  Everything about ids *)
(* rests on Custody (module Session): an id is in one place at a time.  It *)
(* is inductive while the server's next_id has not wrapped to 0, so these  *)
(* theorems assume []NoWrap; ClientOpens gives a case where the assumption *)
(* is a theorem, and ClientIdsOnlyAscend needs none.                       *)
(*                                                                         *)
(* A step is about one stream at most.  GiveUp covers the steps that move  *)
(* no stream on, Elsewhere says that a step about stream i keeps the       *)
(* others in custody, and a lemma per action shows At(i)', the custody of  *)
(* i itself, from Whereabouts: the state of i at the accepting end tells   *)
(* where i can be.                                                         *)
(***************************************************************************)
EXTENDS Session, SeqFacts, TLAPS

-----------------------------------------------------------------------------
(* The constants. *)

\* There are two ends, each the other of the other.
LEMMA EndFacts ==
  /\ \A e \in Ends : Other(e) \in Ends /\ Other(Other(e)) = e /\ Other(e) # e
  /\ \A e, d \in Ends : d = e \/ d = Other(e)
  /\ "c" \in Ends /\ "s" \in Ends
BY DEF Ends, Other

\* Every thread runs on one end and either opens or accepts.
LEMMA ThreadFacts ==
  /\ \A t \in Threads : Home[t] \in Ends
  /\ \A t \in Openers : t \in Threads /\ t \notin Acceptors /\ Home[t] \in Ends
  /\ \A t \in Acceptors : t \in Threads /\ t \notin Openers /\ Home[t] \in Ends
BY SessionAssumption DEF SessionAssumption, Threads

\* 2^32 is even, and larger than the ids the two ends start with.
LEMMA WordFacts == Word \in Nat /\ Word > 4 /\ Word % 2 = 0
BY SessionAssumption DEF SessionAssumption

\* Adding 2 keeps an id with its end.
LEMMA OpenerFacts ==
  /\ \A i \in Ids : Opener(i) \in Ends
  /\ \A i \in Ids : i + 2 \in Ids => Opener(i + 2) = Opener(i)
  /\ Opener(1) = "c" /\ Opener(2) = "s" /\ Opener(0) = "s"
<1>1. \A i \in Nat : (i + 2) % 2 = i % 2
  OBVIOUS
<1>. QED
  BY <1>1, WordFacts DEF Opener, Ids, Ends

\* Ids below the limit are followed by an id of the same end, or by 0.
LEMMA NextIdFacts ==
  ASSUME NEW i \in Ids, ~Exhausted(i)
  PROVE  /\ NextId(i) \in Ids
         /\ NextId(i) # 0 => NextId(i) = i + 2 /\ Opener(NextId(i)) = Opener(i)
         /\ Opener(i) = "c" => NextId(i) # 0
<1>1. i \in Nat /\ i < Word - 1 /\ Word \in Nat /\ Word > 4 /\ Word % 2 = 0
  BY WordFacts DEF Exhausted, Ids
<1>2. CASE i + 2 < Word
  <2>1. (i + 2) % Word = i + 2
    BY <1>1, <1>2
  <2>2. i + 2 \in Ids
    BY <1>1, <1>2 DEF Ids
  <2>. QED
    BY <1>1, <2>1, <2>2, OpenerFacts DEF NextId
<1>3. CASE i + 2 = Word
  <2>1. (i + 2) % Word = 0
    BY <1>1, <1>3
  <2>2. i % 2 = 0
    BY <1>1, <1>3
  <2>. QED
    BY <1>1, <2>1, <2>2 DEF NextId, Opener, Ids
<1>. QED
  BY <1>1, <1>2, <1>3

-----------------------------------------------------------------------------
(* Sequences as sets. *)

\* Append adds an element, Tail takes away at most the head.
LEMMA RangeFacts ==
  ASSUME NEW S, NEW q \in Seq(S)
  PROVE  /\ Range(q) \subseteq S
         /\ \A x \in S : Range(Append(q, x)) = Range(q) \cup {x}
         /\ q # << >> => Head(q) \in Range(q) /\ Range(Tail(q)) \subseteq Range(q)
<1>1. DOMAIN q = 1 .. Len(q)
  OBVIOUS
<1>2. Range(q) \subseteq S
  BY <1>1 DEF Range
<1>3. ASSUME NEW x \in S PROVE Range(Append(q, x)) = Range(q) \cup {x}
  <2> DEFINE r == Append(q, x)
  <2>1. /\ DOMAIN r = 1 .. Len(q) + 1 /\ Len(q) \in Nat /\ r[Len(q) + 1] = x
        /\ \A i \in 1 .. Len(q) : r[i] = q[i]
    BY AppendFacts
  <2> HIDE DEF r
  <2>2. \A i \in 1 .. Len(q) + 1 : i \in 1 .. Len(q) \/ i = Len(q) + 1
    BY <2>1
  <2>3. Len(q) + 1 \in 1 .. Len(q) + 1 /\ 1 .. Len(q) \subseteq 1 .. Len(q) + 1
    BY <2>1
  <2>4. Range(r) = Range(q) \cup {x}
    BY <1>1, <2>1, <2>2, <2>3 DEF Range
  <2>. QED
    BY <2>4 DEF r
<1>4. ASSUME q # << >>
      PROVE  Head(q) \in Range(q) /\ Range(Tail(q)) \subseteq Range(q)
  <2> DEFINE r == Tail(q)
  <2>1. /\ DOMAIN r = 1 .. Len(q) - 1 /\ Len(q) \in Nat \ {0} /\ Head(q) = q[1]
        /\ \A i \in 1 .. Len(q) - 1 : r[i] = q[i + 1]
    BY <1>4, TailFacts
  <2> HIDE DEF r
  <2>2. \A i \in 1 .. Len(q) - 1 : i + 1 \in 1 .. Len(q)
    BY <2>1
  <2>3. Range(r) \subseteq Range(q) /\ q[1] \in Range(q)
    BY <1>1, <2>1, <2>2 DEF Range
  <2>. QED
    BY <2>1, <2>3 DEF r
<1>. QED
  BY <1>2, <1>3, <1>4

\* A queue keeps one frame per stream when a frame about another is added.
LEMMA OneAppend ==
  ASSUME NEW q \in Seq(Frame), NEW f \in Frame, OnePerStream(q),
         f.type \in Flagged => ~Carries(q, Flagged, f.id)
  PROVE  OnePerStream(Append(q, f))
<1> DEFINE r == Append(q, f)
<1>1. /\ Len(r) = Len(q) + 1 /\ Len(q) \in Nat /\ r[Len(q) + 1] = f
      /\ \A i \in 1 .. Len(q) : r[i] = q[i]
  BY AppendFacts
<1> HIDE DEF r
<1>2. \A i \in 1 .. Len(r) : i \in 1 .. Len(q) \/ i = Len(q) + 1
  BY <1>1
<1>3. \A i \in 1 .. Len(q) : q[i] \in Range(q)
  BY DEF Range
<1>4. OnePerStream(r)
  BY <1>1, <1>2, <1>3 DEF OnePerStream, Carries
<1>. QED
  BY <1>4 DEF r

\* It does when its head is taken, and then has no frame about the head's stream.
LEMMA OneTail ==
  ASSUME NEW q \in Seq(Frame), q # << >>, OnePerStream(q)
  PROVE  /\ OnePerStream(Tail(q))
         /\ Head(q).type \in Flagged => ~Carries(Tail(q), Flagged, Head(q).id)
<1> DEFINE r == Tail(q)
<1>1. /\ Len(r) = Len(q) - 1 /\ Len(q) \in Nat \ {0} /\ Head(q) = q[1]
      /\ \A i \in 1 .. Len(q) - 1 : r[i] = q[i + 1]
      /\ DOMAIN r = 1 .. Len(r)
  BY TailFacts
<1> HIDE DEF r
<1>2. \A i \in 1 .. Len(r) : r[i] = q[i + 1] /\ i + 1 \in 1 .. Len(q) /\ i + 1 # 1
  BY <1>1
<1>3. 1 \in 1 .. Len(q) /\ \A i, j \in 1 .. Len(r) : i # j => i + 1 # j + 1
  BY <1>1
<1>4. OnePerStream(r)
  BY <1>2, <1>3 DEF OnePerStream
<1>5. q[1].type \in Flagged => ~Carries(r, Flagged, q[1].id)
  BY <1>1, <1>2, <1>3 DEF OnePerStream, Carries, Range
<1>. QED
  BY <1>1, <1>4, <1>5 DEF r

\* The same for the ids in a socketpair.
LEMMA InjectiveSteps ==
  ASSUME NEW q \in Seq(Ids), IsInjective(q)
  PROVE  /\ \A i \in Ids \ Range(q) : IsInjective(Append(q, i))
         /\ q # << >> => IsInjective(Tail(q)) /\ Head(q) \notin Range(Tail(q))
<1>1. ASSUME NEW x \in Ids \ Range(q) PROVE IsInjective(Append(q, x))
  <2> DEFINE r == Append(q, x)
  <2>1. /\ DOMAIN r = 1 .. Len(q) + 1 /\ Len(q) \in Nat /\ r[Len(q) + 1] = x
        /\ \A i \in 1 .. Len(q) : r[i] = q[i]
        /\ DOMAIN q = 1 .. Len(q)
    BY AppendFacts
  <2> HIDE DEF r
  <2>2. \A i \in 1 .. Len(q) + 1 : i \in 1 .. Len(q) \/ i = Len(q) + 1
    BY <2>1
  <2>3. IsInjective(r)
    BY <1>1, <2>1, <2>2 DEF IsInjective, Range
  <2>. QED
    BY <2>3 DEF r
<1>2. ASSUME q # << >>
      PROVE  IsInjective(Tail(q)) /\ Head(q) \notin Range(Tail(q))
  <2> DEFINE r == Tail(q)
  <2>1. /\ DOMAIN r = 1 .. Len(q) - 1 /\ Len(q) \in Nat \ {0} /\ Head(q) = q[1]
        /\ \A i \in 1 .. Len(q) - 1 : r[i] = q[i + 1]
        /\ DOMAIN q = 1 .. Len(q)
    BY <1>2, TailFacts
  <2> HIDE DEF r
  <2>2. \A i \in 1 .. Len(q) - 1 : i + 1 \in 1 .. Len(q) /\ i + 1 # 1
    BY <2>1
  <2>3. 1 \in 1 .. Len(q) /\ \A i, j \in 1 .. Len(q) - 1 : i + 1 = j + 1 => i = j
    BY <2>1
  <2>4. IsInjective(r)
    <3>1. ASSUME NEW i \in 1 .. Len(q) - 1, NEW j \in 1 .. Len(q) - 1, r[i] = r[j] PROVE i = j
      <4>1. q[i + 1] = q[j + 1] /\ i + 1 \in DOMAIN q /\ j + 1 \in DOMAIN q
        BY <2>1, <2>2, <3>1
      <4>2. i + 1 = j + 1
        BY <4>1 DEF IsInjective
      <4>. QED
        BY <2>3, <4>2
    <3>. QED
      BY <2>1, <3>1 DEF IsInjective
  <2>5. q[1] \notin Range(r)
    BY <2>1, <2>2, <2>3 DEF IsInjective, Range
  <2>. QED
    BY <2>1, <2>4, <2>5 DEF r
<1>. QED
  BY <1>1, <1>2

-----------------------------------------------------------------------------
(* What the operations on the variables do. *)

\* The inductive invariant.
IInv == TypeOK /\ Custody

\* The frames on the way have types and ids.
LEMMA ChanFacts ==
  ASSUME TypeOK, NEW e \in Ends
  PROVE  /\ chan[e] \in Seq(Frame) /\ Range(chan[e]) \subseteq Frame
         /\ \A f \in Range(chan[e]) : f \in Frame /\ f.id \in Ids
         /\ chan[e] # << >> => /\ Head(chan[e]) \in Range(chan[e])
                               /\ Head(chan[e]) \in Frame /\ Head(chan[e]).id \in Ids
<1>1. chan[e] \in Seq(Frame)
  BY DEF TypeOK
<1>2. /\ Range(chan[e]) \subseteq Frame
      /\ chan[e] # << >> => Head(chan[e]) \in Range(chan[e])
  BY <1>1, RangeFacts
<1>3. \A f \in Frame : f.id \in Ids
  BY DEF Frame
<1>. QED
  BY <1>1, <1>2, <1>3

\* SetState changes one stream at one end.
LEMMA StateStep ==
  ASSUME TypeOK, NEW e \in Ends, NEW i \in Ids, NEW st \in States,
         state' = [state EXCEPT ![e][i] = st]
  PROVE  /\ state' \in [Ends -> [Ids -> States]]
         /\ \A d \in Ends, j \in Ids :
              state'[d][j] = IF d = e /\ j = i THEN st ELSE state[d][j]
BY DEF TypeOK

\* session_send_buf_write adds a frame for the peer.
LEMMA QueueStep ==
  ASSUME TypeOK, NEW e \in Ends, NEW f \in Frame, Queue(e, f)
  PROVE  /\ chan' \in [Ends -> Seq(Frame)]
         /\ chan'[e] = chan[e]
         /\ chan'[Other(e)] = Append(chan[Other(e)], f)
         /\ Range(chan'[Other(e)]) = Range(chan[Other(e)]) \cup {f}
<1>1. Other(e) \in Ends /\ Other(e) # e /\ chan[Other(e)] \in Seq(Frame)
  BY EndFacts, ChanFacts
<1>2. /\ chan'[e] = chan[e] /\ chan'[Other(e)] = Append(chan[Other(e)], f)
      /\ chan' \in [Ends -> Seq(Frame)]
  BY <1>1 DEF Queue, TypeOK
<1>. QED
  BY <1>1, <1>2, RangeFacts

\* The receive thread takes a frame away.
LEMMA DiscardStep ==
  ASSUME TypeOK, NEW e \in Ends, chan[e] # << >>, Discard(e)
  PROVE  /\ chan' \in [Ends -> Seq(Frame)]
         /\ chan'[e] = Tail(chan[e]) /\ chan'[Other(e)] = chan[Other(e)]
         /\ Range(chan'[e]) \subseteq Range(chan[e])
<1>1. Other(e) \in Ends /\ Other(e) # e /\ chan[e] \in Seq(Frame)
  BY EndFacts, ChanFacts
<1>2. /\ chan'[e] = Tail(chan[e]) /\ chan'[Other(e)] = chan[Other(e)]
      /\ chan' \in [Ends -> Seq(Frame)]
  BY <1>1 DEF Discard, TypeOK
<1>. QED
  BY <1>1, <1>2, RangeFacts

\* It takes a frame away and answers with another.
LEMMA ReplyStep ==
  ASSUME TypeOK, NEW e \in Ends, chan[e] # << >>, NEW f \in Frame, Reply(e, f)
  PROVE  /\ chan' \in [Ends -> Seq(Frame)]
         /\ chan'[e] = Tail(chan[e])
         /\ chan'[Other(e)] = Append(chan[Other(e)], f)
         /\ Range(chan'[e]) \subseteq Range(chan[e])
         /\ Range(chan'[Other(e)]) = Range(chan[Other(e)]) \cup {f}
<1>1. /\ Other(e) \in Ends /\ Other(e) # e /\ chan[e] \in Seq(Frame)
      /\ chan[Other(e)] \in Seq(Frame)
  BY EndFacts, ChanFacts
<1>2. Tail(chan[e]) \in Seq(Frame) /\ Append(chan[Other(e)], f) \in Seq(Frame)
  BY <1>1
<1> DEFINE q == Tail(chan[e])
           r == Append(chan[Other(e)], f)
<1>3. chan' = [[chan EXCEPT ![e] = q] EXCEPT ![Other(e)] = r]
  BY <1>1 DEF Reply, TypeOK
<1> HIDE DEF q, r
<1>4. chan'[e] = q /\ chan'[Other(e)] = r
  BY <1>1, <1>3 DEF TypeOK
<1>5. chan' \in [Ends -> Seq(Frame)]
  BY <1>1, <1>2, <1>3 DEF TypeOK, q, r
<1>. QED
  BY <1>1, <1>4, <1>5, RangeFacts DEF q, r

\* Frames are made of a type and an id.
LEMMA FrameFacts ==
  ASSUME NEW type \in {"SYN", "ACK", "RST", "GO_AWAY", "GO_AWAY_ERR"}, NEW i \in Ids
  PROVE  /\ hdr_encode(type, i) \in Frame /\ hdr_encode(type, i).type = type
         /\ hdr_encode(type, i).id = i
BY DEF hdr_encode, Frame

-----------------------------------------------------------------------------
(* Types. *)

\* Two more than an id, in uint32_t, is an id.
LEMMA NextIdType == \A i \in Ids : NextId(i) \in Ids
<1> SUFFICES ASSUME NEW i \in Ids PROVE NextId(i) \in Ids
  OBVIOUS
<1>1. i \in Nat /\ i < Word /\ Word \in Nat /\ Word > 4
  BY WordFacts DEF Ids
<1>2. CASE i + 2 < Word
  BY <1>1, <1>2 DEF NextId, Ids
<1>3. CASE i + 2 = Word
  BY <1>1, <1>3 DEF NextId, Ids
<1>4. CASE i + 2 = Word + 1
  <2>1. (i + 2) % Word = 1
    BY <1>1, <1>4
  <2>. QED
    BY <1>1, <2>1 DEF NextId, Ids
<1>. QED
  BY <1>1, <1>2, <1>3, <1>4

\* The steps of session_open keep the types.
LEMMA OpenType ==
  ASSUME TypeOK, NEW t \in Threads,
         OpenCheck(t) \/ OpenStep(t) \/ OpenNewFail(t) \/ OpenQueueFail(t),
         failure' \in {"never", "may", "came"}
  PROVE  TypeOK'
<1>1. Home[t] \in Ends /\ id[t] \in Ids
  BY ThreadFacts DEF TypeOK
<1>2. CASE OpenCheck(t)
  BY <1>1, <1>2 DEF OpenCheck, TypeOK, receive, goaways, PCs
<1>3. CASE OpenLoad(t)
  <2>1. next_id[Home[t]] \in Ids
    BY <1>1 DEF TypeOK
  <2>2. UNCHANGED <<next_id, state, chan, backlog, rx, rxid, local_go_away, remote_go_away, calls>>
    BY <1>3 DEF OpenLoad, Goto, receive, goaways
  <2>3. pc' \in [Threads -> PCs] /\ id' \in [Threads -> Ids]
    BY <1>3, <2>1 DEF OpenLoad, Goto, TypeOK, PCs
  <2>. QED
    BY <2>2, <2>3 DEF TypeOK
<1>4. CASE OpenCas(t)
  <2>1. NextId(id[t]) \in Ids
    BY <1>1, NextIdType
  <2>2. UNCHANGED <<state, chan, backlog, rx, rxid, local_go_away, remote_go_away, id, calls>>
    BY <1>4 DEF OpenCas, Goto, receive, goaways
  <2>3. \/ UNCHANGED next_id
        \/ next_id' = [next_id EXCEPT ![Home[t]] = NextId(id[t])]
    BY <1>4 DEF OpenCas
  <2>4. next_id \in [Ends -> Ids]
    BY DEF TypeOK
  <2>5. next_id' \in [Ends -> Ids]
    BY <2>1, <2>3, <2>4
  <2>6. \E l \in PCs : pc' = [pc EXCEPT ![t] = l]
    BY <1>4 DEF OpenCas, Goto, PCs
  <2>7. pc' \in [Threads -> PCs]
    BY <2>6 DEF TypeOK
  <2>. QED
    BY <2>2, <2>5, <2>7 DEF TypeOK
<1>5. CASE OpenNew(t)
  <2>1. state' \in [Ends -> [Ids -> States]]
    BY <1>1, <1>5, StateStep DEF OpenNew, States, TypeOK
  <2>. QED
    BY <1>5, <2>1, SMTT(20) DEF OpenNew, Goto, TypeOK, receive, goaways, PCs
<1>6. CASE OpenInit(t) \/ OpenNewFail(t)
  BY <1>6 DEF OpenInit, OpenNewFail, Goto, TypeOK, receive, goaways, PCs
<1>7. CASE OpenQueue(t)
  <2>1. state' \in [Ends -> [Ids -> States]]
    BY <1>1, <1>7, StateStep DEF OpenQueue, SetState, States
  <2>2. chan' \in [Ends -> Seq(Frame)]
    BY <1>1, <1>7, QueueStep, FrameFacts DEF OpenQueue
  <2>. QED
    BY <1>7, <2>1, <2>2 DEF OpenQueue, Goto, TypeOK, receive, goaways, PCs
<1>8. CASE OpenQueueFail(t)
  <2>1. state' \in [Ends -> [Ids -> States]]
    BY <1>1, <1>8, StateStep DEF OpenQueueFail, stream_free, SetState, States
  <2>. QED
    BY <1>8, <2>1 DEF OpenQueueFail, Goto, TypeOK, receive, goaways, PCs
<1>. QED
  BY <1>2, <1>3, <1>4, <1>5, <1>6, <1>7, <1>8 DEF OpenStep

\* So do those of session_accept.
LEMMA AcceptType ==
  ASSUME TypeOK, NEW t \in Threads,
         AcceptStep(t) \/ AcceptReadFail(t) \/ AcceptQueueFail(t),
         failure' \in {"never", "may", "came"}
  PROVE  TypeOK'
<1>1. Home[t] \in Ends /\ id[t] \in Ids /\ 0 \in Ids
  BY ThreadFacts, WordFacts DEF TypeOK, Ids
<1>2. CASE AcceptRead(t)
  <2>1. backlog[Home[t]] \in Seq(Ids) /\ backlog[Home[t]] # << >>
    BY <1>1, <1>2 DEF AcceptRead, TypeOK
  <2>2. Head(backlog[Home[t]]) \in Ids /\ Tail(backlog[Home[t]]) \in Seq(Ids)
    BY <2>1
  <2>. QED
    BY <1>1, <1>2, <2>2 DEF AcceptRead, TypeOK, receive, goaways, PCs
<1>3. CASE AcceptReadFail(t)
  <2>1. chan' \in [Ends -> Seq(Frame)]
    BY <1>1, <1>3, QueueStep, FrameFacts DEF AcceptReadFail, GoAway
  <2>2. pc' \in [Threads -> PCs] /\ local_go_away' \in [Ends -> BOOLEAN]
    BY <1>1, <1>3, SMTT(20) DEF AcceptReadFail, GoAway, Goto, TypeOK, PCs
  <2>. QED
    BY <1>3, <2>1, <2>2 DEF AcceptReadFail, GoAway, Goto, TypeOK, receive
<1>4. CASE AcceptFind(t)
  <2>1. state' \in [Ends -> [Ids -> States]]
    BY <1>1, <1>4, StateStep DEF AcceptFind, States, TypeOK
  <2>. QED
    BY <1>4, <2>1, SMTT(20) DEF AcceptFind, Goto, TypeOK, receive, goaways, PCs
<1>5. CASE AcceptQueue(t)
  <2>1. chan' \in [Ends -> Seq(Frame)]
    BY <1>1, <1>5, QueueStep, FrameFacts DEF AcceptQueue
  <2>. QED
    BY <1>5, <2>1 DEF AcceptQueue, Goto, TypeOK, receive, goaways, PCs
<1>6. CASE AcceptQueueFail(t)
  BY <1>6 DEF AcceptQueueFail, Goto, TypeOK, receive, goaways, PCs
<1>. QED
  BY <1>2, <1>3, <1>4, <1>5, <1>6 DEF AcceptStep

\* So do those of the receive thread, and session_go_away.
LEMMA RxType ==
  ASSUME TypeOK, NEW e \in Ends,
         RxStep(e) \/ RxFail(e) \/ SessionGoAway(e) \/ SessionGoAwayFail(e),
         failure' \in {"never", "may", "came"}
  PROVE  TypeOK'
<1>1. 0 \in Ids /\ rxid[e] \in Ids
  BY WordFacts DEF TypeOK, Ids
<1>2. CASE SessionGoAway(e)
  <2>1. chan' \in [Ends -> Seq(Frame)]
    BY <1>1, <1>2, QueueStep, FrameFacts DEF SessionGoAway, GoAway
  <2>. QED
    BY <1>2, <2>1 DEF SessionGoAway, GoAway, TypeOK, receive, threads
<1>3. CASE SessionGoAwayFail(e)
  BY <1>3 DEF SessionGoAwayFail, TypeOK, receive, threads
<1>4. CASE RxRefuse(e)
  <2>1. chan[e] # << >> /\ Head(chan[e]).id \in Ids
    BY <1>4, ChanFacts DEF RxRefuse, Arrived
  <2>2. chan' \in [Ends -> Seq(Frame)]
    BY <1>4, <2>1, ReplyStep, FrameFacts DEF RxRefuse
  <2>. QED
    BY <1>4, <2>2 DEF RxRefuse, TypeOK, receive, goaways, threads
<1>5. CASE RxRefuseFail(e)
  <2>1. chan' \in [Ends -> Seq(Frame)]
    BY <1>5, DiscardStep DEF RxRefuseFail, Arrived
  <2>. QED
    BY <1>5, <2>1 DEF RxRefuseFail, TypeOK, goaways, threads
<1>6. CASE RxSyn(e)
  <2>1. chan[e] # << >> /\ Head(chan[e]).id \in Ids
    BY <1>6, ChanFacts DEF RxSyn, Arrived
  <2>2. chan' \in [Ends -> Seq(Frame)]
    BY <1>1, <1>6, <2>1, ReplyStep, DiscardStep, FrameFacts DEF RxSyn
  <2>. QED
    BY <1>6, <2>1, <2>2 DEF RxSyn, TypeOK, goaways, threads
<1>7. CASE RxNew(e)
  <2>1. state' \in [Ends -> [Ids -> States]]
    BY <1>1, <1>7, StateStep DEF RxNew, States, TypeOK
  <2>. QED
    BY <1>7, <2>1 DEF RxNew, TypeOK, goaways, threads
<1>8. CASE RxInit(e)
  BY <1>8 DEF RxInit, TypeOK, goaways, threads
<1>9. CASE RxNewFail(e)
  <2>1. chan' \in [Ends -> Seq(Frame)]
    BY <1>1, <1>9, QueueStep, FrameFacts DEF RxNewFail, GoAway
  <2>. QED
    BY <1>9, <2>1 DEF RxNewFail, GoAway, TypeOK, threads
<1>10. CASE RxNotifyAccept(e)
  <2>1. Append(backlog[e], rxid[e]) \in Seq(Ids)
    BY <1>1 DEF TypeOK
  <2>. QED
    BY <1>10, <2>1 DEF RxNotifyAccept, TypeOK, goaways, threads
<1>11. CASE RxNotifyAcceptFail(e)
  <2>1. chan' \in [Ends -> Seq(Frame)]
    BY <1>1, <1>11, QueueStep, FrameFacts DEF RxNotifyAcceptFail, GoAway
  <2>2. state' \in [Ends -> [Ids -> States]]
    BY <1>1, <1>11, StateStep DEF RxNotifyAcceptFail, stream_free, SetState, States
  <2>. QED
    BY <1>11, <2>1, <2>2 DEF RxNotifyAcceptFail, GoAway, TypeOK, threads
<1>12. CASE RxFlags(e)
  <2>1. chan[e] # << >> /\ Head(chan[e]).id \in Ids
    BY <1>12, ChanFacts DEF RxFlags, Arrived
  <2>2. chan' \in [Ends -> Seq(Frame)]
    BY <1>12, <2>1, DiscardStep DEF RxFlags
  <2>3. \A st \in States : \A type : FlagsState(st, type) \in States
    BY DEF FlagsState, States
  <2>4. state' \in [Ends -> [Ids -> States]]
    BY <1>12, <2>1, <2>3 DEF RxFlags, SetState, TypeOK
  <2>. QED
    BY <1>12, <2>2, <2>4 DEF RxFlags, TypeOK, receive, goaways, threads
<1>13. CASE RxGoAway(e)
  <2>1. chan' \in [Ends -> Seq(Frame)]
    BY <1>13, DiscardStep DEF RxGoAway, Arrived
  <2>. QED
    BY <1>13, <2>1 DEF RxGoAway, TypeOK, threads
<1>. QED
  BY <1>2, <1>3, <1>4, <1>5, <1>6, <1>7, <1>8, <1>9, <1>10, <1>11, <1>12, <1>13
     DEF RxStep, RxFail

\* Every step keeps the types.
LEMMA TypeInv == TypeOK /\ [Next]_vars => TypeOK'
<1> SUFFICES ASSUME TypeOK, [Next]_vars PROVE TypeOK'
  OBVIOUS
<1>1. CASE UNCHANGED vars
  BY <1>1 DEF vars, progress, receive, goaways, threads, TypeOK
<1>2. CASE Next
  <2>1. failure' \in {"never", "may", "came"}
    BY <1>2 DEF Next, TypeOK
  <2>2. \/ \E t \in Threads : \/ OpenCheck(t) \/ OpenStep(t) \/ OpenNewFail(t)
                              \/ OpenQueueFail(t)
        \/ \E t \in Threads : AcceptStep(t) \/ AcceptReadFail(t) \/ AcceptQueueFail(t)
        \/ \E e \in Ends : \/ RxStep(e) \/ RxFail(e) \/ SessionGoAway(e)
                           \/ SessionGoAwayFail(e)
    BY <1>2 DEF Next, ThreadFail
  <2>. QED
    BY <2>1, <2>2, OpenType, AcceptType, RxType
<1>. QED
  BY <1>1, <1>2

-----------------------------------------------------------------------------
(* Custody. *)

\* The parts that are about ids.
Places == /\ FreshCustody /\ OpenCustody /\ FrameCustody /\ ReceiveCustody
          /\ QueueCustody /\ AcceptCustody

\* A thread goes on with the id it has.
SameThread(t) == pc'[t] = pc[t] /\ id'[t] = id[t]

\* A step that moves no stream on keeps every id in custody: frames and threads
\* may give ids up, and initialisation is not seen from outside.
LEMMA GiveUp ==
  ASSUME IInv, UNCHANGED <<next_id, state, backlog>>,
         \A t \in Openers : \/ SameThread(t) \/ pc'[t] \in {"idle", "load"}
                            \/ pc[t] = "init" /\ pc'[t] = "queue" /\ id'[t] = id[t],
         \A t \in Acceptors : SameThread(t) \/ pc'[t] \in {"idle", "failed"},
         \A e \in Ends : \/ rx'[e] = rx[e] /\ rxid'[e] = rxid[e]
                         \/ rx'[e] \in {"idle", "dead"}
                         \/ rx[e] = "init" /\ rx'[e] = "accept" /\ rxid'[e] = rxid[e],
         \A e \in Ends : \A f \in Range(chan'[e]) :
                           f.type \in Flagged => f \in Range(chan[e]),
         \A e \in Ends : OnePerStream(chan'[e])
  PROVE  Places'
<1> USE DEF IInv, Custody
<1>1. \A e \in Ends : \A i :
        /\ Carries(chan'[e], {"SYN"}, i) => Carries(chan[e], {"SYN"}, i)
        /\ Carries(chan'[e], {"ACK"}, i) => Carries(chan[e], {"ACK"}, i)
        /\ Carries(chan'[e], {"RST"}, i) => Carries(chan[e], {"RST"}, i)
  BY DEF Carries, Flagged
<1>2. FreshCustody' /\ OpenCustody'
  BY ThreadFacts DEF FreshCustody, OpenCustody, SameThread, Holding
<1>3. FrameCustody'
  BY <1>1, EndFacts DEF FrameCustody, Offered, Flagged
<1>4. ReceiveCustody'
  BY <1>1, EndFacts DEF ReceiveCustody, Offered, SameThread
<1>5. QueueCustody'
  BY DEF QueueCustody, Offered
<1>6. AcceptCustody'
  BY <1>1, EndFacts, ThreadFacts DEF AcceptCustody, Offered, SameThread, Holding
<1>. QED
  BY <1>2, <1>3, <1>4, <1>5, <1>6 DEF Places

\* Goto moves one thread.
LEMMA GotoStep ==
  ASSUME TypeOK, NEW t \in Threads, NEW label, Goto(t, label)
  PROVE  /\ pc'[t] = label /\ id'[t] = id[t]
         /\ \A u \in Threads \ {t} : SameThread(u)
BY DEF Goto, TypeOK, SameThread

\* A step of session_open that is not seen outside its end's openers.
LEMMA OpenerOnly ==
  ASSUME IInv, UNCHANGED <<state, chan, backlog, receive>>,
         \A t \in Acceptors : SameThread(t)
  PROVE  FrameCustody' /\ ReceiveCustody' /\ QueueCustody' /\ AcceptCustody'
<1> USE DEF IInv, Custody
<1>1. FrameCustody' /\ QueueCustody'
  BY DEF FrameCustody, QueueCustody, Offered
<1>2. ReceiveCustody'
  BY DEF ReceiveCustody, Offered, receive, SameThread
<1>3. AcceptCustody'
  BY DEF AcceptCustody, Offered, SameThread, Holding
<1>. QED
  BY <1>1, <1>2, <1>3

\* session_open reads next_id.
LEMMA OpenLoadInv ==
  ASSUME IInv, NEW t \in Threads, OpenLoad(t)
  PROVE  Places'
<1> USE DEF IInv, Custody
<1> DEFINE e == Home[t]
           i == next_id[e]
<1>1. t \in Openers /\ e \in Ends /\ i \in Ids /\ TypeOK
  BY ThreadFacts DEF OpenLoad, TypeOK
<1>2. CASE Exhausted(i) /\ Goto(t, "idle")
  <2>1. pc'[t] = "idle" /\ \A u \in Threads \ {t} : SameThread(u)
    BY <1>1, <1>2, GotoStep
  <2>2. UNCHANGED <<next_id, state, chan, backlog, rx, rxid>>
    BY DEF OpenLoad, receive
  <2>3. \A d \in Ends : OnePerStream(chan'[d])
    BY <2>2 DEF FrameCustody
  <2>4. \A u \in Acceptors : SameThread(u)
    BY <1>1, <2>1, ThreadFacts
  <2>. QED
    BY <2>1, <2>2, <2>3, <2>4, ThreadFacts, GiveUp
<1>3. CASE ~Exhausted(i)
  <2>1. /\ UNCHANGED <<next_id, state, chan, backlog, receive>>
        /\ pc'[t] = "cas" /\ id'[t] = i /\ i < Word - 1
        /\ \A u \in Threads \ {t} : SameThread(u)
    BY <1>1, <1>3, WordFacts DEF OpenLoad, Goto, TypeOK, SameThread, Exhausted, Ids
  <2> HIDE DEF i
  <2>2. FreshCustody'
    BY <2>1 DEF FreshCustody
  <2>3. i # 0 /\ i <= next_id[e] /\ Opener(i) = e
    BY <1>1 DEF FreshCustody, i, Ids
  <2>4. OpenCustody'
    BY <1>1, <2>1, <2>3, ThreadFacts DEF OpenCustody, SameThread, Holding
  <2>5. \A u \in Acceptors : SameThread(u)
    BY <1>1, <2>1, ThreadFacts
  <2>. QED
    BY <2>1, <2>2, <2>4, <2>5, OpenerOnly DEF Places
<1>. QED
  BY <1>2, <1>3 DEF OpenLoad

\* The compare-and-swap hands out an id that nobody knows.
LEMMA OpenCasInv ==
  ASSUME IInv, NEW t \in Threads, OpenCas(t), NoWrap'
  PROVE  Places'
<1> USE DEF IInv, Custody
<1> DEFINE e == Home[t]
<1>1. t \in Openers /\ e \in Ends /\ id[t] \in Ids /\ next_id \in [Ends -> Ids] /\ TypeOK
  BY ThreadFacts DEF OpenCas, TypeOK
<1>2. CASE ~CasSucceeds(t)
  <2>1. pc'[t] = "load" /\ \A u \in Threads \ {t} : SameThread(u)
    BY <1>1, <1>2, GotoStep DEF OpenCas
  <2>2. UNCHANGED <<next_id, state, chan, backlog, rx, rxid>>
    BY <1>2 DEF OpenCas, receive
  <2>3. \A d \in Ends : OnePerStream(chan'[d])
    BY <2>2 DEF FrameCustody
  <2>4. \A u \in Acceptors : SameThread(u)
    BY <1>1, <2>1, ThreadFacts
  <2>. QED
    BY <2>1, <2>2, <2>3, <2>4, ThreadFacts, GiveUp
<1>3. CASE CasSucceeds(t)
  <2> DEFINE i == id[t]
  <2>1. /\ i = next_id[e] /\ next_id' = [next_id EXCEPT ![e] = NextId(i)]
        /\ Goto(t, "new") /\ UNCHANGED <<state, chan, backlog, receive>>
    BY <1>3 DEF OpenCas, CasSucceeds
  <2>2. /\ pc'[t] = "new" /\ id'[t] = i
        /\ \A u \in Threads \ {t} : SameThread(u)
    BY <1>1, <2>1, GotoStep
  <2>3. i \in Ids /\ i # 0 /\ i < Word - 1 /\ Opener(i) = e
    BY <1>1 DEF OpenCustody, OpenCas
  <2>4. /\ NextId(i) \in Ids
        /\ NextId(i) # 0 => NextId(i) = i + 2 /\ Opener(NextId(i)) = e
        /\ e = "c" => NextId(i) # 0
    BY <2>3, NextIdFacts, WordFacts DEF Exhausted, Ids
  <2> HIDE DEF i
  <2>5. NextId(i) # 0
    BY <1>1, <2>1, <2>4 DEF NoWrap, Ends
  <2>6. /\ next_id'[e] = i + 2 /\ Opener(next_id'[e]) = e
        /\ \A d \in Ends \ {e} : next_id'[d] = next_id[d]
        /\ \A d \in Ends : next_id[d] \in Nat /\ next_id'[d] \in Nat /\ next_id[d] <= next_id'[d]
        /\ i \in Nat
    BY <1>1, <2>1, <2>3, <2>4, <2>5, WordFacts DEF Ids
  <2>7. FreshCustody'
    <3>1. \A d \in Ends : next_id'[d] # 0 /\ Opener(next_id'[d]) = d
      BY <2>6 DEF FreshCustody
    <3>2. ASSUME NEW d \in Ends, NEW j \in Ids, Opener(j) = d, j >= next_id'[d] \/ j = 0
          PROVE  state[d][j] = "NONE" /\ state[Other(d)][j] = "NONE"
      <4>1. j \in Nat /\ (j >= next_id[d] \/ j = 0)
        BY <2>6, <3>2, WordFacts DEF Ids
      <4>. QED
        BY <3>2, <4>1 DEF FreshCustody
    <3>. QED
      BY <2>1, <3>1, <3>2 DEF FreshCustody
  <2>8. state[e][i] = "NONE" /\ state[Other(e)][i] = "NONE"
    BY <1>1, <2>1, <2>3, <2>6 DEF FreshCustody
  <2>9. ASSUME NEW u \in Openers, u # t, pc[u] \in {"new", "init", "queue"} PROVE id[u] # i
    <3>1. id[u] < next_id[Home[u]] /\ Opener(id[u]) = Home[u] /\ id[u] \in Ids
      BY <2>9, ThreadFacts DEF OpenCustody, TypeOK
    <3>. QED
      BY <1>1, <2>1, <2>3, <2>6, <3>1, WordFacts DEF Ids
  <2>10. ASSUME NEW u \in Openers, u # t, pc[u] \in {"cas", "new", "init", "queue"}
         PROVE  /\ pc[u] = "cas" => id[u] <= next_id'[Home[u]]
                /\ pc[u] # "cas" => id[u] < next_id'[Home[u]]
    <3>1. /\ id[u] \in Nat /\ Home[u] \in Ends
          /\ pc[u] = "cas" => id[u] <= next_id[Home[u]]
          /\ pc[u] # "cas" => id[u] < next_id[Home[u]]
      BY <2>10, ThreadFacts, WordFacts DEF OpenCustody, TypeOK, Ids
    <3>. QED
      BY <2>6, <3>1
  <2>11. OpenCustody'
    <3>1. ASSUME NEW u \in Openers, u # t
          PROVE  /\ pc'[u] = pc[u] /\ id'[u] = id[u] /\ Holding(u)' = Holding(u)
                 /\ Holding(u) => pc[u] \in {"new", "init", "queue"} 
      BY <2>2, <3>1, ThreadFacts DEF SameThread, Holding, OpenCustody
    <3>2. id'[t] < next_id'[e]
      BY <2>2, <2>6
    <3>. QED
      BY <1>1, <2>1, <2>2, <2>3, <2>8, <2>9, <2>10, <3>1, <3>2 DEF OpenCustody
  <2>12. \A u \in Acceptors : SameThread(u)
    BY <1>1, <2>2, ThreadFacts
  <2>. QED
    BY <2>1, <2>7, <2>11, <2>12, OpenerOnly DEF Places
<1>. QED
  BY <1>2, <1>3

\* An opener's stream whose SYN is not out is known to no frame and to no thread
\* but the opener.
LEMMA Private ==
  ASSUME IInv, NEW e \in Ends, NEW i \in Ids, Opener(i) = e,
         state[e][i] \in {"NONE", "INIT"}
  PROVE  /\ \A d \in Ends : \A f \in Range(chan[d]) : f.type \in Flagged => f.id # i
         /\ \A d \in Ends : rx[d] \in {"new", "init", "accept"} => rxid[d] # i
         /\ \A d \in Ends : i \notin Range(backlog[d])
         /\ \A t \in Acceptors : pc[t] \in {"find", "queue"} => id[t] # i
<1> USE DEF IInv, Custody, Offered
<1>1. \A d \in Ends : \A f \in Range(chan[d]) : f.type \in Flagged => f.id # i
  BY EndFacts DEF FrameCustody, Flagged
<1>2. \A d \in Ends : rx[d] \in {"new", "init", "accept"} => rxid[d] # i
  BY EndFacts DEF ReceiveCustody
<1>3. \A d \in Ends : i \notin Range(backlog[d])
  BY EndFacts DEF QueueCustody
<1>4. \A t \in Acceptors : pc[t] \in {"find", "queue"} => id[t] # i
  BY EndFacts, ThreadFacts DEF AcceptCustody
<1>. QED
  BY <1>1, <1>2, <1>3, <1>4

\* Its opener may change its state as it likes.
LEMMA PrivateState ==
  ASSUME IInv, NEW e \in Ends, NEW i \in Ids, Opener(i) = e,
         state[e][i] \in {"NONE", "INIT"}, NEW st,
         \A d \in Ends, j \in Ids :
           state'[d][j] = IF d = e /\ j = i THEN st ELSE state[d][j],
         UNCHANGED <<chan, backlog, receive>>,
         \A t \in Acceptors : SameThread(t)
  PROVE  FrameCustody' /\ ReceiveCustody' /\ QueueCustody' /\ AcceptCustody'
<1>0. TypeOK /\ FrameCustody /\ ReceiveCustody /\ QueueCustody /\ AcceptCustody
  BY DEF IInv, Custody
<1>1. /\ \A d \in Ends : \A f \in Range(chan[d]) : f.type \in Flagged => f.id # i
      /\ \A d \in Ends : rx[d] \in {"new", "init", "accept"} => rxid[d] # i
      /\ \A d \in Ends : i \notin Range(backlog[d])
      /\ \A t \in Acceptors : pc[t] \in {"find", "queue"} => id[t] # i
  BY Private
<1>2. \A d \in Ends, j \in Ids : \A a, b : j # i => (Offered(d, j, a, b)' <=> Offered(d, j, a, b))
  BY EndFacts DEF Offered
<1>3. FrameCustody'
  BY <1>0, <1>1, <1>2, EndFacts, ChanFacts DEF FrameCustody, Flagged
<1>4. ReceiveCustody'
  <2>1. rx' = rx /\ rxid' = rxid /\ \A d \in Ends : rxid[d] \in Ids
    BY <1>0 DEF receive, TypeOK
  <2>. QED
    BY <1>0, <1>1, <1>2, <2>1, EndFacts DEF ReceiveCustody, SameThread
<1>5. QueueCustody'
  <2>1. \A d \in Ends : Range(backlog[d]) \subseteq Ids
    BY <1>0, RangeFacts DEF TypeOK
  <2>. QED
    BY <1>0, <1>1, <1>2, <2>1 DEF QueueCustody
<1>6. AcceptCustody'
  BY <1>0, <1>1, <1>2, EndFacts, ThreadFacts DEF AcceptCustody, SameThread, Holding, TypeOK
<1>. QED
  BY <1>3, <1>4, <1>5, <1>6

\* What is known of a thread that has taken an id and not yet sent its SYN.
LEMMA OpenerHolds ==
  ASSUME IInv, NEW t \in Openers, pc[t] \in {"new", "init", "queue"}
  PROVE  /\ t \in Threads /\ Home[t] \in Ends /\ id[t] \in Ids /\ id[t] # 0
         /\ id[t] < next_id[Home[t]] /\ Opener(id[t]) = Home[t]
         /\ state[Home[t]][id[t]] = IF pc[t] = "new" THEN "NONE" ELSE "INIT"
         /\ state[Other(Home[t])][id[t]] = "NONE"
         /\ \A u \in Openers \ {t} :
              pc[u] \in {"new", "init", "queue"} => id[u] # id[t]
BY ThreadFacts DEF IInv, Custody, TypeOK, OpenCustody, Holding

\* Its stream changes: the other openers and the ids to come are not concerned.
LEMMA OpenerMoves ==
  ASSUME IInv, NEW t \in Openers, pc[t] \in {"new", "init", "queue"}, NEW st,
         \A d \in Ends, j \in Ids :
           state'[d][j] = IF d = Home[t] /\ j = id[t] THEN st ELSE state[d][j],
         UNCHANGED next_id,
         \A u \in Threads \ {t} : SameThread(u),
         \/ pc'[t] \in {"idle", "load"}
         \/ pc'[t] = "init" /\ id'[t] = id[t] /\ st = "INIT"
  PROVE  FreshCustody' /\ OpenCustody'
<1> USE DEF IInv, Custody
<1> DEFINE e == Home[t]
           i == id[t]
<1>1. /\ t \in Threads /\ e \in Ends /\ i \in Ids /\ i # 0
      /\ i < next_id[e] /\ Opener(i) = e /\ next_id[e] \in Ids
      /\ state[Other(e)][i] = "NONE" /\ Other(e) \in Ends /\ Other(e) # e
      /\ \A u \in Openers \ {t} :
           pc[u] \in {"new", "init", "queue"} => id[u] # i
  BY OpenerHolds, EndFacts DEF TypeOK
<1>2. \A u \in Openers \ {t} : pc'[u] = pc[u] /\ id'[u] = id[u] /\ u \in Threads
                               /\ id[u] \in Ids /\ Home[u] \in Ends
  BY <1>1, ThreadFacts DEF SameThread, TypeOK
<1> HIDE DEF e, i
<1>3. FreshCustody'
  <2>1. \A j \in Ids : Opener(j) = e /\ (j >= next_id[e] \/ j = 0) => j # i
    BY <1>1, WordFacts DEF Ids
  <2>. QED
    BY <1>1, <2>1, EndFacts DEF FreshCustody, e, i
<1>4. \A u \in Openers \ {t} : pc[u] \in {"new", "init", "queue"} =>
        /\ state'[Home[u]][id[u]] = state[Home[u]][id[u]]
        /\ state'[Other(Home[u])][id[u]] = state[Other(Home[u])][id[u]]
  BY <1>1, <1>2, EndFacts DEF e, i
<1>5. OpenCustody'
  BY <1>1, <1>2, <1>4 DEF OpenCustody, Holding, e, i
<1>. QED
  BY <1>3, <1>5

\* stream_new inserts the stream: the assertion of session_insert_stream holds.
LEMMA OpenNewInv ==
  ASSUME IInv, NEW t \in Threads, OpenNew(t) \/ OpenQueueFail(t)
  PROVE  Places'
<1> DEFINE e == Home[t]
           i == id[t]
           st == IF pc[t] = "new" THEN "INIT" ELSE "NONE"
<1>1. /\ t \in Openers /\ TypeOK
      /\ pc[t] = IF OpenNew(t) THEN "new" ELSE "queue"
  BY DEF OpenNew, OpenQueueFail, IInv
<1>2. /\ e \in Ends /\ i \in Ids /\ Opener(i) = e /\ state[e][i] \in {"NONE", "INIT"}
      /\ pc[t] = "new" => state[e][i] = "NONE"
  BY <1>1, OpenerHolds
<1>3. /\ state' = [state EXCEPT ![e][i] = st]
      /\ Goto(t, IF pc[t] = "new" THEN "init" ELSE "idle")
      /\ UNCHANGED <<next_id, chan, backlog, receive>>
  BY <1>1, <1>2 DEF OpenNew, OpenQueueFail, stream_free, SetState
<1>4. st \in States
  BY DEF States
<1> HIDE DEF st
<1>9. \A d \in Ends, j \in Ids :
        state'[d][j] = IF d = e /\ j = i THEN st ELSE state[d][j]
  BY <1>1, <1>2, <1>3, <1>4, StateStep
<1>5. /\ pc'[t] = IF pc[t] = "new" THEN "init" ELSE "idle"
      /\ id'[t] = id[t] /\ \A u \in Threads \ {t} : SameThread(u)
  BY <1>1, <1>3, GotoStep
<1>6. \A u \in Acceptors : SameThread(u)
  BY <1>1, <1>5, ThreadFacts
<1>7. FrameCustody' /\ ReceiveCustody' /\ QueueCustody' /\ AcceptCustody'
  BY <1>2, <1>3, <1>6, <1>9, PrivateState, SMTT(20)
<1>8. FreshCustody' /\ OpenCustody'
  BY <1>1, <1>3, <1>5, <1>9, OpenerMoves DEF st
<1>. QED
  BY <1>7, <1>8 DEF Places

-----------------------------------------------------------------------------
(* Steps about one stream: custody of stream i alone. *)

FrameAt(i) ==
  \A e \in Ends : \A f \in Range(chan[e]) : f.id = i =>
    /\ f.type = "SYN" => Offered(e, i, "SYN_SENT", "NONE")
    /\ f.type = "ACK" => Offered(Other(e), i, "SYN_SENT", "ESTABLISHED")
    /\ f.type = "RST" => /\ Offered(Other(e), i, "SYN_SENT", "NONE")
                         /\ ~Carries(chan[Other(e)], {"SYN"}, i)

ReceiveAt(i) ==
  \A e \in Ends : rxid[e] = i =>
    /\ rx[e] = "new" => /\ Offered(e, i, "SYN_SENT", "NONE")
                        /\ ~Carries(chan[e], {"SYN"}, i)
                        /\ ~Carries(chan[Other(e)], {"RST"}, i)
    /\ rx[e] \in {"init", "accept"} =>
         /\ Offered(e, i, "SYN_SENT", "SYN_RECEIVED")
         /\ i \notin Range(backlog[e])
         /\ \A t \in Acceptors : Home[t] = e /\ pc[t] = "find" => id[t] # i

QueueAt(i) ==
  \A e \in Ends : i \in Range(backlog[e]) => Offered(e, i, "SYN_SENT", "SYN_RECEIVED")

AcceptAt(i) ==
  /\ \A t \in Acceptors : LET e == Home[t] IN id[t] = i =>
       /\ pc[t] = "find" => /\ Offered(e, i, "SYN_SENT", "SYN_RECEIVED")
                            /\ i \notin Range(backlog[e])
       /\ pc[t] = "queue" => /\ Offered(e, i, "SYN_SENT", "ESTABLISHED")
                             /\ ~Carries(chan[Other(e)], {"ACK"}, i)
  /\ \A t, u \in Acceptors :
       t # u /\ Home[t] = Home[u] /\ Holding(t) /\ Holding(u) /\ id[t] = i => id[u] # i

At(i) == FrameAt(i) /\ ReceiveAt(i) /\ QueueAt(i) /\ AcceptAt(i)

\* A step that is about stream i leaves the others in custody: what it takes
\* away from them does no harm, and it adds nothing.
LEMMA Elsewhere ==
  ASSUME IInv, TypeOK', NEW i \in Ids, At(i)',
         \A d \in Ends, j \in Ids : j # i => state'[d][j] = state[d][j],
         \A d \in Ends : \A f \in Range(chan'[d]) :
                           f.type \in Flagged /\ f.id # i => f \in Range(chan[d]),
         \A d \in Ends : OnePerStream(chan'[d]),
         \A d \in Ends : \A j \in Range(backlog'[d]) : j # i => j \in Range(backlog[d]),
         \A d \in Ends : IsInjective(backlog'[d]),
         \A d \in Ends : \/ rx'[d] = rx[d] /\ rxid'[d] = rxid[d]
                         \/ rx'[d] \in {"idle", "dead"}
                         \/ rx'[d] # "abort" /\ rxid'[d] = i,
         \A t \in Acceptors : \/ SameThread(t) \/ pc'[t] \in {"idle", "failed"}
                              \/ pc'[t] \in {"find", "queue"} /\ id'[t] = i
  PROVE  FrameCustody' /\ ReceiveCustody' /\ QueueCustody' /\ AcceptCustody'
<1>0. TypeOK /\ FrameCustody /\ ReceiveCustody /\ QueueCustody /\ AcceptCustody
  BY DEF IInv, Custody
<1>1. \A d \in Ends, j \in Ids : \A a, b : j # i => (Offered(d, j, a, b)' <=> Offered(d, j, a, b))
  BY EndFacts DEF Offered
<1>2. \A d \in Ends : \A j : j # i =>
        /\ Carries(chan'[d], {"SYN"}, j) => Carries(chan[d], {"SYN"}, j)
        /\ Carries(chan'[d], {"ACK"}, j) => Carries(chan[d], {"ACK"}, j)
        /\ Carries(chan'[d], {"RST"}, j) => Carries(chan[d], {"RST"}, j)
  BY DEF Carries, Flagged
<1>3. FrameCustody'
  <2>1. ASSUME NEW d \in Ends, NEW f \in Range(chan'[d]), f.id # i
        PROVE  /\ f.type = "SYN" => Offered(d, f.id, "SYN_SENT", "NONE")'
               /\ f.type = "ACK" => Offered(Other(d), f.id, "SYN_SENT", "ESTABLISHED")'
               /\ f.type = "RST" => /\ Offered(Other(d), f.id, "SYN_SENT", "NONE")'
                                    /\ ~Carries(chan'[Other(d)], {"SYN"}, f.id)
    BY <1>0, <1>1, <1>2, <2>1, ChanFacts, EndFacts DEF FrameCustody, Flagged
  <2>2. FrameAt(i)'
    BY DEF At
  <2>. QED
    BY <2>1, <2>2 DEF FrameCustody, FrameAt
<1>4. ReceiveCustody'
  <2>1. \A d \in Ends : rxid[d] \in Ids /\ rxid'[d] \in Ids
    BY <1>0 DEF TypeOK
  <2>2. ASSUME NEW d \in Ends, NEW j \in Ids, j = rxid'[d], j # i,
               rx'[d] \notin {"idle", "dead"}
        PROVE  /\ rx'[d] = "new" => /\ Offered(d, j, "SYN_SENT", "NONE")'
                                    /\ ~Carries(chan'[d], {"SYN"}, j)
                                    /\ ~Carries(chan'[Other(d)], {"RST"}, j)
               /\ rx'[d] \in {"init", "accept"} =>
                    /\ Offered(d, j, "SYN_SENT", "SYN_RECEIVED")'
                    /\ j \notin Range(backlog'[d])
                    /\ \A t \in Acceptors : Home[t] = d /\ pc'[t] = "find" => id'[t] # j
    <3>1. rx'[d] = rx[d] /\ rxid[d] = j
      BY <2>2
    <3>2. CASE rx[d] = "new"
      BY <1>0, <1>1, <1>2, <2>2, <3>1, <3>2, EndFacts DEF ReceiveCustody
    <3>3. CASE rx[d] \in {"init", "accept"}
      <4>1. /\ Offered(d, j, "SYN_SENT", "SYN_RECEIVED") /\ j \notin Range(backlog[d])
            /\ \A t \in Acceptors : Home[t] = d /\ pc[t] = "find" => id[t] # j
        BY <1>0, <3>1, <3>3 DEF ReceiveCustody
      <4>2. \A t \in Acceptors : Home[t] = d /\ pc'[t] = "find" => id'[t] # j
        BY <2>2, <4>1 DEF SameThread
      <4>. QED
        BY <1>1, <2>2, <3>1, <3>3, <4>1, <4>2
    <3>. QED
      BY <3>1, <3>2, <3>3
  <2>3. ReceiveAt(i)'
    BY DEF At
  <2>4. \A d \in Ends : rx'[d] # "abort"
    BY <1>0 DEF ReceiveCustody
  <2>5. ASSUME NEW d \in Ends
        PROVE  /\ rx'[d] = "new" => /\ Offered(d, rxid[d], "SYN_SENT", "NONE")'
                                    /\ ~Carries(chan'[d], {"SYN"}, rxid'[d])
                                    /\ ~Carries(chan'[Other(d)], {"RST"}, rxid'[d])
               /\ rx'[d] \in {"init", "accept"} =>
                    /\ Offered(d, rxid[d], "SYN_SENT", "SYN_RECEIVED")'
                    /\ rxid'[d] \notin Range(backlog'[d])
                    /\ \A t \in Acceptors : Home[t] = d /\ pc'[t] = "find" => id'[t] # rxid'[d]
    <3>1. PICK j \in Ids : j = rxid'[d]
      BY <2>1
    <3>2. CASE j = i
      <4>1. rxid'[d] = i
        BY <3>1, <3>2
      <4>2. rx'[d] = "new" => /\ Offered(d, i, "SYN_SENT", "NONE")'
                              /\ ~Carries(chan'[d], {"SYN"}, i)
                              /\ ~Carries(chan'[Other(d)], {"RST"}, i)
        BY <2>3, <4>1 DEF ReceiveAt
      <4>3. rx'[d] \in {"init", "accept"} =>
              /\ Offered(d, i, "SYN_SENT", "SYN_RECEIVED")' /\ i \notin Range(backlog'[d])
              /\ \A t \in Acceptors : Home[t] = d /\ pc'[t] = "find" => id'[t] # i
        BY <2>3, <4>1 DEF ReceiveAt
      <4>. QED
        BY <4>1, <4>2, <4>3 DEF Offered
    <3>3. CASE j # i
      BY <2>2, <3>1, <3>3 DEF Offered
    <3>. QED
      BY <3>2, <3>3
  <2>. QED
    BY <2>4, <2>5 DEF ReceiveCustody
<1>5. QueueCustody'
  <2>1. \A d \in Ends : Range(backlog[d]) \subseteq Ids
    BY <1>0, RangeFacts DEF TypeOK
  <2>2. QueueAt(i)'
    BY DEF At
  <2>. QED
    BY <1>0, <1>1, <2>1, <2>2 DEF QueueCustody, QueueAt
<1>6. AcceptCustody'
  <2>1. \A t \in Acceptors : id[t] \in Ids /\ Home[t] \in Ends /\ Other(Home[t]) \in Ends
    BY <1>0, ThreadFacts, EndFacts DEF TypeOK
  <2>2. ASSUME NEW t \in Acceptors, id'[t] # i, pc'[t] \in {"find", "queue"}
        PROVE  /\ SameThread(t)
               /\ pc[t] = "find" => /\ Offered(Home[t], id[t], "SYN_SENT", "SYN_RECEIVED")'
                                    /\ id[t] \notin Range(backlog'[Home[t]])
               /\ pc[t] = "queue" =>
                    /\ Offered(Home[t], id[t], "SYN_SENT", "ESTABLISHED")'
                    /\ ~Carries(chan'[Other(Home[t])], {"ACK"}, id[t])
    BY <1>0, <1>1, <1>2, <2>1, <2>2 DEF AcceptCustody, SameThread
  <2>3. AcceptAt(i)'
    BY DEF At
  <2>4. \A t \in Acceptors : pc'[t] \in {"idle", "find", "queue", "failed"}
    BY <1>0 DEF AcceptCustody, SameThread
  <2>5. \A t \in Acceptors : Holding(t)' => pc'[t] \in {"find", "queue"}
    BY <2>4 DEF Holding
  <2>6. \A t, u \in Acceptors : t # u /\ Home[t] = Home[u] /\ Holding(t)' /\ Holding(u)'
                                => id'[t] # id'[u]
    BY <1>0, <2>2, <2>3, <2>5 DEF AcceptCustody, AcceptAt, SameThread, Holding
  <2>. QED
    BY <2>2, <2>3, <2>4, <2>6 DEF AcceptCustody, AcceptAt, SameThread
<1>. QED
  BY <1>3, <1>4, <1>5, <1>6

\* The openers are not concerned by what happens to a stream whose SYN is out.
LEMMA OpenersKeep ==
  ASSUME IInv, NEW i \in Ids, state[Opener(i)][i] \notin {"NONE", "INIT"},
         \A d \in Ends, j \in Ids : j # i => state'[d][j] = state[d][j],
         UNCHANGED next_id, \A t \in Openers : SameThread(t)
  PROVE  FreshCustody' /\ OpenCustody'
<1>1. TypeOK /\ FreshCustody /\ OpenCustody
  BY DEF IInv, Custody
<1>2. FreshCustody'
  BY <1>1, EndFacts DEF FreshCustody
<1>3. ASSUME NEW t \in Openers, pc[t] \in {"new", "init", "queue"}
      PROVE  /\ state'[Home[t]][id[t]] = state[Home[t]][id[t]]
             /\ state'[Other(Home[t])][id[t]] = state[Other(Home[t])][id[t]]
  BY <1>3, OpenerHolds, EndFacts
<1>4. OpenCustody'
  BY <1>1, <1>3 DEF OpenCustody, SameThread, Holding
<1>. QED
  BY <1>2, <1>4

\* Where stream i, which the peer of e opens, can be: its state at e tells.
LEMMA Whereabouts ==
  ASSUME IInv, NEW e \in Ends, NEW i \in Ids, Opener(i) = Other(e)
  PROVE  /\ \A d \in Ends : \A f \in Range(chan[d]) : f.id = i =>
              /\ f.type = "SYN" => d = e /\ state[e][i] = "NONE"
              /\ f.type = "ACK" => d = Other(e) /\ state[e][i] = "ESTABLISHED"
              /\ f.type = "RST" => d = Other(e) /\ state[e][i] = "NONE"
              /\ f.type \in Flagged => state[Other(e)][i] = "SYN_SENT"
         /\ \A d \in Ends : rxid[d] = i =>
              /\ rx[d] = "new" => d = e /\ state[e][i] = "NONE"
              /\ rx[d] \in {"init", "accept"} => d = e /\ state[e][i] = "SYN_RECEIVED"
         /\ \A d \in Ends : i \in Range(backlog[d]) => d = e /\ state[e][i] = "SYN_RECEIVED"
         /\ \A t \in Acceptors : id[t] = i =>
              /\ pc[t] = "find" => Home[t] = e /\ state[e][i] = "SYN_RECEIVED"
              /\ pc[t] = "queue" => Home[t] = e /\ state[e][i] = "ESTABLISHED"
         /\ \A t \in Acceptors : Holding(t) => pc[t] \in {"find", "queue"}
<1> USE DEF IInv, Custody, Offered
<1>1. \A d \in Ends : \A f \in Range(chan[d]) : f.id = i =>
        /\ f.type = "SYN" => d = e /\ state[e][i] = "NONE"
        /\ f.type = "ACK" => d = Other(e) /\ state[e][i] = "ESTABLISHED"
        /\ f.type = "RST" => d = Other(e) /\ state[e][i] = "NONE"
        /\ f.type \in Flagged => state[Other(e)][i] = "SYN_SENT"
  BY EndFacts DEF FrameCustody, Flagged
<1>2. \A d \in Ends : rxid[d] = i =>
        /\ rx[d] = "new" => d = e /\ state[e][i] = "NONE"
        /\ rx[d] \in {"init", "accept"} => d = e /\ state[e][i] = "SYN_RECEIVED"
  BY EndFacts DEF ReceiveCustody
<1>3. \A d \in Ends : i \in Range(backlog[d]) => d = e /\ state[e][i] = "SYN_RECEIVED"
  BY EndFacts DEF QueueCustody
<1>4. \A t \in Acceptors : id[t] = i =>
        /\ pc[t] = "find" => Home[t] = e /\ state[e][i] = "SYN_RECEIVED"
        /\ pc[t] = "queue" => Home[t] = e /\ state[e][i] = "ESTABLISHED"
  BY EndFacts, ThreadFacts DEF AcceptCustody
<1>5. \A t \in Acceptors : Holding(t) => pc[t] \in {"find", "queue"}
  BY DEF AcceptCustody, Holding
<1>. QED
  BY <1>1, <1>2, <1>3, <1>4, <1>5

\* incoming_stream refuses a stream: its SYN becomes an RST.
LEMMA RxRefuseInv ==
  ASSUME IInv, TypeOK', NEW e \in Ends, RxRefuse(e)
  PROVE  Places'
<1>0. TypeOK /\ FrameCustody /\ QueueCustody
  BY DEF IInv, Custody
<1>1. chan[e] # << >> /\ Head(chan[e]).type = "SYN" /\ rx[e] = "idle"
  BY DEF RxRefuse, Arrived
<1>2. PICK i \in Ids : i = Head(chan[e]).id /\ Head(chan[e]) \in Range(chan[e])
  BY <1>0, <1>1, ChanFacts
<1>3. PICK p \in Ends : p = Other(e) /\ Other(p) = e /\ p # e /\ \A d \in Ends : d = e \/ d = p
  BY EndFacts
<1>4. Offered(e, i, "SYN_SENT", "NONE")
  BY <1>0, <1>1, <1>2 DEF FrameCustody
<1>5. PICK f \in Frame : f = hdr_encode("RST", i) /\ f.type = "RST" /\ f.id = i
  BY FrameFacts
<1>6. /\ chan'[e] = Tail(chan[e]) /\ chan'[p] = Append(chan[p], f)
      /\ Range(chan'[e]) \subseteq Range(chan[e])
      /\ Range(chan'[p]) = Range(chan[p]) \cup {f}
  BY <1>0, <1>1, <1>2, <1>3, <1>5, ReplyStep DEF RxRefuse
<1>7. UNCHANGED <<next_id, state, backlog, rx, rxid, pc, id>>
  BY DEF RxRefuse, receive, threads
<1>8. \A g \in Range(chan[p]) : g.id = i => g.type \notin Flagged
  <2>1. Carries(chan[e], {"SYN"}, i)
    BY <1>1, <1>2 DEF Carries
  <2>. QED
    BY <1>0, <1>3, <1>4, <2>1 DEF FrameCustody, Offered, Flagged
<1>9. \A g \in Range(chan'[e]) : g.id = i => g.type \notin Flagged
  <2>1. ~Carries(Tail(chan[e]), Flagged, i)
    BY <1>0, <1>1, <1>2, OneTail, ChanFacts DEF FrameCustody, Flagged
  <2>. QED
    BY <1>6, <2>1 DEF Carries
<1>10. \A d \in Ends : OnePerStream(chan'[d])
  <2>1. chan[e] \in Seq(Frame) /\ chan[p] \in Seq(Frame) /\ ~Carries(chan[p], Flagged, i)
        /\ OnePerStream(chan[e]) /\ OnePerStream(chan[p])
    BY <1>0, <1>8, ChanFacts DEF Carries, FrameCustody
  <2>2. OnePerStream(Tail(chan[e])) /\ OnePerStream(Append(chan[p], f))
    BY <1>1, <1>5, <2>1, OneTail, OneAppend
  <2>. QED
    BY <1>3, <1>6, <2>2
<1>11. At(i)'
  <2>1. FrameAt(i)'
    BY <1>3, <1>4, <1>5, <1>6, <1>7, <1>8, <1>9 DEF FrameAt, Offered, Carries, Flagged
  <2>2. ReceiveAt(i)' /\ QueueAt(i)' /\ AcceptAt(i)'
    BY <1>1, <1>4, <1>7, Whereabouts DEF ReceiveAt, QueueAt, AcceptAt, Offered, Holding
  <2>. QED
    BY <2>1, <2>2 DEF At
<1>12. FrameCustody' /\ ReceiveCustody' /\ QueueCustody' /\ AcceptCustody'
  BY <1>0, <1>3, <1>5, <1>6, <1>7, <1>10, <1>11, Elsewhere DEF QueueCustody, SameThread
<1>13. FreshCustody' /\ OpenCustody'
  BY <1>4, <1>7, OpenersKeep DEF Offered, SameThread
<1>. QED
  BY <1>12, <1>13 DEF Places

\* incoming_stream finds no duplicate, and the receive thread takes the id from
\* the SYN.
LEMMA RxSynInv ==
  ASSUME IInv, TypeOK', NEW e \in Ends, RxSyn(e)
  PROVE  Places'
<1>0. TypeOK /\ FrameCustody /\ QueueCustody
  BY DEF IInv, Custody
<1>1. chan[e] # << >> /\ Head(chan[e]).type = "SYN" /\ rx[e] = "idle"
  BY DEF RxSyn, Arrived
<1>2. PICK i \in Ids : i = Head(chan[e]).id /\ Head(chan[e]) \in Range(chan[e])
  BY <1>0, <1>1, ChanFacts
<1>3. PICK p \in Ends : p = Other(e) /\ Other(p) = e /\ p # e /\ \A d \in Ends : d = e \/ d = p
  BY EndFacts
<1>4. Offered(e, i, "SYN_SENT", "NONE")
  BY <1>0, <1>1, <1>2 DEF FrameCustody
<1>5. /\ Discard(e) /\ UNCHANGED <<next_id, state, backlog, pc, id>>
      /\ rx' = [rx EXCEPT ![e] = "new"] /\ rxid' = [rxid EXCEPT ![e] = i]
  BY <1>2, <1>4 DEF RxSyn, Offered, threads
<1>6. /\ rx'[e] = "new" /\ rxid'[e] = i
      /\ \A d \in Ends : d # e => rx'[d] = rx[d] /\ rxid'[d] = rxid[d]
  BY <1>0, <1>5 DEF TypeOK
<1>7. /\ chan'[e] = Tail(chan[e]) /\ chan'[p] = chan[p]
      /\ Range(chan'[e]) \subseteq Range(chan[e])
  BY <1>0, <1>1, <1>3, <1>5, DiscardStep
<1>8. \A g \in Range(chan[p]) : g.id = i => g.type \notin Flagged
  <2>1. Carries(chan[e], {"SYN"}, i)
    BY <1>1, <1>2 DEF Carries
  <2>. QED
    BY <1>0, <1>3, <1>4, <2>1 DEF FrameCustody, Offered, Flagged
<1>9. /\ \A g \in Range(chan'[e]) : g.id = i => g.type \notin Flagged
      /\ \A d \in Ends : OnePerStream(chan'[d])
  <2>1. ~Carries(Tail(chan[e]), Flagged, i) /\ OnePerStream(Tail(chan[e]))
    BY <1>0, <1>1, <1>2, OneTail, ChanFacts DEF FrameCustody, Flagged
  <2>. QED
    BY <1>0, <1>3, <1>7, <2>1 DEF Carries, FrameCustody
<1>10. At(i)'
  <2>1. FrameAt(i)'
    BY <1>3, <1>7, <1>8, <1>9 DEF FrameAt, Flagged
  <2>2. ReceiveAt(i)'
    <3>1. Offered(e, i, "SYN_SENT", "NONE")'
      BY <1>4, <1>5 DEF Offered
    <3>2. ~Carries(chan'[e], {"SYN"}, i) /\ ~Carries(chan'[p], {"RST"}, i)
      BY <1>7, <1>8, <1>9 DEF Carries, Flagged
    <3>3. rxid'[p] = i => rx'[p] \notin {"new", "init", "accept"}
      BY <1>3, <1>4, <1>6, Whereabouts DEF Offered
    <3>. QED
      BY <1>3, <1>6, <3>1, <3>2, <3>3 DEF ReceiveAt
  <2>3. QueueAt(i)' /\ AcceptAt(i)'
    BY <1>4, <1>5, Whereabouts DEF QueueAt, AcceptAt, Offered, Holding
  <2>. QED
    BY <2>1, <2>2, <2>3 DEF At
<1>11. FrameCustody' /\ ReceiveCustody' /\ QueueCustody' /\ AcceptCustody'
  BY <1>0, <1>3, <1>5, <1>6, <1>7, <1>9, <1>10, Elsewhere DEF QueueCustody, SameThread
<1>12. FreshCustody' /\ OpenCustody'
  BY <1>4, <1>5, OpenersKeep DEF Offered, SameThread
<1>. QED
  BY <1>11, <1>12 DEF Places

\* stream_new inserts the stream of the peer: the id is still free.
LEMMA RxNewInv ==
  ASSUME IInv, TypeOK', NEW e \in Ends, RxNew(e)
  PROVE  Places'
<1>0. TypeOK /\ FrameCustody /\ QueueCustody /\ ReceiveCustody
  BY DEF IInv, Custody
<1>1. PICK i \in Ids : i = rxid[e] /\ rx[e] = "new"
  BY <1>0 DEF RxNew, TypeOK
<1>2. PICK p \in Ends : p = Other(e) /\ Other(p) = e /\ p # e /\ \A d \in Ends : d = e \/ d = p
  BY EndFacts
<1>3. /\ Offered(e, i, "SYN_SENT", "NONE")
      /\ ~Carries(chan[e], {"SYN"}, i) /\ ~Carries(chan[p], {"RST"}, i)
  BY <1>0, <1>1, <1>2 DEF ReceiveCustody
<1>4. /\ state' = [state EXCEPT ![e][i] = "SYN_RECEIVED"] /\ rx' = [rx EXCEPT ![e] = "init"]
      /\ UNCHANGED <<next_id, chan, backlog, rxid, pc, id>>
  BY <1>1, <1>3 DEF RxNew, Offered, threads
<1>5. \A d \in Ends, j \in Ids :
        state'[d][j] = IF d = e /\ j = i THEN "SYN_RECEIVED" ELSE state[d][j]
  <2>1. "SYN_RECEIVED" \in States
    BY DEF States
  <2>. QED
    BY <1>0, <1>4, <2>1, StateStep
<1>6. rx'[e] = "init" /\ \A d \in Ends : d # e => rx'[d] = rx[d]
  BY <1>0, <1>4 DEF TypeOK
<1>7. At(i)'
  <2>1. \A d \in Ends : \A g \in Range(chan[d]) : g.id = i => g.type \notin Flagged
    BY <1>2, <1>3, Whereabouts DEF Offered, Carries, Flagged
  <2>2. FrameAt(i)'
    BY <1>4, <2>1 DEF FrameAt, Flagged
  <2>3. ReceiveAt(i)'
    <3>1. Offered(e, i, "SYN_SENT", "SYN_RECEIVED")'
      BY <1>2, <1>3, <1>5 DEF Offered
    <3>2. i \notin Range(backlog'[e]) /\ \A t \in Acceptors : pc'[t] = "find" => id'[t] # i
      BY <1>3, <1>4, Whereabouts DEF Offered
    <3>3. rxid'[p] = i => rx'[p] \notin {"new", "init", "accept"}
      BY <1>2, <1>3, <1>4, <1>6, Whereabouts DEF Offered
    <3>. QED
      BY <1>1, <1>2, <1>6, <3>1, <3>2, <3>3 DEF ReceiveAt
  <2>4. QueueAt(i)' /\ AcceptAt(i)'
    BY <1>3, <1>4, Whereabouts DEF QueueAt, AcceptAt, Offered, Holding
  <2>. QED
    BY <2>2, <2>3, <2>4 DEF At
<1>8. FrameCustody' /\ ReceiveCustody' /\ QueueCustody' /\ AcceptCustody'
  BY <1>0, <1>1, <1>4, <1>5, <1>6, <1>7, Elsewhere DEF QueueCustody, FrameCustody, SameThread
<1>9. FreshCustody' /\ OpenCustody'
  BY <1>3, <1>4, <1>5, OpenersKeep DEF Offered, SameThread
<1>. QED
  BY <1>8, <1>9 DEF Places

\* notify_accept puts the id into the socketpair, where it is not yet.
LEMMA RxNotifyAcceptInv ==
  ASSUME IInv, TypeOK', NEW e \in Ends, RxNotifyAccept(e)
  PROVE  Places'
<1>0. TypeOK /\ FrameCustody /\ QueueCustody /\ ReceiveCustody
  BY DEF IInv, Custody
<1>1. PICK i \in Ids : i = rxid[e] /\ rx[e] = "accept"
  BY <1>0 DEF RxNotifyAccept, TypeOK
<1>2. PICK p \in Ends : p = Other(e) /\ Other(p) = e /\ p # e /\ \A d \in Ends : d = e \/ d = p
  BY EndFacts
<1>3. /\ Offered(e, i, "SYN_SENT", "SYN_RECEIVED") /\ i \notin Range(backlog[e])
      /\ \A t \in Acceptors : Home[t] = e /\ pc[t] = "find" => id[t] # i
  BY <1>0, <1>1 DEF ReceiveCustody
<1>4. /\ backlog' = [backlog EXCEPT ![e] = Append(backlog[e], i)]
      /\ rx' = [rx EXCEPT ![e] = "idle"]
      /\ UNCHANGED <<next_id, state, chan, rxid, pc, id>>
  BY <1>1 DEF RxNotifyAccept, threads
<1>5. rx'[e] = "idle" /\ \A d \in Ends : d # e => rx'[d] = rx[d]
  BY <1>0, <1>4 DEF TypeOK
<1>6. /\ backlog'[p] = backlog[p] /\ Range(backlog'[e]) = Range(backlog[e]) \cup {i}
      /\ IsInjective(backlog'[e])
  <2>1. backlog'[p] = backlog[p] /\ backlog'[e] = Append(backlog[e], i)
    BY <1>0, <1>2, <1>4 DEF TypeOK
  <2>2. backlog[e] \in Seq(Ids) /\ IsInjective(backlog[e])
    BY <1>0 DEF TypeOK, QueueCustody
  <2>. QED
    BY <1>3, <2>1, <2>2, RangeFacts, InjectiveSteps
<1>7. At(i)'
  <2>1. FrameAt(i)'
    BY <1>3, <1>4, Whereabouts DEF FrameAt, Offered, Flagged
  <2>2. ReceiveAt(i)'
    BY <1>2, <1>3, <1>4, <1>5, Whereabouts DEF ReceiveAt, Offered
  <2>3. QueueAt(i)'
    BY <1>2, <1>3, <1>4, <1>6, Whereabouts DEF QueueAt, Offered
  <2>4. AcceptAt(i)'
    BY <1>3, <1>4, Whereabouts DEF AcceptAt, Offered, Holding
  <2>. QED
    BY <2>1, <2>2, <2>3, <2>4 DEF At
<1>8. FrameCustody' /\ ReceiveCustody' /\ QueueCustody' /\ AcceptCustody'
  BY <1>0, <1>2, <1>4, <1>5, <1>6, <1>7, Elsewhere DEF QueueCustody, FrameCustody, SameThread
<1>9. FreshCustody' /\ OpenCustody'
  BY <1>3, <1>4, OpenersKeep DEF Offered, SameThread
<1>. QED
  BY <1>8, <1>9 DEF Places

\* notify_accept fails: the stream, which nobody was told of, is freed.
LEMMA RxNotifyAcceptFailInv ==
  ASSUME IInv, TypeOK', NEW e \in Ends, RxNotifyAcceptFail(e)
  PROVE  Places'
<1>0. TypeOK /\ FrameCustody /\ QueueCustody /\ ReceiveCustody
  BY DEF IInv, Custody
<1>1. PICK i \in Ids : i = rxid[e] /\ rx[e] = "accept"
  BY <1>0 DEF RxNotifyAcceptFail, TypeOK
<1>2. PICK p \in Ends : p = Other(e) /\ Other(p) = e /\ p # e /\ \A d \in Ends : d = e \/ d = p
  BY EndFacts
<1>3. /\ Offered(e, i, "SYN_SENT", "SYN_RECEIVED") /\ i \notin Range(backlog[e])
      /\ \A t \in Acceptors : Home[t] = e /\ pc[t] = "find" => id[t] # i
  BY <1>0, <1>1 DEF ReceiveCustody
<1>4. 0 \in Ids
  BY WordFacts DEF Ids
<1>5. PICK f \in Frame : f = hdr_encode("GO_AWAY_ERR", 0) /\ f.type = "GO_AWAY_ERR"
  BY <1>4, FrameFacts
<1>6. /\ Queue(e, f) /\ rx' = [rx EXCEPT ![e] = "idle"]
      /\ state' = [state EXCEPT ![e][i] = "NONE"]
      /\ UNCHANGED <<next_id, backlog, rxid, pc, id>>
  BY <1>1, <1>5 DEF RxNotifyAcceptFail, GoAway, stream_free, SetState, threads
<1>7. \A d \in Ends, j \in Ids :
        state'[d][j] = IF d = e /\ j = i THEN "NONE" ELSE state[d][j]
  <2>1. "NONE" \in States
    BY DEF States
  <2>. QED
    BY <1>0, <1>6, <2>1, StateStep
<1>8. rx'[e] = "idle" /\ \A d \in Ends : d # e => rx'[d] = rx[d]
  BY <1>0, <1>6 DEF TypeOK
<1>9. /\ chan'[e] = chan[e] /\ chan'[p] = Append(chan[p], f)
      /\ Range(chan'[p]) = Range(chan[p]) \cup {f} /\ f.type \notin Flagged
  BY <1>0, <1>2, <1>5, <1>6, QueueStep DEF Flagged
<1>10. \A d \in Ends : OnePerStream(chan'[d])
  <2>1. chan[p] \in Seq(Frame) /\ OnePerStream(chan[p]) /\ OnePerStream(chan[e])
    BY <1>0, ChanFacts DEF FrameCustody
  <2>. QED
    BY <1>2, <1>9, <2>1, OneAppend
<1>11. \A d \in Ends : \A g \in Range(chan'[d]) : g.type \in Flagged => g \in Range(chan[d])
  BY <1>2, <1>9
<1>12. At(i)'
  <2>1. \A d \in Ends : \A g \in Range(chan'[d]) : g.id = i => g.type \notin Flagged
    <3>1. \A d \in Ends : \A g \in Range(chan[d]) : g.id = i => g.type \notin Flagged
      BY <1>3, Whereabouts DEF Offered, Flagged
    <3>. QED
      BY <1>11, <3>1
  <2>2. FrameAt(i)'
    BY <2>1 DEF FrameAt, Flagged
  <2>3. ReceiveAt(i)' /\ QueueAt(i)' /\ AcceptAt(i)'
    BY <1>2, <1>3, <1>6, <1>8, Whereabouts DEF ReceiveAt, QueueAt, AcceptAt, Offered, Holding
  <2>. QED
    BY <2>2, <2>3 DEF At
<1>13. FrameCustody' /\ ReceiveCustody' /\ QueueCustody' /\ AcceptCustody'
  BY <1>0, <1>6, <1>7, <1>8, <1>10, <1>12, <1>11, Elsewhere DEF QueueCustody, SameThread
<1>14. FreshCustody' /\ OpenCustody'
  BY <1>3, <1>6, <1>7, OpenersKeep DEF Offered, SameThread
<1>. QED
  BY <1>13, <1>14 DEF Places

\* stream_process_flags: the answer to a SYN ends the handshake.
LEMMA RxFlagsInv ==
  ASSUME IInv, TypeOK', NEW e \in Ends, RxFlags(e)
  PROVE  Places'
<1>0. TypeOK /\ FrameCustody /\ QueueCustody /\ ReceiveCustody /\ AcceptCustody
  BY DEF IInv, Custody
<1>1. chan[e] # << >> /\ Head(chan[e]).type \in {"ACK", "RST"}
  BY DEF RxFlags, Arrived
<1>2. PICK i \in Ids : i = Head(chan[e]).id /\ Head(chan[e]) \in Range(chan[e])
  BY <1>0, <1>1, ChanFacts
<1>3. PICK p \in Ends : p = Other(e) /\ Other(p) = e /\ p # e /\ \A d \in Ends : d = e \/ d = p
  BY EndFacts
<1>4. /\ Head(chan[e]).type = "ACK" =>
           Offered(p, i, "SYN_SENT", "ESTABLISHED") /\ Carries(chan[e], {"ACK"}, i)
      /\ Head(chan[e]).type = "RST" =>
           /\ Offered(p, i, "SYN_SENT", "NONE") /\ Carries(chan[e], {"RST"}, i)
           /\ ~Carries(chan[p], {"SYN"}, i)
  BY <1>0, <1>2, <1>3 DEF FrameCustody, Carries
<1>5. Opener(i) = e /\ state[e][i] = "SYN_SENT"
  BY <1>1, <1>3, <1>4 DEF Offered
<1>6. /\ state'[e][i] = IF Head(chan[e]).type = "ACK" THEN "ESTABLISHED" ELSE "RESET"
      /\ \A d \in Ends, j \in Ids : ~(d = e /\ j = i) => state'[d][j] = state[d][j]
  BY <1>0, <1>1, <1>2, <1>5 DEF RxFlags, SetState, FlagsState, TypeOK
<1>7. Discard(e) /\ UNCHANGED <<next_id, backlog, rx, rxid, pc, id>>
  BY DEF RxFlags, receive, threads
<1>8. /\ chan'[e] = Tail(chan[e]) /\ chan'[p] = chan[p]
      /\ Range(chan'[e]) \subseteq Range(chan[e])
  BY <1>0, <1>1, <1>3, <1>7, DiscardStep
<1>9. /\ \A g \in Range(chan'[e]) : g.id = i => g.type \notin Flagged
      /\ \A d \in Ends : OnePerStream(chan'[d])
  <2>1. ~Carries(Tail(chan[e]), Flagged, i) /\ OnePerStream(Tail(chan[e]))
    BY <1>0, <1>1, <1>2, OneTail, ChanFacts DEF FrameCustody, Flagged
  <2>. QED
    BY <1>0, <1>3, <1>8, <2>1 DEF Carries, FrameCustody
<1>10. At(i)'
  <2>1. \A g \in Range(chan[p]) : g.id = i => g.type \notin Flagged
    BY <1>1, <1>3, <1>4, <1>5, Whereabouts DEF Offered, Carries, Flagged
  <2>2. FrameAt(i)'
    BY <1>3, <1>8, <1>9, <2>1 DEF FrameAt, Flagged
  <2>3. \A d \in Ends : rxid[d] = i => rx[d] \notin {"new", "init", "accept"}
    <3>1. \A d \in Ends : rxid[d] = i /\ rx[d] = "new" =>
            d = p /\ state[p][i] = "NONE" /\ ~Carries(chan[e], {"RST"}, i)
      BY <1>0, <1>3, <1>5, Whereabouts DEF ReceiveCustody
    <3>2. \A d \in Ends : rxid[d] = i /\ rx[d] \in {"init", "accept"} =>
            state[p][i] = "SYN_RECEIVED"
      BY <1>3, <1>5, Whereabouts
    <3>. QED
      BY <1>1, <1>4, <3>1, <3>2 DEF Offered
  <2>4. \A d \in Ends : i \notin Range(backlog[d])
    BY <1>1, <1>3, <1>4, <1>5, Whereabouts DEF Offered
  <2>5. \A t \in Acceptors : id[t] = i => ~Holding(t)
    <3>1. \A t \in Acceptors : id[t] = i /\ pc[t] = "queue" =>
            state[p][i] = "ESTABLISHED" /\ ~Carries(chan[e], {"ACK"}, i)
      BY <1>0, <1>3, <1>5, Whereabouts DEF AcceptCustody
    <3>2. \A t \in Acceptors : id[t] = i /\ pc[t] = "find" => state[p][i] = "SYN_RECEIVED"
      BY <1>3, <1>5, Whereabouts
    <3>3. \A t \in Acceptors : Holding(t) => pc[t] \in {"find", "queue"}
      BY <1>0 DEF AcceptCustody, Holding
    <3>. QED
      BY <1>1, <1>4, <3>1, <3>2, <3>3 DEF Offered
  <2>6. ReceiveAt(i)' /\ QueueAt(i)' /\ AcceptAt(i)'
    BY <1>7, <2>3, <2>4, <2>5 DEF ReceiveAt, QueueAt, AcceptAt, Holding
  <2>. QED
    BY <2>2, <2>6 DEF At
<1>11. FrameCustody' /\ ReceiveCustody' /\ QueueCustody' /\ AcceptCustody'
  BY <1>0, <1>3, <1>6, <1>7, <1>8, <1>9, <1>10, Elsewhere DEF QueueCustody, SameThread
<1>12. FreshCustody' /\ OpenCustody'
  BY <1>5, <1>6, <1>7, OpenersKeep DEF SameThread
<1>. QED
  BY <1>11, <1>12 DEF Places

\* session_accept takes an id from the socketpair, for itself alone.
LEMMA AcceptReadInv ==
  ASSUME IInv, TypeOK', NEW t \in Threads, AcceptRead(t)
  PROVE  Places'
<1>0. TypeOK /\ FrameCustody /\ QueueCustody /\ ReceiveCustody /\ AcceptCustody
  BY DEF IInv, Custody
<1>1. t \in Acceptors /\ t \notin Openers
  BY ThreadFacts DEF AcceptRead
<1>2. PICK e \in Ends : e = Home[t]
  BY ThreadFacts
<1>3. PICK p \in Ends : p = Other(e) /\ Other(p) = e /\ p # e /\ \A d \in Ends : d = e \/ d = p
  BY EndFacts
<1>4. backlog[e] \in Seq(Ids) /\ backlog[e] # << >> /\ IsInjective(backlog[e])
  BY <1>0, <1>2 DEF AcceptRead, TypeOK, QueueCustody
<1>5. PICK i \in Ids : i = Head(backlog[e]) /\ i \in Range(backlog[e])
  BY <1>4, RangeFacts
<1>6. Offered(e, i, "SYN_SENT", "SYN_RECEIVED")
  BY <1>0, <1>5 DEF QueueCustody
<1>7. /\ pc'[t] = "find" /\ id'[t] = i /\ \A u \in Threads \ {t} : SameThread(u)
      /\ backlog'[e] = Tail(backlog[e]) /\ backlog'[p] = backlog[p]
      /\ UNCHANGED <<next_id, state, chan, rx, rxid>>
  BY <1>0, <1>2, <1>3, <1>5 DEF AcceptRead, TypeOK, SameThread, receive
<1>8. /\ IsInjective(backlog'[e]) /\ i \notin Range(backlog'[e])
      /\ Range(backlog'[e]) \subseteq Range(backlog[e])
  BY <1>4, <1>5, <1>7, RangeFacts, InjectiveSteps
<1>9. \A u \in Acceptors : id[u] = i => ~Holding(u)
  BY <1>0, <1>2, <1>5, <1>6, Whereabouts DEF Offered, AcceptCustody
<1>10. \A u \in Acceptors \ {t} : pc'[u] = pc[u] /\ id'[u] = id[u]
  BY <1>7, ThreadFacts DEF SameThread
<1>11. At(i)'
  <2>1. FrameAt(i)'
    BY <1>6, <1>7, Whereabouts DEF FrameAt, Offered, Flagged
  <2>2. ReceiveAt(i)'
    BY <1>0, <1>3, <1>5, <1>6, <1>7, Whereabouts DEF ReceiveAt, Offered, ReceiveCustody
  <2>3. QueueAt(i)'
    BY <1>3, <1>6, <1>7, <1>8, Whereabouts DEF QueueAt, Offered
  <2>4. AcceptAt(i)'
    BY <1>2, <1>6, <1>7, <1>8, <1>9, <1>10 DEF AcceptAt, Offered, Holding
  <2>. QED
    BY <2>1, <2>2, <2>3, <2>4 DEF At
<1>12. FrameCustody' /\ ReceiveCustody' /\ QueueCustody' /\ AcceptCustody'
  BY <1>0, <1>3, <1>7, <1>8, <1>10, <1>11, Elsewhere DEF QueueCustody, FrameCustody, SameThread
<1>13. FreshCustody' /\ OpenCustody'
  <2>1. \A u \in Openers : SameThread(u)
    BY <1>1, <1>7, ThreadFacts
  <2>. QED
    BY <1>6, <1>7, <2>1, OpenersKeep DEF Offered
<1>. QED
  BY <1>12, <1>13 DEF Places

\* session_accept finds the stream and establishes it.
LEMMA AcceptFindInv ==
  ASSUME IInv, TypeOK', NEW t \in Threads, AcceptFind(t)
  PROVE  Places'
<1>0. TypeOK /\ FrameCustody /\ QueueCustody /\ ReceiveCustody /\ AcceptCustody
  BY DEF IInv, Custody
<1>1. t \in Acceptors /\ t \notin Openers /\ pc[t] = "find"
  BY ThreadFacts DEF AcceptFind
<1>2. PICK e \in Ends : e = Home[t]
  BY ThreadFacts
<1>3. PICK p \in Ends : p = Other(e) /\ Other(p) = e /\ p # e /\ \A d \in Ends : d = e \/ d = p
  BY EndFacts
<1>4. PICK i \in Ids : i = id[t]
  BY <1>0 DEF TypeOK
<1>5. Offered(e, i, "SYN_SENT", "SYN_RECEIVED") /\ i \notin Range(backlog[e])
  BY <1>0, <1>1, <1>2, <1>4 DEF AcceptCustody
<1>6. /\ state' = [state EXCEPT ![e][i] = "ESTABLISHED"] /\ Goto(t, "queue")
      /\ UNCHANGED <<next_id, chan, backlog, rx, rxid>>
  BY <1>2, <1>4, <1>5 DEF AcceptFind, Offered, receive
<1>7. pc'[t] = "queue" /\ id'[t] = i /\ \A u \in Threads \ {t} : SameThread(u)
  BY <1>0, <1>4, <1>6, GotoStep
<1>8. \A d \in Ends, j \in Ids :
        state'[d][j] = IF d = e /\ j = i THEN "ESTABLISHED" ELSE state[d][j]
  <2>1. "ESTABLISHED" \in States
    BY DEF States
  <2>. QED
    BY <1>0, <1>6, <2>1, StateStep
<1>9. \A u \in Acceptors \ {t} :
        /\ pc'[u] = pc[u] /\ id'[u] = id[u]
        /\ id[u] = i => ~Holding(u)
  <2>1. Holding(t)
    BY <1>1 DEF Holding
  <2>2. \A u \in Acceptors \ {t} : id[u] = i /\ Holding(u) => Home[u] = e
    BY <1>5, Whereabouts DEF Offered
  <2>. QED
    BY <1>0, <1>1, <1>2, <1>4, <1>7, <2>1, <2>2, ThreadFacts DEF SameThread, AcceptCustody
<1>10. At(i)'
  <2>1. \A d \in Ends : \A g \in Range(chan[d]) : g.id = i => g.type \notin Flagged
    BY <1>5, Whereabouts DEF Offered, Flagged
  <2>2. FrameAt(i)'
    BY <1>6, <2>1 DEF FrameAt, Flagged
  <2>3. \A d \in Ends : rxid[d] = i => rx[d] \notin {"new", "init", "accept"}
    BY <1>0, <1>1, <1>2, <1>4, <1>5, Whereabouts DEF Offered, ReceiveCustody
  <2>4. ReceiveAt(i)'
    BY <1>6, <2>3 DEF ReceiveAt
  <2>5. QueueAt(i)'
    BY <1>3, <1>5, <1>6, Whereabouts DEF QueueAt, Offered
  <2>6. AcceptAt(i)'
    <3>1. Offered(e, i, "SYN_SENT", "ESTABLISHED")' /\ ~Carries(chan'[p], {"ACK"}, i)
      BY <1>3, <1>5, <1>6, <1>8, <2>1 DEF Offered, Carries, Flagged
    <3>. QED
      BY <1>2, <1>3, <1>7, <1>9, <3>1 DEF AcceptAt, Holding
  <2>. QED
    BY <2>2, <2>4, <2>5, <2>6 DEF At
<1>11. FrameCustody' /\ ReceiveCustody' /\ QueueCustody' /\ AcceptCustody'
  BY <1>0, <1>6, <1>7, <1>8, <1>9, <1>10, Elsewhere DEF QueueCustody, FrameCustody, SameThread
<1>12. FreshCustody' /\ OpenCustody'
  <2>1. \A u \in Openers : SameThread(u)
    BY <1>1, <1>7, ThreadFacts
  <2>. QED
    BY <1>5, <1>6, <1>8, <2>1, OpenersKeep DEF Offered
<1>. QED
  BY <1>11, <1>12 DEF Places

\* session_accept sends the only answer.
LEMMA AcceptQueueInv ==
  ASSUME IInv, TypeOK', NEW t \in Threads, AcceptQueue(t)
  PROVE  Places'
<1>0. TypeOK /\ FrameCustody /\ QueueCustody /\ ReceiveCustody /\ AcceptCustody
  BY DEF IInv, Custody
<1>1. t \in Acceptors /\ t \notin Openers /\ pc[t] = "queue"
  BY ThreadFacts DEF AcceptQueue
<1>2. PICK e \in Ends : e = Home[t]
  BY ThreadFacts
<1>3. PICK p \in Ends : p = Other(e) /\ Other(p) = e /\ p # e /\ \A d \in Ends : d = e \/ d = p
  BY EndFacts
<1>4. PICK i \in Ids : i = id[t]
  BY <1>0 DEF TypeOK
<1>5. Offered(e, i, "SYN_SENT", "ESTABLISHED") /\ ~Carries(chan[p], {"ACK"}, i)
  BY <1>0, <1>1, <1>2, <1>3, <1>4 DEF AcceptCustody
<1>6. PICK f \in Frame : f = hdr_encode("ACK", i) /\ f.type = "ACK" /\ f.id = i
  BY FrameFacts
<1>7. /\ Queue(e, f) /\ Goto(t, "idle") /\ UNCHANGED <<next_id, state, backlog, rx, rxid>>
  BY <1>2, <1>4, <1>6 DEF AcceptQueue, receive
<1>8. pc'[t] = "idle" /\ \A u \in Threads \ {t} : SameThread(u)
  BY <1>0, <1>7, GotoStep
<1>9. /\ chan'[e] = chan[e] /\ chan'[p] = Append(chan[p], f)
      /\ Range(chan'[p]) = Range(chan[p]) \cup {f}
  BY <1>0, <1>3, <1>7, QueueStep
<1>10. \A u \in Acceptors \ {t} :
         /\ pc'[u] = pc[u] /\ id'[u] = id[u]
         /\ id[u] = i => ~Holding(u)
  <2>1. Holding(t)
    BY <1>1 DEF Holding
  <2>2. \A u \in Acceptors \ {t} : id[u] = i /\ Holding(u) => Home[u] = e
    BY <1>5, Whereabouts DEF Offered
  <2>. QED
    BY <1>0, <1>1, <1>2, <1>4, <1>8, <2>1, <2>2, ThreadFacts DEF SameThread, AcceptCustody
<1>11. \A d \in Ends : \A g \in Range(chan[d]) : g.id = i => g.type \notin Flagged
  BY <1>3, <1>5, Whereabouts DEF Offered, Flagged, Carries
<1>12. \A d \in Ends : OnePerStream(chan'[d])
  <2>1. /\ chan[p] \in Seq(Frame) /\ OnePerStream(chan[p]) /\ OnePerStream(chan[e])
        /\ ~Carries(chan[p], Flagged, i)
    BY <1>0, <1>11, ChanFacts DEF FrameCustody, Carries
  <2>. QED
    BY <1>3, <1>6, <1>9, <2>1, OneAppend
<1>13. At(i)'
  <2>1. FrameAt(i)'
    <3>1. Offered(e, i, "SYN_SENT", "ESTABLISHED")'
      BY <1>5, <1>7 DEF Offered
    <3>. QED
      BY <1>3, <1>6, <1>9, <1>11, <3>1 DEF FrameAt, Flagged
  <2>2. ReceiveAt(i)' /\ QueueAt(i)'
    BY <1>5, <1>7, Whereabouts DEF ReceiveAt, QueueAt, Offered
  <2>3. AcceptAt(i)'
    BY <1>8, <1>10 DEF AcceptAt, Holding
  <2>. QED
    BY <2>1, <2>2, <2>3 DEF At
<1>14. FrameCustody' /\ ReceiveCustody' /\ QueueCustody' /\ AcceptCustody'
  BY <1>0, <1>3, <1>6, <1>7, <1>8, <1>9, <1>10, <1>12, <1>13, Elsewhere
     DEF QueueCustody, SameThread
<1>15. FreshCustody' /\ OpenCustody'
  <2>1. \A u \in Openers : SameThread(u)
    BY <1>1, <1>8, ThreadFacts
  <2>. QED
    BY <1>5, <1>7, <2>1, OpenersKeep DEF Offered
<1>. QED
  BY <1>14, <1>15 DEF Places

\* send_window_update sends the SYN of a stream that nobody else knows.
LEMMA OpenQueueInv ==
  ASSUME IInv, TypeOK', NEW t \in Threads, OpenQueue(t)
  PROVE  Places'
<1>0. TypeOK /\ FrameCustody /\ QueueCustody /\ ReceiveCustody /\ AcceptCustody
  BY DEF IInv, Custody
<1>1. t \in Openers /\ t \notin Acceptors /\ pc[t] = "queue"
  BY ThreadFacts DEF OpenQueue
<1>2. PICK e \in Ends : e = Home[t]
  BY ThreadFacts
<1>3. PICK p \in Ends : p = Other(e) /\ Other(p) = e /\ p # e /\ \A d \in Ends : d = e \/ d = p
  BY EndFacts
<1>4. PICK i \in Ids : i = id[t]
  BY <1>0 DEF TypeOK
<1>5. Opener(i) = e /\ state[e][i] = "INIT" /\ state[p][i] = "NONE"
  BY <1>1, <1>2, <1>3, <1>4, OpenerHolds
<1>6. PICK f \in Frame : f = hdr_encode("SYN", i) /\ f.type = "SYN" /\ f.id = i
  BY FrameFacts
<1>7. /\ Queue(e, f) /\ Goto(t, "idle") /\ state' = [state EXCEPT ![e][i] = "SYN_SENT"]
      /\ UNCHANGED <<next_id, backlog, rx, rxid>>
  BY <1>2, <1>4, <1>6 DEF OpenQueue, SetState, receive
<1>8. pc'[t] = "idle" /\ \A u \in Threads \ {t} : SameThread(u)
  BY <1>0, <1>7, GotoStep
<1>9. \A d \in Ends, j \in Ids :
        state'[d][j] = IF d = e /\ j = i THEN "SYN_SENT" ELSE state[d][j]
  <2>1. "SYN_SENT" \in States
    BY DEF States
  <2>. QED
    BY <1>0, <1>7, <2>1, StateStep
<1>10. /\ chan'[e] = chan[e] /\ chan'[p] = Append(chan[p], f)
       /\ Range(chan'[p]) = Range(chan[p]) \cup {f}
  BY <1>0, <1>3, <1>7, QueueStep
<1>11. /\ \A d \in Ends : \A g \in Range(chan[d]) : g.type \in Flagged => g.id # i
       /\ \A d \in Ends : rx[d] \in {"new", "init", "accept"} => rxid[d] # i
       /\ \A d \in Ends : i \notin Range(backlog[d])
       /\ \A u \in Acceptors : pc[u] \in {"find", "queue"} => id[u] # i
  BY <1>5, Private
<1>12. \A u \in Acceptors : pc'[u] = pc[u] /\ id'[u] = id[u]
  BY <1>1, <1>8, ThreadFacts DEF SameThread
<1>13. \A d \in Ends : OnePerStream(chan'[d])
  <2>1. /\ chan[p] \in Seq(Frame) /\ OnePerStream(chan[p]) /\ OnePerStream(chan[e])
        /\ ~Carries(chan[p], Flagged, i)
    BY <1>0, <1>11, ChanFacts DEF FrameCustody, Carries
  <2>. QED
    BY <1>3, <1>6, <1>10, <2>1, OneAppend
<1>14. At(i)'
  <2>1. FrameAt(i)'
    <3>1. Offered(p, i, "SYN_SENT", "NONE")'
      BY <1>3, <1>5, <1>9 DEF Offered
    <3>. QED
      BY <1>3, <1>6, <1>10, <1>11, <3>1 DEF FrameAt, Flagged
  <2>2. ReceiveAt(i)' /\ QueueAt(i)'
    BY <1>7, <1>11 DEF ReceiveAt, QueueAt
  <2>3. \A u \in Acceptors : Holding(u) => pc[u] \in {"find", "queue"}
    BY <1>0 DEF AcceptCustody, Holding
  <2>4. AcceptAt(i)'
    BY <1>11, <1>12, <2>3 DEF AcceptAt, Holding
  <2>. QED
    BY <2>1, <2>2, <2>4 DEF At
<1>15. FrameCustody' /\ ReceiveCustody' /\ QueueCustody' /\ AcceptCustody'
  <2>1. \A d \in Ends : \A g \in Range(chan'[d]) : g.id # i => g \in Range(chan[d])
    BY <1>3, <1>6, <1>10
  <2>. QED
    BY <1>0, <1>7, <1>9, <1>12, <1>13, <1>14, <2>1, Elsewhere DEF QueueCustody, SameThread
<1>16. FreshCustody' /\ OpenCustody'
  BY <1>1, <1>2, <1>4, <1>7, <1>8, <1>9, OpenerMoves
<1>. QED
  BY <1>15, <1>16 DEF Places

\* A frame without a flag is about no stream.
LEMMA QuietQueue ==
  ASSUME TypeOK, FrameCustody, NEW e \in Ends, NEW f \in Frame, f.type \notin Flagged,
         Queue(e, f)
  PROVE  \A d \in Ends :
           /\ OnePerStream(chan'[d])
           /\ \A g \in Range(chan'[d]) : g.type \in Flagged => g \in Range(chan[d])
<1>1. PICK p \in Ends : p = Other(e) /\ \A d \in Ends : d = e \/ d = p
  BY EndFacts
<1>2. /\ chan'[e] = chan[e] /\ chan'[p] = Append(chan[p], f)
      /\ Range(chan'[p]) = Range(chan[p]) \cup {f}
  BY <1>1, QueueStep
<1>3. OnePerStream(Append(chan[p], f)) /\ OnePerStream(chan[e])
  BY OneAppend, ChanFacts DEF FrameCustody
<1>4. \A g \in Range(chan'[p]) : g.type \in Flagged => g \in Range(chan[p])
  BY <1>2
<1>5. OnePerStream(chan'[p]) /\ OnePerStream(chan'[e])
  BY <1>2, <1>3
<1>. QED
  BY <1>1, <1>2, <1>4, <1>5

\* The other steps of session_open and session_accept move no stream on.
LEMMA ThreadGiveUp ==
  ASSUME IInv, TypeOK', NEW t \in Threads,
         \/ OpenCheck(t) \/ OpenInit(t) \/ OpenNewFail(t)
         \/ AcceptReadFail(t) \/ AcceptQueueFail(t)
  PROVE  Places'
<1>0. TypeOK /\ FrameCustody /\ Home[t] \in Ends
  BY ThreadFacts DEF IInv, Custody
<1>1. /\ UNCHANGED <<next_id, state, backlog, rx, rxid>>
      /\ \A u \in Threads \ {t} : SameThread(u)
  BY <1>0 DEF OpenCheck, OpenInit, OpenNewFail, AcceptReadFail, AcceptQueueFail, Goto,
              TypeOK, SameThread, receive
<1>2. t \in Openers => \/ pc'[t] \in {"idle", "load"}
                       \/ pc[t] = "init" /\ pc'[t] = "queue" /\ id'[t] = id[t]
  BY <1>0, ThreadFacts DEF OpenCheck, OpenInit, OpenNewFail, AcceptReadFail,
                           AcceptQueueFail, Goto, TypeOK
<1>3. t \in Acceptors => pc'[t] \in {"idle", "failed"}
  BY <1>0, ThreadFacts DEF OpenCheck, OpenInit, OpenNewFail, AcceptReadFail,
                           AcceptQueueFail, Goto, TypeOK
<1>4. \A d \in Ends : /\ OnePerStream(chan'[d])
                      /\ \A f \in Range(chan'[d]) : f.type \in Flagged => f \in Range(chan[d])
  <2>1. CASE AcceptReadFail(t)
    <3>1. PICK f \in Frame : f = hdr_encode("GO_AWAY_ERR", 0) /\ f.type = "GO_AWAY_ERR"
      BY FrameFacts, WordFacts DEF Ids
    <3>2. Queue(Home[t], f)
      BY <2>1, <3>1 DEF AcceptReadFail, GoAway
    <3>3. f.type \notin Flagged
      BY <3>1 DEF Flagged
    <3>. QED
      BY <1>0, <3>2, <3>3, QuietQueue
  <2>2. CASE UNCHANGED chan
    BY <1>0, <2>2 DEF FrameCustody
  <2>. QED
    BY <2>1, <2>2 DEF OpenCheck, OpenInit, OpenNewFail, AcceptQueueFail
<1>. QED
  BY <1>1, <1>2, <1>3, <1>4, ThreadFacts, GiveUp

\* Nor do the other steps of the receive thread, and session_go_away.
LEMMA RxGiveUp ==
  ASSUME IInv, TypeOK', NEW e \in Ends,
         \/ RxRefuseFail(e) \/ RxInit(e) \/ RxNewFail(e) \/ RxGoAway(e)
         \/ SessionGoAway(e) \/ SessionGoAwayFail(e)
  PROVE  Places'
<1>0. TypeOK /\ FrameCustody
  BY DEF IInv, Custody
<1>1. /\ UNCHANGED <<next_id, state, backlog, pc, id, rxid>>
      /\ \A d \in Ends : \/ rx'[d] = rx[d] \/ rx'[d] = "dead"
                         \/ rx[d] = "init" /\ rx'[d] = "accept"
  BY <1>0 DEF RxRefuseFail, RxInit, RxNewFail, RxGoAway, SessionGoAway,
              SessionGoAwayFail, TypeOK, receive, threads
<1>2. \A d \in Ends : /\ OnePerStream(chan'[d])
                      /\ \A f \in Range(chan'[d]) : f.type \in Flagged => f \in Range(chan[d])
  <2>1. CASE RxNewFail(e) \/ SessionGoAway(e)
    <3>1. PICK f \in Frame : Queue(e, f) /\ f.type \notin Flagged
      <4>1. \A type \in {"GO_AWAY", "GO_AWAY_ERR"} :
              hdr_encode(type, 0) \in Frame /\ hdr_encode(type, 0).type \notin Flagged
        BY FrameFacts, WordFacts DEF Ids, Flagged
      <4>. QED
        BY <2>1, <4>1 DEF RxNewFail, SessionGoAway, GoAway
    <3>. QED
      BY <1>0, <3>1, QuietQueue
  <2>2. CASE UNCHANGED chan
    BY <1>0, <2>2 DEF FrameCustody
  <2>3. CASE chan[e] # << >> /\ Discard(e)
    <3>1. /\ chan'[e] = Tail(chan[e]) /\ chan'[Other(e)] = chan[Other(e)]
          /\ Range(chan'[e]) \subseteq Range(chan[e])
      BY <1>0, <2>3, DiscardStep
    <3>2. OnePerStream(Tail(chan[e]))
      BY <1>0, <2>3, OneTail, ChanFacts DEF FrameCustody
    <3>. QED
      BY <1>0, <3>1, <3>2, EndFacts DEF FrameCustody
  <2>. QED
    BY <2>1, <2>2, <2>3 DEF RxRefuseFail, RxInit, RxGoAway, SessionGoAwayFail, Arrived
<1>. QED
  BY <1>1, <1>2, GiveUp DEF SameThread

\* Every step keeps every id in its place.
LEMMA PlacesInv ==
  ASSUME IInv, TypeOK', NoWrap', [Next]_vars
  PROVE  Places'
<1>1. CASE UNCHANGED vars
  <2>1. UNCHANGED <<next_id, state, chan, backlog, rx, rxid, pc, id>>
    BY <1>1 DEF vars, progress, receive, threads
  <2>2. \A d \in Ends : OnePerStream(chan'[d])
    BY <2>1 DEF IInv, Custody, FrameCustody
  <2>. QED
    BY <2>1, <2>2, GiveUp DEF SameThread
<1>2. CASE \E t \in Threads : OpenCheck(t) \/ OpenStep(t) \/ AcceptStep(t) \/ ThreadFail(t)
  BY <1>2, ThreadGiveUp, OpenLoadInv, OpenCasInv, OpenNewInv, OpenQueueInv, AcceptReadInv,
     AcceptFindInv, AcceptQueueInv DEF OpenStep, AcceptStep, ThreadFail
<1>3. CASE \E e \in Ends : RxStep(e) \/ RxFail(e) \/ SessionGoAway(e) \/ SessionGoAwayFail(e)
  BY <1>3, RxGiveUp, RxRefuseInv, RxSynInv, RxNewInv, RxNotifyAcceptInv, RxFlagsInv,
     RxNotifyAcceptFailInv DEF RxStep, RxFail
<1>. QED
  BY <1>1, <1>2, <1>3 DEF Next

\* Without a failure nothing ends a session: no SYN is a duplicate.
LEMMA ErrorInv ==
  ASSUME IInv, [Next]_vars
  PROVE  ErrorCustody'
<1>0. TypeOK /\ FrameCustody /\ ErrorCustody
  BY DEF IInv, Custody
<1> DEFINE Sound == \A d \in Ends : /\ rx'[d] # "dead"
                                    /\ \A f \in Range(chan'[d]) : f.type # "GO_AWAY_ERR"
<1> SUFFICES ASSUME failure' # "came" PROVE Sound
  BY DEF ErrorCustody
<1>1. /\ failure # "came"
      /\ \/ \E t \in Threads : OpenCheck(t) \/ OpenStep(t) \/ AcceptStep(t)
         \/ \E e \in Ends : RxStep(e) \/ SessionGoAway(e)
         \/ UNCHANGED <<chan, rx>>
  BY DEF Next, vars, progress, receive
<1>2. \A d \in Ends : rx[d] # "dead" /\ \A f \in Range(chan[d]) : f.type # "GO_AWAY_ERR"
  BY <1>0, <1>1 DEF ErrorCustody
<1>3. CASE UNCHANGED <<chan, rx>>
  BY <1>2, <1>3
<1>4. ASSUME NEW e \in Ends, NEW f \in Frame, Queue(e, f), f.type # "GO_AWAY_ERR", UNCHANGED rx
      PROVE  Sound
  <2>1. PICK p \in Ends : p = Other(e) /\ \A d \in Ends : d = e \/ d = p
    BY EndFacts
  <2>2. chan'[e] = chan[e] /\ Range(chan'[p]) = Range(chan[p]) \cup {f}
    BY <1>0, <1>4, <2>1, QueueStep
  <2>. QED
    BY <1>2, <1>4, <2>1, <2>2
<1>5. ASSUME NEW e \in Ends, chan[e] # << >>, Discard(e), \A d \in Ends : rx'[d] # "dead"
      PROVE  Sound
  <2>1. PICK p \in Ends : p = Other(e) /\ \A d \in Ends : d = e \/ d = p
    BY EndFacts
  <2>2. chan'[p] = chan[p] /\ Range(chan'[e]) \subseteq Range(chan[e])
    BY <1>0, <1>5, <2>1, DiscardStep
  <2>. QED
    BY <1>2, <1>5, <2>1, <2>2
<1>6. ASSUME NEW t \in Threads, OpenCheck(t) \/ OpenStep(t) \/ AcceptStep(t)
      PROVE  Sound
  <2>1. Home[t] \in Ends /\ id[t] \in Ids
    BY <1>0, ThreadFacts DEF TypeOK
  <2>2. \A type \in {"SYN", "ACK"} : /\ hdr_encode(type, id[t]) \in Frame
                                     /\ hdr_encode(type, id[t]).type # "GO_AWAY_ERR"
    BY <2>1, FrameFacts
  <2>3. CASE OpenQueue(t) \/ AcceptQueue(t)
    BY <1>4, <2>1, <2>2, <2>3 DEF OpenQueue, AcceptQueue, receive
  <2>4. CASE ~(OpenQueue(t) \/ AcceptQueue(t))
    BY <1>3, <1>6, <2>4 DEF OpenCheck, OpenStep, OpenLoad, OpenCas, OpenNew, OpenInit,
                            AcceptStep, AcceptRead, AcceptFind, receive
  <2>. QED
    BY <2>3, <2>4
<1>7. ASSUME NEW e \in Ends, RxStep(e) \/ SessionGoAway(e)
      PROVE  Sound
  <2>1. CASE SessionGoAway(e)
    <3>1. hdr_encode("GO_AWAY", 0) \in Frame /\ hdr_encode("GO_AWAY", 0).type = "GO_AWAY"
      BY FrameFacts, WordFacts DEF Ids
    <3>. QED
      BY <1>4, <2>1, <3>1 DEF SessionGoAway, GoAway, receive
  <2>2. CASE RxRefuse(e)
    <3>1. chan[e] # << >> /\ Head(chan[e]).id \in Ids
      BY <1>0, <2>2, ChanFacts DEF RxRefuse, Arrived
    <3>2. PICK f \in Frame : f = hdr_encode("RST", Head(chan[e]).id) /\ f.type = "RST"
      BY <3>1, FrameFacts
    <3>3. Reply(e, f) /\ UNCHANGED rx
      BY <2>2, <3>2 DEF RxRefuse, receive
    <3>4. PICK p \in Ends : p = Other(e) /\ \A d \in Ends : d = e \/ d = p
      BY EndFacts
    <3>5. /\ Range(chan'[e]) \subseteq Range(chan[e])
          /\ Range(chan'[p]) = Range(chan[p]) \cup {f}
      BY <1>0, <3>1, <3>3, <3>4, ReplyStep
    <3>. QED
      BY <1>2, <3>2, <3>3, <3>4, <3>5
  <2>3. CASE RxSyn(e)
    <3>1. chan[e] # << >> /\ Head(chan[e]).type = "SYN" /\ Head(chan[e]) \in Range(chan[e])
      BY <1>0, <2>3, ChanFacts DEF RxSyn, Arrived
    <3>2. state[e][Head(chan[e]).id] = "NONE"
      BY <1>0, <3>1 DEF FrameCustody, Offered
    <3>3. Discard(e) /\ rx' = [rx EXCEPT ![e] = "new"]
      BY <2>3, <3>2 DEF RxSyn
    <3>4. \A d \in Ends : rx'[d] # "dead"
      BY <1>0, <1>2, <3>3 DEF TypeOK
    <3>. QED
      BY <1>5, <3>1, <3>3, <3>4
  <2>4. CASE RxFlags(e)
    <3>1. chan[e] # << >> /\ Discard(e) /\ UNCHANGED rx
      BY <2>4 DEF RxFlags, Arrived, receive
    <3>. QED
      BY <1>2, <1>5, <3>1
  <2>5. CASE RxGoAway(e)
    <3>1. chan[e] # << >> /\ Discard(e) /\ Head(chan[e]) \in Range(chan[e])
      BY <1>0, <2>5, ChanFacts DEF RxGoAway, Arrived
    <3>2. UNCHANGED rx
      BY <1>2, <2>5, <3>1 DEF RxGoAway
    <3>. QED
      BY <1>2, <1>5, <3>1, <3>2
  <2>6. CASE RxNew(e) \/ RxInit(e) \/ RxNotifyAccept(e)
    <3>1. UNCHANGED chan /\ \A d \in Ends : rx'[d] # "dead"
      BY <1>0, <1>2, <2>6 DEF RxNew, RxInit, RxNotifyAccept, TypeOK
    <3>. QED
      BY <1>2, <3>1
  <2>. QED
    BY <1>7, <2>1, <2>2, <2>3, <2>4, <2>5, <2>6 DEF RxStep
<1>. QED
  BY <1>1, <1>3, <1>6, <1>7

\* At the beginning no id is anywhere.
LEMMA InitInv == Init => IInv
<1> SUFFICES ASSUME Init PROVE IInv
  OBVIOUS
<1>1. 0 \in Ids /\ 1 \in Ids /\ 2 \in Ids
  BY WordFacts DEF Ids
<1>2. TypeOK
  BY <1>1, SessionAssumption DEF SessionAssumption, Init, TypeOK, States, PCs, Ends
<1>3. \A e \in Ends : /\ chan[e] = << >> /\ backlog[e] = << >> /\ rx[e] = "idle"
                      /\ \A i \in Ids : state[e][i] = "NONE"
  BY DEF Init
<1>4. \A t \in Threads : pc[t] = "idle"
  BY DEF Init
<1>5. \A e \in Ends : /\ Range(chan[e]) = {} /\ Range(backlog[e]) = {}
                      /\ Len(chan[e]) = 0 /\ DOMAIN backlog[e] = {}
  BY <1>3 DEF Range
<1>6. FreshCustody
  BY <1>1, <1>3, OpenerFacts, EndFacts DEF FreshCustody, Init, Ends
<1>7. OpenCustody /\ AcceptCustody
  BY <1>4, ThreadFacts DEF OpenCustody, AcceptCustody, Holding
<1>8. FrameCustody /\ ReceiveCustody /\ QueueCustody /\ ErrorCustody
  <2>1. \A e \in Ends : OnePerStream(chan[e]) /\ IsInjective(backlog[e])
    BY <1>5 DEF OnePerStream, IsInjective
  <2>. QED
    BY <1>3, <1>5, <2>1 DEF FrameCustody, ReceiveCustody, QueueCustody, ErrorCustody
<1>. QED
  BY <1>2, <1>6, <1>7, <1>8 DEF IInv, Custody

\* Custody is inductive as long as the server's ids do not wrap.
LEMMA NextInv == IInv /\ [Next]_vars /\ NoWrap' => IInv'
<1> SUFFICES ASSUME IInv, [Next]_vars, NoWrap' PROVE IInv'
  OBVIOUS
<1>1. TypeOK'
  BY TypeInv DEF IInv
<1>2. Places' /\ ErrorCustody'
  BY <1>1, PlacesInv, ErrorInv
<1>. QED
  BY <1>1, <1>2 DEF IInv, Custody, Places

-----------------------------------------------------------------------------
(* Theorems. *)

\* Every variable keeps its type, for any number of threads and ids, with and
\* without wrapped ids: next_id stays an uint32_t whatever mux.c adds to it.
THEOREM TypeCorrect == Spec => []TypeOK
<1>1. Init => TypeOK
  BY InitInv DEF IInv
<1>. QED
  BY <1>1, TypeInv, PTL DEF Spec

\* Every id is in one place at a time, for any number of threads of either end,
\* any Backlog and any failure, while the server's ids have not wrapped.
THEOREM CustodyCorrect == Spec /\ []NoWrap => []Custody
<1>1. IInv => Custody
  BY DEF IInv
<1>. QED
  BY <1>1, InitInv, NextInv, PTL DEF Spec

\* No assertion of mux.c about streams fails (mux.c:88, mux.c:1093), and no
\* mutex is locked before it is initialised (mux.c:276).
THEOREM AbortFree == Spec /\ []NoWrap => []NoAbort
<1>1. IInv => NoAbort
  <2> SUFFICES ASSUME IInv PROVE NoAbort
    OBVIOUS
  <2>0. TypeOK /\ OpenCustody /\ FrameCustody /\ ReceiveCustody /\ AcceptCustody
    BY DEF IInv, Custody
  <2>1. \A t \in Threads : pc[t] # "abort"
    BY <2>0 DEF OpenCustody, AcceptCustody, Threads
  <2>2. \A e \in Ends : rx[e] # "abort"
    BY <2>0 DEF ReceiveCustody
  <2>3. ASSUME NEW e \in Ends, NEW i \in Ids, Raw(e, i)
        PROVE  \/ Opener(i) = e /\ state[e][i] = "INIT"
               \/ Opener(i) = Other(e) /\ state[e][i] = "SYN_RECEIVED" /\ rx[e] = "init" /\ rxid[e] = i
    BY <2>0, <2>3 DEF Raw, OpenCustody, ReceiveCustody, Offered
  <2>4. ASSUME NEW t \in Threads, pc[t] \in {"find", "queue"} PROVE ~Raw(Home[t], id[t])
    <3>1. Home[t] \in Ends /\ Other(Home[t]) # Home[t] /\ id[t] \in Ids
      BY <2>0, ThreadFacts, EndFacts DEF TypeOK
    <3>2. CASE t \in Openers
      <4>1. /\ Opener(id[t]) = Home[t] /\ state[Home[t]][id[t]] = "INIT"
            /\ pc[t] = "queue"
        BY <2>0, <2>4, <3>2 DEF OpenCustody
      <4>2. \A u \in Openers : pc[u] = "init" => id[u] # id[t]
        BY <2>0, <3>2, <4>1 DEF OpenCustody, Holding
      <4>3. rx[Home[t]] = "init" => rxid[Home[t]] # id[t]
        BY <2>0, <3>1, <4>1 DEF ReceiveCustody, Offered
      <4>. QED
        BY <4>2, <4>3 DEF Raw
    <3>3. CASE t \in Acceptors
      <4>1. /\ Opener(id[t]) = Other(Home[t]) /\ state[Home[t]][id[t]] # "INIT"
            /\ pc[t] = "find" \/ state[Home[t]][id[t]] = "ESTABLISHED"
        BY <2>0, <2>4, <3>3 DEF AcceptCustody, Offered
      <4>2. rx[Home[t]] = "init" /\ pc[t] = "find" => rxid[Home[t]] # id[t]
        BY <2>0, <3>1, <3>3 DEF ReceiveCustody
      <4>. QED
        BY <2>3, <3>1, <4>1, <4>2
    <3>. QED
      BY <3>2, <3>3 DEF Threads
  <2>5. ASSUME NEW e \in Ends, Arrived(e, {"ACK", "RST"}) PROVE ~Raw(e, Head(chan[e]).id)
    <3>1. Head(chan[e]) \in Range(chan[e]) /\ Head(chan[e]).id \in Ids
      BY <2>0, <2>5, ChanFacts DEF Arrived
    <3>2. state[e][Head(chan[e]).id] = "SYN_SENT"
      BY <2>0, <2>5, <3>1, EndFacts DEF Arrived, FrameCustody, Offered
    <3>. QED
      BY <2>3, <3>1, <3>2
  <2>. QED
    BY <2>1, <2>2, <2>4, <2>5 DEF NoAbort
<1>. QED
  BY <1>1, InitInv, NextInv, PTL DEF Spec

\* While nothing fails no session ends, in particular not because incoming_stream
\* takes a stream for a duplicate (mux.c:727).
THEOREM DuplicateFree == Spec /\ []NoWrap => []NoDuplicate
<1>1. IInv => NoDuplicate
  BY DEF IInv, Custody, ErrorCustody, NoDuplicate
<1>. QED
  BY <1>1, InitInv, NextInv, PTL DEF Spec

\* Ids are handed to one thread of an end: the compare-and-swap of session_open
\* and the socketpair of session_accept never give an id to two.
THEOREM OwnerUnique == Spec /\ []NoWrap => []OneOwner
<1>1. IInv => OneOwner
  <2> SUFFICES ASSUME IInv, NEW t \in Threads, NEW u \in Threads, t # u,
                      Home[t] = Home[u], Holding(t), Holding(u)
               PROVE  id[t] # id[u]
    BY DEF OneOwner
  <2>0. OpenCustody /\ AcceptCustody
    BY DEF IInv, Custody
  <2>1. CASE t \in Openers /\ u \in Openers
    BY <2>0, <2>1 DEF OpenCustody
  <2>2. CASE t \in Acceptors /\ u \in Acceptors
    BY <2>0, <2>2 DEF AcceptCustody
  <2>3. \A v \in Openers : Holding(v) => Opener(id[v]) = Home[v]
    BY <2>0 DEF OpenCustody, Holding
  <2>4. \A v \in Acceptors : Holding(v) => Opener(id[v]) = Other(Home[v])
    BY <2>0 DEF AcceptCustody, Holding, Offered
  <2>5. Other(Home[t]) # Home[t]
    BY ThreadFacts, EndFacts
  <2>. QED
    BY <2>1, <2>2, <2>3, <2>4, <2>5 DEF Threads
<1>. QED
  BY <1>1, InitInv, NextInv, PTL DEF Spec

\* Only the compare-and-swap of session_open writes next_id.
LEMMA OnlyCas ==
  ASSUME Next
  PROVE  \/ UNCHANGED next_id
         \/ \E t \in Openers : OpenCas(t) /\ CasSucceeds(t)
<1>1. ASSUME NEW t \in Threads, OpenStep(t)
      PROVE  UNCHANGED next_id \/ (t \in Openers /\ OpenCas(t) /\ CasSucceeds(t))
  BY <1>1 DEF OpenStep, OpenLoad, OpenCas, OpenNew, OpenInit, OpenQueue
<1>2. ASSUME NEW t \in Threads, OpenCheck(t) \/ AcceptStep(t) PROVE UNCHANGED next_id
  BY <1>2 DEF OpenCheck, AcceptStep, AcceptRead, AcceptFind, AcceptQueue
<1>3. ASSUME NEW t \in Threads, ThreadFail(t) PROVE UNCHANGED next_id
  BY <1>3 DEF ThreadFail, OpenNewFail, OpenQueueFail, AcceptReadFail, AcceptQueueFail
<1>4. ASSUME NEW e \in Ends, RxStep(e) PROVE UNCHANGED next_id
  BY <1>4 DEF RxStep, RxRefuse, RxSyn, RxNew, RxInit, RxNotifyAccept, RxFlags, RxGoAway
<1>5. ASSUME NEW e \in Ends, RxFail(e) \/ SessionGoAway(e) \/ SessionGoAwayFail(e)
      PROVE  UNCHANGED next_id
  BY <1>5 DEF RxFail, RxRefuseFail, RxNewFail, RxNotifyAcceptFail, SessionGoAway,
              SessionGoAwayFail
<1>. QED
  BY <1>1, <1>2, <1>3, <1>4, <1>5 DEF Next

\* A thread about to exchange has just loaded next_id, or did so earlier.
LEMMA CasIds ==
  ASSUME TypeOK, Next, NEW t \in Openers, pc'[t] = "cas"
  PROVE  \/ pc[t] = "cas" /\ id'[t] = id[t]
         \/ /\ ~Exhausted(next_id[Home[t]]) /\ id'[t] = next_id[Home[t]]
            /\ UNCHANGED next_id
<1> DEFINE Goal == \/ pc[t] = "cas" /\ id'[t] = id[t]
                   \/ /\ ~Exhausted(next_id[Home[t]]) /\ id'[t] = next_id[Home[t]]
                      /\ UNCHANGED next_id
<1>0. /\ t \in Threads /\ t \notin Acceptors
      /\ pc \in [Threads -> PCs] /\ id \in [Threads -> Ids]
  BY ThreadFacts DEF TypeOK
<1>1. ASSUME NEW u \in Threads, OpenLoad(u) PROVE Goal
  <2>1. CASE u = t
    BY <1>0, <1>1, <2>1 DEF OpenLoad, Goto
  <2>2. CASE u # t
    BY <1>0, <1>1, <2>2 DEF OpenLoad, Goto
  <2>. QED
    BY <2>1, <2>2
<1>2. ASSUME NEW u \in Threads, UNCHANGED <<id, calls>>, NEW l, pc' = [pc EXCEPT ![u] = l],
             l # "cas"
      PROVE  Goal
  BY <1>0, <1>2
<1>3. ASSUME NEW u \in Threads, OpenCas(u) PROVE Goal
  BY <1>2, <1>3 DEF OpenCas, Goto
<1>4. ASSUME NEW u \in Threads, OpenNew(u) \/ OpenInit(u) \/ OpenQueue(u) PROVE Goal
  BY <1>2, <1>4 DEF OpenNew, OpenInit, OpenQueue, Goto
<1>5. ASSUME NEW u \in Threads, OpenCheck(u) PROVE Goal
  BY <1>0, <1>5 DEF OpenCheck
<1>6. ASSUME NEW u \in Threads, AcceptRead(u) PROVE Goal
  BY <1>0, <1>6 DEF AcceptRead
<1>7. ASSUME NEW u \in Threads, AcceptFind(u) \/ AcceptQueue(u) PROVE Goal
  BY <1>2, <1>7 DEF AcceptFind, AcceptQueue, Goto
<1>8. ASSUME NEW u \in Threads, ThreadFail(u) PROVE Goal
  BY <1>2, <1>8 DEF ThreadFail, OpenNewFail, OpenQueueFail, AcceptReadFail, AcceptQueueFail, Goto
<1>9. ASSUME NEW e \in Ends, RxStep(e) \/ RxFail(e) \/ SessionGoAway(e) \/ SessionGoAwayFail(e)
      PROVE  UNCHANGED threads
  <2>1. CASE RxStep(e)
    BY <2>1 DEF RxStep, RxRefuse, RxSyn, RxNew, RxInit, RxNotifyAccept, RxFlags, RxGoAway
  <2>2. CASE RxFail(e) \/ SessionGoAway(e) \/ SessionGoAwayFail(e)
    BY <2>2 DEF RxFail, RxRefuseFail, RxNewFail, RxNotifyAcceptFail, SessionGoAway,
                SessionGoAwayFail
  <2>. QED
    BY <1>9, <2>1, <2>2
<1>10. CASE UNCHANGED threads
  BY <1>10 DEF threads
<1>. QED
  BY <1>1, <1>3, <1>4, <1>5, <1>6, <1>7, <1>8, <1>9, <1>10 DEF Next, OpenStep, AcceptStep

\* The client gives out odd ids, and a thread of it that is about to exchange holds
\* an odd id that passed the test for exhaustion.
ClientIds ==
  /\ Opener(next_id["c"]) = "c"
  /\ \A t \in Openers :
       Home[t] = "c" /\ pc[t] = "cas" => ~Exhausted(id[t]) /\ Opener(id[t]) = "c"

\* No step of any thread takes the client's next_id back.
LEMMA ClientStep ==
  ASSUME TypeOK, ClientIds, Next
  PROVE  ClientIds' /\ next_id'["c"] >= next_id["c"]
<1>0. /\ "c" \in Ends /\ next_id \in [Ends -> Ids] /\ next_id["c"] \in Nat
  BY WordFacts DEF TypeOK, Ends, Ids
<1>1. /\ next_id'["c"] >= next_id["c"] /\ Opener(next_id'["c"]) = "c"
  <2>1. CASE UNCHANGED next_id
    BY <1>0, <2>1 DEF ClientIds
  <2>2. ASSUME NEW t \in Openers, OpenCas(t), CasSucceeds(t)
        PROVE  next_id'["c"] >= next_id["c"] /\ Opener(next_id'["c"]) = "c"
    <3>1. next_id' = [next_id EXCEPT ![Home[t]] = NextId(id[t])] /\ pc[t] = "cas"
          /\ next_id[Home[t]] = id[t]
      BY <2>2 DEF OpenCas, CasSucceeds
    <3>2. CASE Home[t] # "c"
      BY <1>0, <3>1, <3>2 DEF ClientIds
    <3>3. CASE Home[t] = "c"
      <4>1. id[t] \in Ids /\ id[t] \in Nat /\ ~Exhausted(id[t]) /\ Opener(id[t]) = "c"
        BY <1>0, <3>1, <3>3 DEF ClientIds
      <4>2. NextId(id[t]) = id[t] + 2 /\ Opener(NextId(id[t])) = "c"
        BY <4>1, NextIdFacts
      <4>3. next_id'["c"] = NextId(id[t])
        BY <1>0, <3>1, <3>3
      <4>. QED
        BY <3>1, <3>3, <4>1, <4>2, <4>3
    <3>. QED
      BY <3>2, <3>3
  <2>. QED
    BY <2>1, <2>2, OnlyCas
<1>2. ASSUME NEW t \in Openers, Home[t] = "c", pc'[t] = "cas"
      PROVE  ~Exhausted(id'[t]) /\ Opener(id'[t]) = "c"
  BY <1>2, CasIds DEF ClientIds
<1>. QED
  BY <1>1, <1>2 DEF ClientIds

\* The client's next_id never goes back, however many of its threads race for ids
\* and whatever the server and the failures do: nothing is assumed of wrapping.
THEOREM ClientIdsOnlyAscend == Spec => ClientIdsAscend
<1>1. Init => ClientIds
  BY OpenerFacts DEF Init, ClientIds, Ends, Threads
<1>2. TypeOK /\ ClientIds /\ [Next]_vars => ClientIds' /\ [next_id'["c"] >= next_id["c"]]_vars
  <2> SUFFICES ASSUME TypeOK, ClientIds, [Next]_vars
               PROVE  ClientIds' /\ [next_id'["c"] >= next_id["c"]]_vars
    OBVIOUS
  <2>1. CASE Next
    BY <2>1, ClientStep
  <2>2. CASE UNCHANGED vars
    BY <2>2 DEF vars, progress, threads, ClientIds
  <2>. QED
    BY <2>1, <2>2
<1>. QED
  BY <1>1, <1>2, TypeCorrect, PTL DEF Spec, ClientIdsAscend

\* The hypothesis of these theorems holds wherever only the client opens streams,
\* however many.
THEOREM ClientOpens ==
  ASSUME \A t \in Openers : Home[t] = "c"
  PROVE  Spec => []NoWrap
<1> DEFINE Two == next_id \in [Ends -> Ids] /\ next_id["s"] = 2
<1>1. Init => Two
  BY InitInv DEF Init, Ends, IInv, TypeOK
<1>2. TypeOK /\ Two /\ [Next]_vars => Two'
  <2> SUFFICES ASSUME TypeOK, Two, [Next]_vars PROVE Two'
    OBVIOUS
  <2>1. TypeOK'
    BY TypeInv
  <2>2. next_id' \in [Ends -> Ids]
    BY <2>1 DEF TypeOK
  <2>3. CASE UNCHANGED next_id
    BY <2>3
  <2>4. ASSUME NEW t \in Openers, OpenCas(t), CasSucceeds(t) PROVE Two'
    <3>1. next_id' = [next_id EXCEPT !["c"] = NextId(id[t])] /\ "s" \in Ends
      BY <2>4 DEF OpenCas, Ends
    <3>2. next_id'["s"] = next_id["s"]
      BY <3>1
    <3>. QED
      BY <2>2, <3>2
  <2>. QED
    BY <2>3, <2>4, OnlyCas DEF vars, progress
<1>3. Two => NoWrap
  BY DEF NoWrap
<1>. QED
  BY <1>1, <1>2, <1>3, TypeCorrect, PTL DEF Spec

-----------------------------------------------------------------------------
(* Refinement. *)

\* The stream i changes its state at end e, alone, and along the handshake.
Changes(e, i) ==
  /\ \A d \in Ends, j \in Ids : ~(d = e /\ j = i) => state'[d][j] = state[d][j]
  /\ \/ /\ Opener(i) = e /\ state[Other(e)][i] = "NONE"
        /\ <<state[e][i], state'[e][i]>> \in
             {<<"NONE", "INIT">>, <<"INIT", "NONE">>, <<"INIT", "SYN_SENT">>,
              <<"SYN_SENT", "RESET">>}
     \/ /\ Opener(i) = e /\ state[Other(e)][i] = "ESTABLISHED"
        /\ state[e][i] = "SYN_SENT" /\ state'[e][i] = "ESTABLISHED"
     \/ /\ Opener(i) = Other(e) /\ state[Other(e)][i] = "SYN_SENT"
        /\ <<state[e][i], state'[e][i]>> \in
             {<<"NONE", "SYN_RECEIVED">>, <<"SYN_RECEIVED", "NONE">>,
              <<"SYN_RECEIVED", "ESTABLISHED">>}

\* A stream's state changes at one end at a time, in one of eight ways.
LEMMA StateMoves ==
  ASSUME IInv, [Next]_vars
  PROVE  UNCHANGED state \/ \E e \in Ends, i \in Ids : Changes(e, i)
<1>0. TypeOK /\ FrameCustody /\ ReceiveCustody /\ AcceptCustody
  BY DEF IInv, Custody
<1>1. ASSUME NEW t \in Threads, OpenNew(t) \/ OpenQueue(t) \/ OpenQueueFail(t)
      PROVE  Changes(Home[t], id[t])
  <2>1. /\ t \in Openers /\ Home[t] \in Ends /\ id[t] \in Ids
        /\ pc[t] = IF OpenNew(t) THEN "new" ELSE "queue"
    BY <1>0, <1>1, ThreadFacts DEF OpenNew, OpenQueue, OpenQueueFail, TypeOK
  <2>2. /\ Opener(id[t]) = Home[t] /\ state[Other(Home[t])][id[t]] = "NONE"
        /\ state[Home[t]][id[t]] = IF pc[t] = "new" THEN "NONE" ELSE "INIT"
    BY <2>1, OpenerHolds
  <2>3. PICK st \in {"INIT", "NONE", "SYN_SENT"} :
          /\ state' = [state EXCEPT ![Home[t]][id[t]] = st]
          /\ <<state[Home[t]][id[t]], st>> \in
               {<<"NONE", "INIT">>, <<"INIT", "NONE">>, <<"INIT", "SYN_SENT">>}
    BY <1>1, <2>1, <2>2 DEF OpenNew, OpenQueue, OpenQueueFail, stream_free, SetState
  <2>4. st \in States
    BY DEF States
  <2>5. \A d \in Ends, j \in Ids :
          state'[d][j] = IF d = Home[t] /\ j = id[t] THEN st ELSE state[d][j]
    BY <1>0, <2>1, <2>3, <2>4, StateStep
  <2>. QED
    BY <2>1, <2>2, <2>3, <2>5 DEF Changes
<1>2. ASSUME NEW t \in Threads, AcceptFind(t) PROVE Changes(Home[t], id[t])
  <2>1. t \in Acceptors /\ Home[t] \in Ends /\ id[t] \in Ids /\ pc[t] = "find"
    BY <1>0, <1>2, ThreadFacts DEF AcceptFind, TypeOK
  <2>2. Offered(Home[t], id[t], "SYN_SENT", "SYN_RECEIVED")
    BY <1>0, <2>1 DEF AcceptCustody
  <2>3. state' = [state EXCEPT ![Home[t]][id[t]] = "ESTABLISHED"] /\ "ESTABLISHED" \in States
    BY <1>2, <2>2 DEF AcceptFind, Offered, States
  <2>4. \A d \in Ends, j \in Ids :
          state'[d][j] = IF d = Home[t] /\ j = id[t] THEN "ESTABLISHED" ELSE state[d][j]
    BY <1>0, <2>1, <2>3, StateStep
  <2>. QED
    BY <2>1, <2>2, <2>4 DEF Changes, Offered
<1>3. ASSUME NEW e \in Ends, RxNew(e) PROVE Changes(e, rxid[e])
  <2>1. rxid[e] \in Ids /\ Offered(e, rxid[e], "SYN_SENT", "NONE")
    BY <1>0, <1>3 DEF RxNew, ReceiveCustody, TypeOK
  <2>2. state' = [state EXCEPT ![e][rxid[e]] = "SYN_RECEIVED"] /\ "SYN_RECEIVED" \in States
    BY <1>3, <2>1 DEF RxNew, Offered, States
  <2>3. \A d \in Ends, j \in Ids :
          state'[d][j] = IF d = e /\ j = rxid[e] THEN "SYN_RECEIVED" ELSE state[d][j]
    BY <1>0, <2>1, <2>2, StateStep
  <2>. QED
    BY <2>1, <2>3 DEF Changes, Offered
<1>4. ASSUME NEW e \in Ends, RxNotifyAcceptFail(e) PROVE Changes(e, rxid[e])
  <2>1. rxid[e] \in Ids /\ Offered(e, rxid[e], "SYN_SENT", "SYN_RECEIVED")
    BY <1>0, <1>4 DEF RxNotifyAcceptFail, ReceiveCustody, TypeOK
  <2>2. state' = [state EXCEPT ![e][rxid[e]] = "NONE"] /\ "NONE" \in States
    BY <1>4 DEF RxNotifyAcceptFail, stream_free, SetState, States
  <2>3. \A d \in Ends, j \in Ids :
          state'[d][j] = IF d = e /\ j = rxid[e] THEN "NONE" ELSE state[d][j]
    BY <1>0, <2>1, <2>2, StateStep
  <2>. QED
    BY <2>1, <2>3 DEF Changes, Offered
<1>5. ASSUME NEW e \in Ends, RxFlags(e) PROVE Changes(e, Head(chan[e]).id)
  <2> DEFINE i == Head(chan[e]).id
  <2>1. /\ Head(chan[e]) \in Range(chan[e]) /\ i \in Ids
        /\ Head(chan[e]).type \in {"ACK", "RST"}
    BY <1>0, <1>5, ChanFacts DEF RxFlags, Arrived
  <2>2. /\ Opener(i) = e /\ state[e][i] = "SYN_SENT"
        /\ state[Other(e)][i] = IF Head(chan[e]).type = "ACK" THEN "ESTABLISHED" ELSE "NONE"
    BY <1>0, <2>1, EndFacts DEF FrameCustody, Offered
  <2>3. /\ state'[e][i] = IF Head(chan[e]).type = "ACK" THEN "ESTABLISHED" ELSE "RESET"
        /\ \A d \in Ends, j \in Ids : ~(d = e /\ j = i) => state'[d][j] = state[d][j]
    BY <1>0, <1>5, <2>1, <2>2 DEF RxFlags, SetState, FlagsState, TypeOK
  <2>. QED
    BY <2>1, <2>2, <2>3 DEF Changes
<1>6. \/ UNCHANGED state
      \/ \E t \in Threads : OpenNew(t) \/ OpenQueue(t) \/ OpenQueueFail(t) \/ AcceptFind(t)
      \/ \E e \in Ends : RxNew(e) \/ RxNotifyAcceptFail(e) \/ RxFlags(e)
  BY DEF Next, OpenCheck, OpenStep, OpenLoad, OpenCas, OpenInit, AcceptStep, AcceptRead,
         AcceptQueue, ThreadFail, OpenNewFail, AcceptReadFail, AcceptQueueFail, RxStep,
         RxRefuse, RxSyn, RxInit, RxNotifyAccept, RxGoAway, RxFail, RxRefuseFail, RxNewFail,
         SessionGoAway, SessionGoAwayFail, vars, progress
<1>7. /\ \A t \in Threads : Home[t] \in Ends /\ id[t] \in Ids
      /\ \A e \in Ends : rxid[e] \in Ids
      /\ \A e \in Ends : RxFlags(e) => Head(chan[e]).id \in Ids
  BY <1>0, ThreadFacts, ChanFacts DEF TypeOK, RxFlags, Arrived
<1>. QED
  BY <1>1, <1>2, <1>3, <1>4, <1>5, <1>6, <1>7

\* The two sessions together implement the handshake of module Handshake, for
\* any number of threads and streams: session_open learns that its stream was
\* accepted or refused only after session_accept or incoming_stream decided.
THEOREM HandshakeRefined == Spec /\ []NoWrap => ImplementsHandshake
<1>1. Init => H!HInit
  BY EndFacts, OpenerFacts DEF Init, H!HInit, PhaseOf
<1>2. IInv /\ [Next]_vars => [H!HNext]_([i \in Ids |-> PhaseOf(i)])
  <2> SUFFICES ASSUME IInv, [Next]_vars
               PROVE  [H!HNext]_([i \in Ids |-> PhaseOf(i)])
    OBVIOUS
  <2>1. CASE UNCHANGED state
    BY <2>1 DEF PhaseOf
  <2>2. ASSUME NEW e \in Ends, NEW i \in Ids, Changes(e, i)
        PROVE  [H!HNext]_([k \in Ids |-> PhaseOf(k)])
    <3>1. Other(e) \in Ends /\ Other(e) # e /\ Other(Other(e)) = e
      BY EndFacts
    <3>2. \A k \in Ids : k # i => PhaseOf(k)' = PhaseOf(k)
      BY <2>2, EndFacts, OpenerFacts DEF Changes, PhaseOf
    <3>3. \/ PhaseOf(i)' = PhaseOf(i)
          \/ <<PhaseOf(i), PhaseOf(i)'>> \in H!Moves
      BY <2>2, <3>1 DEF Changes, PhaseOf, H!Moves
    <3>4. CASE PhaseOf(i)' = PhaseOf(i)
      BY <3>2, <3>4
    <3>5. CASE <<PhaseOf(i), PhaseOf(i)'>> \in H!Moves
      BY <3>2, <3>5 DEF H!HNext
    <3>. QED
      BY <3>3, <3>4, <3>5
  <2>. QED
    BY <2>1, <2>2, StateMoves
<1>. QED
  BY <1>1, <1>2, InitInv, NextInv, PTL DEF Spec, ImplementsHandshake, H!HSpec

=============================================================================
