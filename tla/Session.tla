------------------------------ MODULE Session ------------------------------
(***************************************************************************)
(* The streams of a session: threads of both ends call session_open and    *)
(* session_accept, and the receive threads (session_process) create the    *)
(* streams that the other end opens.  Module Stream follows one stream     *)
(* through its life; here are many, and what matters is their ids: the     *)
(* compare-and-swap on next_id, the tree of streams, the SYN, ACK and RST  *)
(* on the wire, the socketpair that hands ids to session_accept, and the   *)
(* assertions of mux.c about them.                                         *)
(*                                                                         *)
(* An atomic step is one critical section or one atomic operation of C.    *)
(***************************************************************************)
EXTENDS Integers, Sequences, Functions

CONSTANTS
  Word,                 \* 2^32: ids are uint32_t
  Openers, Acceptors,   \* threads that call session_open, session_accept
  Home,                 \* the end each thread runs on
  Calls,                \* bound: calls of session_open by each opener
  Backlog,              \* ids the session's socketpair holds
  GoAways,              \* ends whose application may call session_go_away
  Failures              \* "may": an allocation or a local write or read may
                        \* fail, once in a run; "never": nothing fails

Ends == {"c", "s"}
Other(e) == IF e = "c" THEN "s" ELSE "c"
Threads == Openers \cup Acceptors
Ids == 0 .. Word - 1

ASSUME SessionAssumption ==
  /\ Word \in Nat /\ Word > 4 /\ Word % 2 = 0
  /\ Home \in [Threads -> Ends] /\ Openers \cap Acceptors = {}
  /\ Calls \in [Openers -> Nat] /\ Backlog \in Nat \ {0}
  /\ GoAways \subseteq Ends /\ Failures \subseteq {"may", "never"}

States == {"NONE", "INIT", "SYN_SENT", "SYN_RECEIVED", "ESTABLISHED", "RESET"}

\* A frame is [type, id]: the WINDOW_UPDATEs that carry SYN, ACK and RST are
\* told apart by their flag, a GO_AWAY by its code.
Frame == [type : {"SYN", "ACK", "RST", "GO_AWAY", "GO_AWAY_ERR"}, id : Ids]
hdr_encode(type, id) == [type |-> type, id |-> id]

VARIABLES
  next_id,
  state,          \* per end and id; "NONE": not in the tree
  chan,           \* frames on their way to the end, in order
  backlog,        \* ids in the end's accept socketpair
  rx, rxid,       \* where the receive thread is, and the id it works on
  local_go_away, remote_go_away,
  pc, id,         \* per thread: position and the local `id'
  calls,          \* per opener: calls made
  failure         \* "never" in this run, it "may" come, or it "came"

threads == <<pc, id, calls>>
receive == <<rx, rxid>>
goaways == <<local_go_away, remote_go_away>>
progress == <<next_id, state, chan, backlog, receive, goaways, threads>>
vars == <<progress, failure>>

Init ==
  /\ next_id = [e \in Ends |-> IF e = "c" THEN 1 ELSE 2]
  /\ state = [e \in Ends |-> [i \in Ids |-> "NONE"]]
  /\ chan = [e \in Ends |-> << >>] /\ backlog = [e \in Ends |-> << >>]
  /\ rx = [e \in Ends |-> "idle"] /\ rxid = [e \in Ends |-> 0]
  /\ local_go_away = [e \in Ends |-> FALSE]
  /\ remote_go_away = [e \in Ends |-> FALSE]
  /\ pc = [t \in Threads |-> "idle"] /\ id = [t \in Threads |-> 0]
  /\ calls = [t \in Openers |-> 0]
  /\ failure \in Failures

Goto(t, label) == pc' = [pc EXCEPT ![t] = label] /\ UNCHANGED <<id, calls>>
SetState(e, i, st) == state' = [state EXCEPT ![e][i] = st]

\* The stream leaves the tree.
stream_free(e, i) == SetState(e, i, "NONE")

Queue(e, f) == chan' = [chan EXCEPT ![Other(e)] = Append(@, f)]
Reply(e, f) == chan' = [chan EXCEPT ![e] = Tail(@), ![Other(e)] = Append(@, f)]
Discard(e) == chan' = [chan EXCEPT ![e] = Tail(@)]

\* session_go_away_for_reason; local_go_away is set even if the header fails to
\* queue, which its callers ignore.
GoAway(e, type) ==
  /\ local_go_away' = [local_go_away EXCEPT ![e] = TRUE]
  /\ Queue(e, hdr_encode(type, 0))

SessionGoAway(e) ==
  /\ e \in GoAways /\ ~local_go_away[e]
  /\ GoAway(e, "GO_AWAY")
  /\ UNCHANGED <<next_id, state, backlog, receive, remote_go_away, threads>>

SessionGoAwayFail(e) ==
  /\ e \in GoAways /\ ~local_go_away[e]
  /\ local_go_away' = [local_go_away EXCEPT ![e] = TRUE]
  /\ UNCHANGED <<next_id, state, chan, backlog, receive, remote_go_away, threads>>

-----------------------------------------------------------------------------
(* session_open *)

\* remote_go_away is tested once, at the beginning.
OpenCheck(t) ==
  /\ t \in Openers /\ pc[t] = "idle" /\ calls[t] < Calls[t]
  /\ pc' = [pc EXCEPT ![t] = IF remote_go_away[Home[t]] THEN "idle" ELSE "load"]
  /\ calls' = [calls EXCEPT ![t] = @ + 1]
  /\ UNCHANGED <<next_id, state, chan, backlog, receive, goaways, id>>

\* Mutant: the last id is used, and the one after it wraps.
ExhaustedBeyond(i) == i > Word - 1

Exhausted(i) == i >= Word - 1

OpenLoad(t) ==
  LET i == next_id[Home[t]] IN
  /\ t \in Openers /\ pc[t] = "load"
  /\ \/ Exhausted(i) /\ Goto(t, "idle")
     \/ /\ ~Exhausted(i)
        /\ id' = [id EXCEPT ![t] = i]
        /\ pc' = [pc EXCEPT ![t] = "cas"]
        /\ UNCHANGED calls
  /\ UNCHANGED <<next_id, state, chan, backlog, receive, goaways>>

\* Mutant: next_id is stored without a comparison.
CasAlways(t) == TRUE

\* Mutant: next_id is compared with the new value.
CasDesired(t) == next_id[Home[t]] = id[t] + 2

CasSucceeds(t) == next_id[Home[t]] = id[t]

\* Mutant: the two ends do not keep to odd and to even ids.
NextOne(i) == (i + 1) % Word

NextId(i) == (i + 2) % Word

OpenCas(t) ==
  /\ t \in Openers /\ pc[t] = "cas"
  /\ \/ /\ CasSucceeds(t)
        /\ next_id' = [next_id EXCEPT ![Home[t]] = NextId(id[t])]
        /\ Goto(t, "new")
     \/ ~CasSucceeds(t) /\ Goto(t, "load") /\ UNCHANGED next_id
  /\ UNCHANGED <<state, chan, backlog, receive, goaways>>

\* stream_new up to session_insert_stream and its assertion: the stream is in
\* the tree before its mutexes are initialised.
OpenNew(t) ==
  LET e == Home[t]
      fresh == state[e][id[t]] = "NONE"
  IN  /\ t \in Openers /\ pc[t] = "new"
      /\ Goto(t, IF fresh THEN "init" ELSE "abort")
      /\ state' = IF fresh THEN [state EXCEPT ![e][id[t]] = "INIT"] ELSE state
      /\ UNCHANGED <<next_id, chan, backlog, receive, goaways>>

\* The rest of stream_new: pthread_mutex_init.
OpenInit(t) ==
  /\ t \in Openers /\ pc[t] = "init"
  /\ Goto(t, "queue")
  /\ UNCHANGED <<next_id, state, chan, backlog, receive, goaways>>

\* The id is spent although there is no stream.
OpenNewFail(t) ==
  /\ t \in Openers /\ pc[t] = "new"
  /\ Goto(t, "idle")
  /\ UNCHANGED <<next_id, state, chan, backlog, receive, goaways>>

\* send_window_update: SYN goes out.  No other thread knows the stream before
\* that, so stream_send_flags and the queueing of the header are one step.
OpenQueue(t) ==
  /\ t \in Openers /\ pc[t] = "queue"
  /\ SetState(Home[t], id[t], "SYN_SENT")
  /\ Queue(Home[t], hdr_encode("SYN", id[t]))
  /\ Goto(t, "idle")
  /\ UNCHANGED <<next_id, backlog, receive, goaways>>

\* The header cannot be queued.
OpenQueueFail(t) ==
  /\ t \in Openers /\ pc[t] = "queue"
  /\ stream_free(Home[t], id[t])
  /\ Goto(t, "idle")
  /\ UNCHANGED <<next_id, chan, backlog, receive, goaways>>

-----------------------------------------------------------------------------
(* session_accept *)

\* read blocks until an id is in the socketpair.
AcceptRead(t) ==
  LET e == Home[t] IN
  /\ t \in Acceptors /\ pc[t] = "idle" /\ backlog[e] # << >>
  /\ id' = [id EXCEPT ![t] = Head(backlog[e])]
  /\ backlog' = [backlog EXCEPT ![e] = Tail(@)]
  /\ pc' = [pc EXCEPT ![t] = "find"]
  /\ UNCHANGED <<next_id, state, chan, receive, goaways, calls>>

\* The read fails: the session goes away, the application stops accepting.
AcceptReadFail(t) ==
  /\ t \in Acceptors /\ pc[t] = "idle"
  /\ GoAway(Home[t], "GO_AWAY_ERR")
  /\ Goto(t, "failed")
  /\ UNCHANGED <<next_id, state, backlog, receive, remote_go_away>>

\* session_find_stream, with the assertion that it finds the stream, then
\* stream_send_flags: the stream is established before its ACK is queued.
\* (Nothing but its acceptor changes a stream in SYN_RECEIVED here; module
\* Stream has peers that close it first.)
AcceptFind(t) ==
  LET e == Home[t]
      found == state[e][id[t]] # "NONE"
  IN  /\ t \in Acceptors /\ pc[t] = "find"
      /\ Goto(t, IF found THEN "queue" ELSE "abort")
      /\ state' = IF found THEN [state EXCEPT ![e][id[t]] = "ESTABLISHED"] ELSE state
      /\ UNCHANGED <<next_id, chan, backlog, receive, goaways>>

AcceptQueue(t) ==
  /\ t \in Acceptors /\ pc[t] = "queue"
  /\ Queue(Home[t], hdr_encode("ACK", id[t]))
  /\ Goto(t, "idle")
  /\ UNCHANGED <<next_id, state, backlog, receive, goaways>>

\* The stream stays in the tree, established, and its opener waits.
AcceptQueueFail(t) ==
  /\ t \in Acceptors /\ pc[t] = "queue"
  /\ Goto(t, "failed")
  /\ UNCHANGED <<next_id, state, chan, backlog, receive, goaways>>

-----------------------------------------------------------------------------
(* The receive thread: session_handle_window_update, session_handle_go_away *)

Arrived(e, types) ==
  rx[e] = "idle" /\ chan[e] # << >> /\ Head(chan[e]).type \in types

\* incoming_stream rejects immediately while we are doing a go away.
RxRefuse(e) ==
  /\ Arrived(e, {"SYN"}) /\ local_go_away[e]
  /\ Reply(e, hdr_encode("RST", Head(chan[e]).id))
  /\ UNCHANGED <<next_id, state, backlog, receive, goaways, threads>>

\* The RST cannot be queued, which ends the receive loop.
RxRefuseFail(e) ==
  /\ Arrived(e, {"SYN"}) /\ local_go_away[e]
  /\ Discard(e)
  /\ rx' = [rx EXCEPT ![e] = "dead"]
  /\ UNCHANGED <<next_id, state, backlog, rxid, goaways, threads>>

\* incoming_stream up to stream_new: a duplicate ends the session.
RxSyn(e) ==
  LET i == Head(chan[e]).id
      duplicate == state[e][i] # "NONE"
  IN  /\ Arrived(e, {"SYN"}) /\ ~local_go_away[e]
      /\ rx' = [rx EXCEPT ![e] = IF duplicate THEN "dead" ELSE "new"]
      /\ rxid' = [rxid EXCEPT ![e] = i]
      /\ local_go_away' = [local_go_away EXCEPT ![e] = duplicate]
      /\ IF duplicate THEN Reply(e, hdr_encode("GO_AWAY_ERR", 0)) ELSE Discard(e)
      /\ UNCHANGED <<next_id, state, backlog, remote_go_away, threads>>

\* stream_new up to session_insert_stream and its assertion: the id was free
\* when incoming_stream looked, under an earlier section of streams_lock.
RxNew(e) ==
  LET fresh == state[e][rxid[e]] = "NONE" IN
  /\ rx[e] = "new"
  /\ rx' = [rx EXCEPT ![e] = IF fresh THEN "init" ELSE "abort"]
  /\ state' = IF fresh THEN [state EXCEPT ![e][rxid[e]] = "SYN_RECEIVED"] ELSE state
  /\ UNCHANGED <<next_id, chan, backlog, rxid, goaways, threads>>

RxInit(e) ==
  /\ rx[e] = "init"
  /\ rx' = [rx EXCEPT ![e] = "accept"]
  /\ UNCHANGED <<next_id, state, chan, backlog, rxid, goaways, threads>>

RxNewFail(e) ==
  /\ rx[e] = "new"
  /\ GoAway(e, "GO_AWAY_ERR")
  /\ rx' = [rx EXCEPT ![e] = "dead"]
  /\ UNCHANGED <<next_id, state, backlog, rxid, remote_go_away, threads>>

\* notify_accept: write blocks the receive thread while the socketpair is full.
RxNotifyAccept(e) ==
  /\ rx[e] = "accept" /\ Len(backlog[e]) < Backlog
  /\ backlog' = [backlog EXCEPT ![e] = Append(@, rxid[e])]
  /\ rx' = [rx EXCEPT ![e] = "idle"]
  /\ UNCHANGED <<next_id, state, chan, rxid, goaways, threads>>

\* The write fails: the stream is freed and the loop goes on.
RxNotifyAcceptFail(e) ==
  /\ rx[e] = "accept"
  /\ GoAway(e, "GO_AWAY_ERR")
  /\ stream_free(e, rxid[e])
  /\ rx' = [rx EXCEPT ![e] = "idle"]
  /\ UNCHANGED <<next_id, backlog, rxid, remote_go_away, threads>>

\* Mutant: an RST counts as an answer like any other.
FlagsStateEither(st, type) == IF st = "SYN_SENT" THEN "ESTABLISHED" ELSE st

\* Mutant: an RST is taken for an orderly close.
FlagsStateClosed(st, type) == IF type = "RST" THEN "CLOSED" ELSE "ESTABLISHED"

\* Mutant: an RST before the ACK is ignored.
FlagsStateNoReset(st, type) == IF type = "ACK" THEN "ESTABLISHED" ELSE st

\* stream_process_flags.
FlagsState(st, type) ==
  CASE type = "RST" -> "RESET"
    [] type = "ACK" /\ st = "SYN_SENT" -> "ESTABLISHED"
    [] OTHER -> st

\* A frame for a missing stream is dropped.
RxFlags(e) ==
  LET f == Head(chan[e])
      st == state[e][f.id]
  IN  /\ Arrived(e, {"ACK", "RST"})
      /\ Discard(e)
      /\ SetState(e, f.id, IF st = "NONE" THEN st ELSE FlagsState(st, f.type))
      /\ UNCHANGED <<next_id, backlog, receive, goaways, threads>>

RxGoAway(e) ==
  /\ Arrived(e, {"GO_AWAY", "GO_AWAY_ERR"})
  /\ Discard(e)
  /\ \/ /\ Head(chan[e]).type = "GO_AWAY"
        /\ remote_go_away' = [remote_go_away EXCEPT ![e] = TRUE]
        /\ UNCHANGED rx
     \/ /\ Head(chan[e]).type = "GO_AWAY_ERR"
        /\ rx' = [rx EXCEPT ![e] = "dead"]
        /\ UNCHANGED remote_go_away
  /\ UNCHANGED <<next_id, state, backlog, rxid, local_go_away, threads>>

-----------------------------------------------------------------------------

OpenStep(t) ==
  OpenLoad(t) \/ OpenCas(t) \/ OpenNew(t) \/ OpenInit(t) \/ OpenQueue(t)
AcceptStep(t) ==
  AcceptRead(t) \/ AcceptFind(t) \/ AcceptQueue(t)
RxStep(e) ==
  \/ RxRefuse(e) \/ RxSyn(e) \/ RxNew(e) \/ RxInit(e) \/ RxNotifyAccept(e)
  \/ RxFlags(e) \/ RxGoAway(e)

ThreadFail(t) ==
  OpenNewFail(t) \/ OpenQueueFail(t) \/ AcceptReadFail(t) \/ AcceptQueueFail(t)
RxFail(e) == RxRefuseFail(e) \/ RxNewFail(e) \/ RxNotifyAcceptFail(e)

Next ==
  \/ /\ \/ \E t \in Threads : OpenCheck(t) \/ OpenStep(t) \/ AcceptStep(t)
        \/ \E e \in Ends : RxStep(e) \/ SessionGoAway(e)
     /\ UNCHANGED failure
  \/ /\ failure = "may" /\ failure' = "came"
     /\ \/ \E t \in Threads : ThreadFail(t)
        \/ \E e \in Ends : RxFail(e) \/ SessionGoAwayFail(e)

\* Threads keep running, and applications keep accepting; opening and going
\* away are their choice.
Fairness ==
  /\ \A t \in Openers : WF_progress(OpenStep(t))
  /\ \A t \in Acceptors : WF_progress(AcceptStep(t))
  /\ \A e \in Ends : WF_progress(RxStep(e))

Spec == Init /\ [][Next]_vars
FairSpec == Spec /\ Fairness

-----------------------------------------------------------------------------
(* Properties. *)

PCs == {"idle", "load", "cas", "new", "init", "queue", "find", "abort", "failed"}

\* Every variable keeps its type; ids stay below 2^32.
TypeOK ==
  /\ next_id \in [Ends -> Ids]
  /\ state \in [Ends -> [Ids -> States]]
  /\ chan \in [Ends -> Seq(Frame)] /\ backlog \in [Ends -> Seq(Ids)]
  /\ rx \in [Ends -> {"idle", "new", "init", "accept", "dead", "abort"}]
  /\ rxid \in [Ends -> Ids]
  /\ local_go_away \in [Ends -> BOOLEAN] /\ remote_go_away \in [Ends -> BOOLEAN]
  /\ pc \in [Threads -> PCs] /\ id \in [Threads -> Ids]
  /\ calls \in [Openers -> Nat] /\ failure \in {"never", "may", "came"}

\* A stream that can be found although its mutexes are not initialised yet.
Raw(e, i) ==
  \/ \E t \in Openers : Home[t] = e /\ pc[t] = "init" /\ id[t] = i
  \/ rx[e] = "init" /\ rxid[e] = i

\* The assertions hold: session_insert_stream never meets a stream with the
\* same id (mux.c:88), not even one that another thread inserts between the
\* lookup of incoming_stream and its insertion, and session_accept finds the
\* stream whose id it was handed (mux.c:1093).  And no thread locks a mutex of
\* a stream that was inserted (mux.c:276) before the mutex is initialised.
NoAbort ==
  /\ \A t \in Threads : pc[t] # "abort"
  /\ \A e \in Ends : rx[e] # "abort"
  /\ \A t \in Threads : pc[t] \in {"find", "queue"} => ~Raw(Home[t], id[t])
  /\ \A e \in Ends : Arrived(e, {"ACK", "RST"}) => ~Raw(e, Head(chan[e]).id)

\* No session ends because a stream is declared twice, or for any other reason
\* while nothing fails: the ids of the two ends and of their threads differ.
NoDuplicate == failure # "came" => \A e \in Ends : rx[e] # "dead"

\* Two threads of one end never work on the same stream: ids are handed out
\* once, by session_open through next_id and by session_accept through the
\* socketpair.
Holding(t) == pc[t] \in {"new", "init", "find", "queue"}
OneOwner ==
  \A t, u \in Threads :
    t # u /\ Home[t] = Home[u] /\ Holding(t) /\ Holding(u) => id[t] # id[u]

\* The client's next_id never goes back, so that no id of the client is given to a
\* second stream: its ids are odd and meet UINT32_MAX (mux.c:1057) before id + 2
\* can wrap, also for a thread that loaded next_id long before its exchange.  The
\* server's even ids step over UINT32_MAX and do wrap: id_wrap.cfg.
ClientIdsAscend == [][next_id'["c"] >= next_id["c"]]_vars

\* The end that opens the stream with id i: the client's ids are odd.
Opener(i) == IF i % 2 = 1 THEN "c" ELSE "s"

PhaseOf(i) ==
  LET mine == state[Opener(i)][i]
      theirs == state[Other(Opener(i))][i]
  IN  CASE mine = "RESET" -> "refused"
        [] mine = "ESTABLISHED" -> "open"
        [] mine = "SYN_SENT" /\ theirs = "NONE" -> "offered"
        [] mine = "SYN_SENT" /\ theirs = "SYN_RECEIVED" -> "listed"
        [] mine = "SYN_SENT" /\ theirs = "ESTABLISHED" -> "accepted"
        [] OTHER -> "free"

H == INSTANCE Handshake WITH HIds <- Ids, phase <- [i \in Ids |-> PhaseOf(i)]

\* The two sessions together implement the handshake: a stream is established
\* for its opener only after it was accepted, and one that is refused exists
\* nowhere else, whatever the order of threads, frames and go aways.
ImplementsHandshake == H!HSpec

\* Calls of session_open return: the compare-and-swap loop ends although other
\* threads keep taking ids.
OpenReturns == []<>(\A t \in Openers : pc[t] \in {"idle", "abort"})

\* Without failures every stream that session_open offers is accepted or
\* refused, although the receive thread waits while the socketpair is full.
OffersAnswered ==
  []<>(failure # "came" => \A i \in Ids : state[Opener(i)][i] # "SYN_SENT")

-----------------------------------------------------------------------------
(* Custody: the inductive invariant behind the properties above.  An id that *)
(* was handed out is in one place at a time: with the thread that opens it,  *)
(* in a SYN, with the receive thread, in the socketpair, with the thread     *)
(* that accepts it, or in the answer; and the two states of its stream tell  *)
(* which of these places are possible.                                       *)

\* The server's ids have not wrapped around to 0: session_open tests for
\* UINT32_MAX, which even ids skip.
NoWrap == next_id["s"] # 0

\* The stream i that the peer of e opened, as its opener and as e see it.
Offered(e, i, theirs, mine) ==
  Opener(i) = Other(e) /\ state[Other(e)][i] = theirs /\ state[e][i] = mine

Carries(q, types, i) == \E f \in Range(q) : f.type \in types /\ f.id = i
Flagged == {"SYN", "ACK", "RST"}
OnePerStream(q) ==
  \A j, k \in 1 .. Len(q) :
    j # k /\ q[j].type \in Flagged /\ q[k].type \in Flagged => q[j].id # q[k].id

\* Ids from next_id on are unknown at both ends.
FreshCustody ==
  /\ \A e \in Ends : next_id[e] # 0 /\ Opener(next_id[e]) = e
  /\ \A e \in Ends, i \in Ids :
       Opener(i) = e /\ (i >= next_id[e] \/ i = 0) =>
         state[e][i] = "NONE" /\ state[Other(e)][i] = "NONE"

\* Ids below next_id that session_open has taken belong to one thread each,
\* until their SYN is queued.
OpenCustody ==
  /\ \A t \in Openers : LET e == Home[t] IN
       /\ pc[t] \in {"idle", "load", "cas", "new", "init", "queue"}
       /\ pc[t] = "cas" => /\ id[t] # 0 /\ id[t] < Word - 1
                           /\ id[t] <= next_id[e] /\ Opener(id[t]) = e
       /\ pc[t] \in {"new", "init", "queue"} =>
            /\ id[t] # 0 /\ id[t] < next_id[e] /\ Opener(id[t]) = e
            /\ state[e][id[t]] = IF pc[t] = "new" THEN "NONE" ELSE "INIT"
            /\ state[Other(e)][id[t]] = "NONE"
  /\ \A t, u \in Openers : t # u /\ Holding(t) /\ Holding(u) => id[t] # id[u]

\* Frames with a flag stand for streams in the states that go with it, and no
\* two of them are about the same stream.
FrameCustody ==
  \A e \in Ends :
    /\ \A f \in Range(chan[e]) :
         /\ f.type = "SYN" => Offered(e, f.id, "SYN_SENT", "NONE")
         /\ f.type = "ACK" => Offered(Other(e), f.id, "SYN_SENT", "ESTABLISHED")
         /\ f.type = "RST" => /\ Offered(Other(e), f.id, "SYN_SENT", "NONE")
                              /\ ~Carries(chan[Other(e)], {"SYN"}, f.id)
    /\ OnePerStream(chan[e])

\* The receive thread has an id that is no longer in a SYN and not yet in the
\* socketpair.
ReceiveCustody ==
  \A e \in Ends :
    /\ rx[e] # "abort"
    /\ rx[e] = "new" => /\ Offered(e, rxid[e], "SYN_SENT", "NONE")
                        /\ ~Carries(chan[e], {"SYN"}, rxid[e])
                        /\ ~Carries(chan[Other(e)], {"RST"}, rxid[e])
    /\ rx[e] \in {"init", "accept"} =>
         /\ Offered(e, rxid[e], "SYN_SENT", "SYN_RECEIVED")
         /\ rxid[e] \notin Range(backlog[e])
         /\ \A t \in Acceptors : Home[t] = e /\ pc[t] = "find" => id[t] # rxid[e]

\* Ids wait in the socketpair once ...
QueueCustody ==
  \A e \in Ends :
    /\ \A i \in Range(backlog[e]) : Offered(e, i, "SYN_SENT", "SYN_RECEIVED")
    /\ IsInjective(backlog[e])

\* ... for one thread, which answers once.
AcceptCustody ==
  /\ \A t \in Acceptors : LET e == Home[t] IN
       /\ pc[t] \in {"idle", "find", "queue", "failed"}
       /\ pc[t] = "find" => /\ Offered(e, id[t], "SYN_SENT", "SYN_RECEIVED")
                            /\ id[t] \notin Range(backlog[e])
       /\ pc[t] = "queue" => /\ Offered(e, id[t], "SYN_SENT", "ESTABLISHED")
                             /\ ~Carries(chan[Other(e)], {"ACK"}, id[t])
  /\ \A t, u \in Acceptors :
       t # u /\ Home[t] = Home[u] /\ Holding(t) /\ Holding(u) => id[t] # id[u]

\* Errors are announced only after a failure.
ErrorCustody ==
  failure # "came" => \A e \in Ends : /\ rx[e] # "dead"
                                     /\ \A f \in Range(chan[e]) : f.type # "GO_AWAY_ERR"

Custody ==
  /\ FreshCustody /\ OpenCustody /\ FrameCustody /\ ReceiveCustody
  /\ QueueCustody /\ AcceptCustody /\ ErrorCustody
=============================================================================
