----------------------------- MODULE EventLoop -----------------------------
(***************************************************************************)
(* event-epoll.c: events kept in a tree by fd, the kernel's interest list, *)
(* and event_process, which hands the entries of a batch to callbacks.     *)
(* One thread runs all of it.  Callbacks may call event_add, event_delete  *)
(* and event_stop, and close and open fds, also for events of the batch    *)
(* that is being handled.                                                  *)
(*                                                                         *)
(* The kernel keeps pointers to events (ee.data.ptr).  A pointer is the fd *)
(* and a number that tells the events allocated for that fd apart.         *)
(***************************************************************************)
EXTENDS Integers, FiniteSets

CONSTANTS
  Fds,
  BatchSize,    \* the 256 of event_process
  MaxNew,       \* bound: events allocated
  Failures      \* whether epoll_wait and epoll_ctl may fail for want of memory

ASSUME EventLoopAssumption ==
  BatchSize \in Nat \ {0} /\ MaxNew \in Nat /\ Failures \in BOOLEAN

Dirs == {"IN", "OUT"}       \* EVENT_IN, EVENT_OUT

VARIABLES
  event,          \* per fd: the number of its event in loop->events, or NULL
  allocated,      \* events allocated so far
  flags, fns,     \* event->flags; the directions whose callback is set
  interest, ptr,  \* the kernel's list: what it watches on an fd ({}: not
                  \* listed), and the number of the event it returns for it
  stop,
  pc, batch, cur, \* event_process: position, entries to come, current entry
  insync          \* fds whose last call returned 0 and that were not closed since

events == <<event, allocated, flags, fns>>
kernel == <<interest, ptr>>
loop == <<pc, batch, cur>>
vars == <<events, kernel, stop, loop, insync>>

NULL == 0
Entry == [fd : Fds, num : Nat, events : SUBSET Dirs]

Init ==
  /\ event = [f \in Fds |-> NULL] /\ allocated = 0
  /\ flags = [f \in Fds |-> {}] /\ fns = [f \in Fds |-> {}]
  /\ interest = [f \in Fds |-> {}] /\ ptr = [f \in Fds |-> NULL]
  /\ stop = FALSE
  /\ pc = "out" /\ batch = {} /\ cur = {}
  /\ insync = Fds

\* The program is outside event_process, or inside a callback.
InProgram == pc \in {"out", "recv", "send"}

-----------------------------------------------------------------------------
(* event_add and event_delete *)

\* The operation for epoll_ctl when event->flags goes from old to new.
CtlOp(old, new) ==
  IF new = {} THEN "DEL" ELSE IF old = {} THEN "ADD" ELSE "MOD"

\* epoll_ctl can succeed: the fd is listed unless it is to be added.
Succeeds(f, op) == op = "ADD" <=> interest[f] = {}

\* Mutant: only the flags of this call are passed on.
WatchedOnly(new, fl) == fl

Watched(new, fl) == new

\* Mutant: the event is freed whatever epoll_ctl said.
MayFreeAlways(left, r) == left = {}

\* Mutant: the event is freed though a direction is left.
MayFreeEarly(left, r) == r = 0

\* event_delete frees the event with its last flag, if epoll_ctl succeeded.
MayFree(left, r) == left = {} /\ r = 0

\* epoll_ctl with result r; the kernel forgets the pointer with the last event.
epoll_ctl(f, op, evs, num, r) ==
  /\ \/ r = 0 /\ Succeeds(f, op)
     \/ r = -1 /\ (~Succeeds(f, op) \/ Failures)
  /\ interest' = IF r = 0 THEN [interest EXCEPT ![f] = evs] ELSE interest
  /\ ptr' = IF r = -1 THEN ptr
            ELSE [ptr EXCEPT ![f] = IF evs = {} THEN NULL ELSE num]
  /\ insync' = IF r = 0 THEN insync \cup {f} ELSE insync \ {f}

find_event(f) == event[f]

\* A new event has no flags and no callbacks.
event_new == allocated + 1

\* event->flags changes before epoll_ctl is tried and keeps the change if that
\* fails.  (An allocation that fails changes nothing.)
event_add(f, fl) ==
  LET new == find_event(f) = NULL
      num == IF new THEN event_new ELSE find_event(f)
  IN  /\ InProgram /\ num <= MaxNew
      /\ event' = [event EXCEPT ![f] = num]
      /\ allocated' = IF new THEN num ELSE allocated
      /\ fns' = [fns EXCEPT ![f] = @ \cup fl]
      /\ flags' = [flags EXCEPT ![f] = @ \cup fl]
      /\ \E r \in {0, -1} :
           epoll_ctl(f, CtlOp(flags[f], flags'[f]), Watched(flags'[f], fl), num, r)
      /\ UNCHANGED <<stop, loop>>

\* fd and event part when the event is freed.
event_delete(f, fl) ==
  LET left == flags[f] \ fl IN
  /\ InProgram /\ find_event(f) # NULL
  /\ flags' = [flags EXCEPT ![f] = left]
  /\ \E r \in {0, -1} :
       /\ epoll_ctl(f, CtlOp(flags[f], left), left, find_event(f), r)
       /\ LET free == MayFree(left, r) IN
            /\ event' = [event EXCEPT ![f] = IF free THEN NULL ELSE @]
            /\ fns' = [fns EXCEPT ![f] = IF free THEN {} ELSE @]
  /\ UNCHANGED <<allocated, stop, loop>>

event_stop ==
  /\ InProgram
  /\ stop' = TRUE
  /\ UNCHANGED <<events, kernel, loop, insync>>

-----------------------------------------------------------------------------
\* The program closes a file: that takes it off the interest list without
\* event_delete.  The fd is then closed or another file; epoll_ctl fails on it
\* either way until that file is added.
Close(f) ==
  /\ InProgram
  /\ interest' = [interest EXCEPT ![f] = {}] /\ ptr' = [ptr EXCEPT ![f] = NULL]
  /\ insync' = insync \ {f}
  /\ UNCHANGED <<events, stop, loop>>

-----------------------------------------------------------------------------
(* event_process and handle_event *)

\* Mutant: the loop does not look at stop.
ContinuesAlways == TRUE

Continues == ~stop

EventProcess ==
  /\ pc = "out" /\ Continues
  /\ pc' = "wait"
  /\ UNCHANGED <<events, kernel, stop, batch, cur, insync>>

ProcessReturn ==
  /\ pc = "wait" /\ ~Continues
  /\ pc' = "out"
  /\ UNCHANGED <<events, kernel, stop, batch, cur, insync>>

\* epoll_wait fails.
ProcessFail ==
  /\ pc = "wait" /\ Continues /\ Failures
  /\ pc' = "out"
  /\ UNCHANGED <<events, kernel, stop, batch, cur, insync>>

\* epoll_wait returns some of what it watches that is ready, as much as fits
\* into the array; it may also wait for ever.
EpollWait ==
  /\ pc = "wait" /\ Continues
  /\ \E ready \in [Fds -> SUBSET Dirs] :
       LET fs == {f \in Fds : ready[f] # {}} IN
       /\ fs # {} /\ Cardinality(fs) <= BatchSize
       /\ \A f \in Fds : ready[f] \subseteq interest[f]
       /\ batch' = {[fd |-> f, num |-> ptr[f], events |-> ready[f]] : f \in fs}
  /\ pc' = "next"
  /\ UNCHANGED <<events, kernel, stop, cur, insync>>

BatchEnd ==
  /\ pc = "next" /\ batch = {}
  /\ pc' = "wait"
  /\ UNCHANGED <<events, kernel, stop, batch, cur, insync>>

Live(b) == event[b.fd] = b.num

\* handle_event reads event->recv_fn only if EPOLLIN is set, and event->send_fn
\* only if EPOLLOUT is; reading it from an event that was freed is undefined.
Reach(b, d, there, else) ==
  IF d \notin b.events THEN else
  ELSE IF ~Live(b) THEN "undefined"
  ELSE IF d \in fns[b.fd] THEN there ELSE else

\* Mutant: send_fn is not tried after recv_fn.
AfterRecvNone(b) == "next"

AfterRecv(b) == Reach(b, "OUT", "send", "next")

\* handle_event goes on: to a callback for b, to the next entry, or astray.
Proceed(b, to) == pc' = to /\ cur' = IF to \in {"recv", "send"} THEN {b} ELSE {}

\* handle_event takes an entry, up to the call of its first callback.
HandleEvent(b) ==
  /\ pc = "next" /\ b \in batch
  /\ batch' = batch \ {b}
  /\ Proceed(b, Reach(b, "IN", "recv", AfterRecv(b)))
  /\ UNCHANGED <<events, kernel, stop, insync>>

\* A callback returns.
RecvReturn(b) ==
  /\ pc = "recv" /\ b \in cur
  /\ Proceed(b, AfterRecv(b))
  /\ UNCHANGED <<events, kernel, stop, batch, insync>>

SendReturn(b) ==
  /\ pc = "send" /\ b \in cur
  /\ Proceed(b, "next")
  /\ UNCHANGED <<events, kernel, stop, batch, insync>>

-----------------------------------------------------------------------------

\* What event_process does by itself, epoll_wait and event_add and so on apart.
LoopStep ==
  \/ ProcessReturn \/ BatchEnd
  \/ \E b \in batch \cup cur : HandleEvent(b) \/ RecvReturn(b) \/ SendReturn(b)

ProgramStep ==
  \/ \E f \in Fds, fl \in (SUBSET Dirs) \ {{}} : event_add(f, fl) \/ event_delete(f, fl)
  \/ event_stop \/ EventProcess
  \/ \E f \in Fds : Close(f)

Next == LoopStep \/ ProgramStep \/ EpollWait \/ ProcessFail

Spec == Init /\ [][Next]_vars

\* Callbacks return and the thread keeps running inside event_process.
FairSpec == Spec /\ WF_vars(LoopStep)

-----------------------------------------------------------------------------
(* Properties. *)

\* Every variable keeps its type, and flags and callbacks go with their event.
TypeOK ==
  /\ event \in [Fds -> Nat] /\ allocated \in Nat
  /\ flags \in [Fds -> SUBSET Dirs] /\ fns \in [Fds -> SUBSET Dirs]
  /\ \A f \in Fds : flags[f] \subseteq fns[f] /\ (event[f] = NULL => fns[f] = {})
  /\ interest \in [Fds -> SUBSET Dirs] /\ ptr \in [Fds -> Nat]
  /\ stop \in BOOLEAN
  /\ pc \in {"out", "wait", "next", "recv", "send", "undefined"}
  /\ batch \subseteq Entry /\ cur \subseteq Entry /\ insync \subseteq Fds

\* The kernel never holds a pointer to an event that was freed, whatever calls
\* failed and whichever fds were closed or reused, so every entry is sound when
\* epoll_wait returns it, and there is a callback for all that it watches.
PointersLive ==
  \A f \in Fds :
    interest[f] # {} => /\ ptr[f] # NULL /\ ptr[f] = event[f]
                        /\ interest[f] \subseteq fns[f]

\* After a call that returned 0 the kernel watches exactly what the program
\* asked for, also when calls before it had failed: a direction that was
\* deleted is not in any later batch.
InStep ==
  \A f \in insync : interest[f] = flags[f]

\* Every direction that epoll_wait reports gets its callback, unless the event
\* was freed before its turn (its entry then leads astray): neither the other
\* direction of the fd nor the callbacks of other fds keep it from its turn.
Served ==
  \A f \in Fds, d \in Dirs :
    (\E b \in batch : b.fd = f /\ d \in b.events)
      ~> \/ pc = (IF d = "IN" THEN "recv" ELSE "send") /\ \E b \in cur : b.fd = f
         \/ pc = "undefined"

\* event_stop ends event_process, once the batch is done.
Stops == stop ~> pc \in {"out", "undefined"}
=============================================================================
