--------------------------- MODULE EventLoopProofs ---------------------------
(***************************************************************************)
(* Proofs about module EventLoop, for any set of fds, any number of events *)
(* and any batch size, with failing system calls.                          *)
(*                                                                         *)
(* The types alone do not carry PointersLive: that event_add allocates for *)
(* an fd the kernel does not list, and that event_delete frees only what   *)
(* the kernel forgot, follow from each other.  InStep needs neither.       *)
(***************************************************************************)
EXTENDS EventLoop, TLAPS

IInv == TypeOK /\ PointersLive /\ InStep

\* What event_add and event_delete change at one fd, and epoll_ctl with them:
\* PointersLive and InStep for that fd imply them for all.
LEMMA OneFd ==
  ASSUME IInv, NEW f \in Fds,
         \A g \in Fds \ {f} : /\ event'[g] = event[g] /\ flags'[g] = flags[g]
                              /\ fns'[g] = fns[g] /\ interest'[g] = interest[g]
                              /\ ptr'[g] = ptr[g],
         insync' \subseteq insync \cup {f},
         interest'[f] # {} => /\ ptr'[f] # NULL /\ ptr'[f] = event'[f]
                              /\ interest'[f] \subseteq fns'[f],
         f \in insync' => interest'[f] = flags'[f]
  PROVE  PointersLive' /\ InStep'
<1>1. PointersLive'
  BY DEF IInv, PointersLive
<1>2. InStep'
  BY DEF IInv, InStep, TypeOK
<1>. QED
  BY <1>1, <1>2

\* Initially nothing is allocated, listed or under way.
LEMMA InitInv == Init => IInv
<1> SUFFICES ASSUME Init PROVE IInv
  OBVIOUS
<1>1. TypeOK
  BY DEF Init, TypeOK, NULL
<1>2. PointersLive /\ InStep
  BY DEF Init, PointersLive, InStep
<1>. QED
  BY <1>1, <1>2 DEF IInv

\* event_add: a new event is allocated only for an fd the kernel does not list.
LEMMA AddInv ==
  ASSUME IInv, NEW f \in Fds, NEW fl \in SUBSET Dirs, fl # {}, event_add(f, fl)
  PROVE  IInv'
<1> DEFINE num == IF event[f] = NULL THEN allocated + 1 ELSE event[f]
<1> USE DEF IInv
<1>1. /\ event' = [event EXCEPT ![f] = num] /\ num \in Nat /\ num # NULL
      /\ allocated' = IF event[f] = NULL THEN num ELSE allocated
      /\ fns' = [fns EXCEPT ![f] = @ \cup fl]
      /\ flags' = [flags EXCEPT ![f] = @ \cup fl]
      /\ UNCHANGED <<stop, loop>>
  BY DEF event_add, find_event, event_new, TypeOK, NULL
<1>2. PICK r \in {0, -1} :
        epoll_ctl(f, CtlOp(flags[f], flags'[f]), flags'[f], num, r)
  BY DEF event_add, find_event, event_new, Watched
<1>3. flags'[f] \in SUBSET Dirs /\ flags'[f] # {} /\ flags'[f] \subseteq fns'[f]
  BY <1>1 DEF TypeOK
<1> HIDE DEF num
<1>4. /\ interest' \in [Fds -> SUBSET Dirs] /\ ptr' \in [Fds -> Nat]
      /\ insync' \subseteq Fds /\ insync' \subseteq insync \cup {f}
      /\ \A g \in Fds \ {f} : interest'[g] = interest[g] /\ ptr'[g] = ptr[g]
      /\ r = 0 => interest'[f] = flags'[f] /\ ptr'[f] = num
      /\ r = -1 => interest' = interest /\ ptr' = ptr /\ f \notin insync'
  <2>1. CASE r = 0
    BY <1>1, <1>2, <1>3, <2>1 DEF epoll_ctl, TypeOK
  <2>2. CASE r = -1
    BY <1>2, <2>2 DEF epoll_ctl, TypeOK
  <2>. QED
    BY <2>1, <2>2
<1>5. TypeOK'
  BY <1>1, <1>4 DEF TypeOK, loop, NULL
<1>6. CASE r = 0
  <2>1. /\ ptr'[f] # NULL /\ ptr'[f] = event'[f] /\ interest'[f] \subseteq fns'[f]
        /\ interest'[f] = flags'[f]
    BY <1>1, <1>3, <1>4, <1>6 DEF TypeOK
  <2>. QED
    BY <1>1, <1>4, <1>5, <2>1, OneFd DEF TypeOK
<1>7. CASE r = -1
  <2>1. interest'[f] # {} => event[f] # NULL /\ num = event[f]
    BY <1>4, <1>7 DEF PointersLive, num
  <2>2. interest'[f] # {} => /\ ptr'[f] # NULL /\ ptr'[f] = event'[f]
                             /\ interest'[f] \subseteq fns'[f]
    BY <1>1, <1>4, <1>7, <2>1 DEF PointersLive, TypeOK
  <2>. QED
    BY <1>1, <1>4, <1>5, <1>7, <2>2, OneFd DEF TypeOK
<1>. QED
  BY <1>6, <1>7

\* event_delete: an event is freed only after the kernel has let go of it.
LEMMA DeleteInv ==
  ASSUME IInv, NEW f \in Fds, NEW fl \in SUBSET Dirs, event_delete(f, fl)
  PROVE  IInv'
<1> DEFINE left == flags[f] \ fl
<1> USE DEF IInv
<1>1. /\ event[f] # NULL /\ event[f] \in Nat
      /\ flags' = [flags EXCEPT ![f] = left]
      /\ UNCHANGED <<allocated, stop, loop>>
      /\ left \in SUBSET Dirs /\ left \subseteq fns[f]
  BY DEF event_delete, find_event, TypeOK
<1>2. PICK r \in {0, -1} :
        /\ epoll_ctl(f, CtlOp(flags[f], left), left, event[f], r)
        /\ LET free == left = {} /\ r = 0 IN
             /\ event' = [event EXCEPT ![f] = IF free THEN NULL ELSE @]
             /\ fns' = [fns EXCEPT ![f] = IF free THEN {} ELSE @]
  BY DEF event_delete, find_event, MayFree
<1> HIDE DEF left
<1>3. /\ interest' \in [Fds -> SUBSET Dirs] /\ ptr' \in [Fds -> Nat]
      /\ insync' \subseteq Fds /\ insync' \subseteq insync \cup {f}
      /\ \A g \in Fds \ {f} : interest'[g] = interest[g] /\ ptr'[g] = ptr[g]
      /\ r = 0 => /\ interest'[f] = left
                  /\ ptr'[f] = IF left = {} THEN NULL ELSE event[f]
      /\ r = -1 => interest' = interest /\ ptr' = ptr /\ f \notin insync'
  <2>1. CASE r = 0
    BY <1>1, <1>2, <2>1 DEF epoll_ctl, TypeOK, NULL
  <2>2. CASE r = -1
    BY <1>2, <2>2 DEF epoll_ctl, TypeOK
  <2>. QED
    BY <2>1, <2>2
<1>4. /\ flags'[f] = left
      /\ left = {} /\ r = 0 => event'[f] = NULL /\ fns'[f] = {}
      /\ ~(left = {} /\ r = 0) => event'[f] = event[f] /\ fns'[f] = fns[f]
      /\ \A g \in Fds \ {f} : /\ event'[g] = event[g] /\ flags'[g] = flags[g]
                              /\ fns'[g] = fns[g]
      /\ event' \in [Fds -> Nat] /\ fns' \in [Fds -> SUBSET Dirs]
      /\ flags' \in [Fds -> SUBSET Dirs]
  BY <1>1, <1>2 DEF TypeOK, NULL
<1>5. TypeOK'
  BY <1>1, <1>3, <1>4 DEF TypeOK, loop, NULL
<1>6. interest'[f] # {} => /\ ptr'[f] # NULL /\ ptr'[f] = event'[f]
                           /\ interest'[f] \subseteq fns'[f]
  BY <1>1, <1>3, <1>4 DEF PointersLive
<1>. QED
  BY <1>3, <1>4, <1>5, <1>6, OneFd

\* Closing a file takes its fd off the list and nothing else.
LEMMA CloseInv ==
  ASSUME IInv, NEW f \in Fds, Close(f)
  PROVE  IInv'
<1>1. TypeOK'
  BY DEF IInv, TypeOK, Close, events, loop, NULL
<1>2. PointersLive' /\ InStep'
  BY DEF IInv, TypeOK, PointersLive, InStep, Close, events, loop, NULL
<1>. QED
  BY <1>1, <1>2 DEF IInv

\* Where handle_event goes on is one of its positions.
LEMMA ReachFacts ==
  ASSUME NEW b
  PROVE  /\ AfterRecv(b) \in {"send", "next", "undefined"}
         /\ Reach(b, "IN", "recv", AfterRecv(b)) \in {"recv", "send", "next", "undefined"}
BY DEF AfterRecv, Reach

\* The steps of event_process leave events and the kernel's list alone.
LEMMA LoopInv ==
  ASSUME IInv, LoopStep \/ event_stop \/ EventProcess \/ EpollWait \/ ProcessFail
  PROVE  IInv'
<1> USE DEF IInv
<1>1. UNCHANGED <<events, kernel, insync>>
  BY DEF LoopStep, event_stop, EventProcess, EpollWait, ProcessFail, ProcessReturn,
         BatchEnd, HandleEvent, RecvReturn, SendReturn
<1>2. PointersLive' /\ InStep'
  BY <1>1 DEF PointersLive, InStep, events, kernel
<1>3. stop' \in BOOLEAN /\ batch' \subseteq Entry
  <2>1. CASE EpollWait
    BY <2>1 DEF EpollWait, TypeOK, Entry
  <2>2. CASE LoopStep \/ event_stop \/ EventProcess \/ ProcessFail
    BY <2>2 DEF LoopStep, event_stop, EventProcess, ProcessFail, ProcessReturn,
         BatchEnd, HandleEvent, RecvReturn, SendReturn, TypeOK, loop
  <2>. QED
    BY <2>1, <2>2
<1>4. /\ pc' \in {"out", "wait", "next", "recv", "send", "undefined"}
      /\ cur' \subseteq Entry
  <2>1. CASE event_stop \/ EventProcess \/ EpollWait \/ ProcessFail \/ ProcessReturn
               \/ BatchEnd
    BY <2>1 DEF event_stop, EventProcess, EpollWait, ProcessFail, ProcessReturn,
         BatchEnd, TypeOK, loop
  <2>2. ASSUME NEW b \in batch \cup cur,
               HandleEvent(b) \/ RecvReturn(b) \/ SendReturn(b)
        PROVE  /\ pc' \in {"out", "wait", "next", "recv", "send", "undefined"}
               /\ cur' \subseteq Entry
    <3>1. b \in Entry
      BY <2>2 DEF TypeOK
    <3>. QED
      BY <2>2, <3>1, ReachFacts DEF HandleEvent, RecvReturn, SendReturn, Proceed
  <2>. QED
    BY <2>1, <2>2 DEF LoopStep
<1>5. TypeOK'
  BY <1>1, <1>3, <1>4 DEF TypeOK, events, kernel
<1>. QED
  BY <1>2, <1>5

\* Every step preserves the invariant.
LEMMA NextInv == IInv /\ [Next]_vars => IInv'
<1> SUFFICES ASSUME IInv, [Next]_vars PROVE IInv'
  OBVIOUS
<1>1. ASSUME NEW f \in Fds, NEW fl \in (SUBSET Dirs) \ {{}},
             event_add(f, fl) \/ event_delete(f, fl)
      PROVE  IInv'
  <2>1. fl \in SUBSET Dirs /\ fl # {}
    BY <1>1
  <2>. QED
    BY <1>1, <2>1, AddInv, DeleteInv
<1>2. ASSUME NEW f \in Fds, Close(f) PROVE IInv'
  BY <1>2, CloseInv
<1>3. CASE LoopStep \/ event_stop \/ EventProcess \/ EpollWait \/ ProcessFail
  BY <1>3, LoopInv
<1>4. CASE UNCHANGED vars
  BY <1>4 DEF vars, events, kernel, loop, IInv, TypeOK, PointersLive, InStep
<1>. QED
  BY <1>1, <1>2, <1>3, <1>4 DEF Next, ProgramStep

\* The invariant holds in every behaviour.
THEOREM Invariance == Spec => []IInv
<1>. QED
  BY InitInv, NextInv, PTL DEF Spec

-----------------------------------------------------------------------------

\* In every behaviour of the event loop flags are never set without their
\* callback, and an fd without event has neither (event-epoll.c:166, :207).
THEOREM TypeCorrect == Spec => []TypeOK
<1>1. IInv => TypeOK
  BY DEF IInv
<1>. QED
  BY <1>1, Invariance, PTL

\* The pointers that epoll_wait hands out are to events that exist, however
\* epoll_ctl fails and whichever fds are closed behind the loop's back
\* (event-epoll.c:188, :227).
THEOREM PointersCorrect == Spec => []PointersLive
<1>1. IInv => PointersLive
  BY DEF IInv
<1>. QED
  BY <1>1, Invariance, PTL

\* After event_add or event_delete returned 0 the kernel watches what the
\* event's flags say.
THEOREM InStepCorrect == Spec => []InStep
<1>1. IInv => InStep
  BY DEF IInv
<1>. QED
  BY <1>1, Invariance, PTL
=============================================================================
