----------------------------- MODULE LockOrder -----------------------------
(***************************************************************************)
(* The mutexes of session and stream in mux.c, and the data they guard.    *)
(*                                                                         *)
(* A program is what a C function does, as a sequence of steps: it locks   *)
(* and unlocks mutexes, uses fields of a session or stream, waits, and     *)
(* chooses between programs.  A choice stands for a branch or an early     *)
(* return, whatever the data that decides it.  Threads call functions and  *)
(* run their programs a step at a time.                                    *)
(*                                                                         *)
(* goto again, and the loops of session_process and session_handle_data,   *)
(* go back to where no lock, or only those of the caller, are held; one    *)
(* round stands for any number.                                            *)
(***************************************************************************)
EXTENDS Integers, Sequences, FiniteSets

CONSTANTS
  Streams,
  Receivers,    \* threads that move bytes from the connection into the session
  Acceptors,    \* threads that call session_accept
  Users,        \* threads that make the other calls, the send loop among them
  Backlog       \* ids that fit into the socketpair of notify_accept

Threads == Receivers \cup Acceptors \cup Users

ASSUME LockOrderAssumption ==
  /\ Receivers \cap Acceptors = {}
  /\ "session" \notin Streams /\ "none" \notin Threads
  /\ Backlog \in Nat \ {0}

\* The mutexes: those of the session, and three of each stream.
Locks ==
  ({"session"} \X {"recv_lock", "send_lock", "streams_lock"})
    \cup (Streams \X {"state_lock", "recv_lock", "send_lock"})

VARIABLES
  owner,    \* per mutex: the thread that holds it, or "none"
  todo,     \* per thread: what is left of the function it runs
  backlog   \* ids in the socketpair

vars == <<owner, todo, backlog>>

-----------------------------------------------------------------------------
(* Programs *)

\* Fields of the session or of a stream are used.
Use(o, fields) == << <<"use", {o} \X fields>> >>

\* select waits without a bound; put and take move an id through the socketpair.
Wait(kind) == << <<kind, {}>> >>

Return == <<>>
Either(programs) == << <<"either", programs>> >>
Maybe(P) == Either({Return, P})
Under(l, P) == << <<"lock", l>> >> \o P \o << <<"unlock", l>> >>

\* Also session_insert_stream and session_remove_stream.
session_find_stream ==
  Under(<<"session", "streams_lock">>, Use("session", {"streams"}))

\* Also session_send_buf_pending, session_send_buf_peek and
\* session_send_buf_consume.
session_send_buf_write ==
  Under(<<"session", "send_lock">>, Use("session", {"send_buf"}))

session_go_away_for_reason == session_send_buf_write

\* stream_writeable_notify and stream_writeable_waiting.
stream_writeable(x) == Under(<<x, "send_lock">>, Use(x, {"writeable"}))

\* stream_readable_notify and stream_readable_waiting.
stream_readable(x) == Under(<<x, "recv_lock">>, Use(x, {"readable"}))

stream_notify_waiting(x) == stream_writeable(x) \o stream_readable(x)

\* ACK and FIN, then RST.
stream_process_flags(x) ==
  LET Change == Use(x, {"state"}) \o Maybe(stream_notify_waiting(x))
  IN  Under(<<x, "state_lock">>, Change \o Maybe(Change))

stream_send_flags(x) == Under(<<x, "state_lock">>, Use(x, {"state"}))

send_window_update(x) ==
  stream_send_flags(x)
    \o Under(<<x, "recv_lock">>, Use(x, {"recv_buf", "recv_window"}))
    \o Maybe(session_send_buf_write)

\* Mutant: the lock is kept while select waits for data.
CheckPendingHeld(x) ==
  Under(<<x, "recv_lock">>, Use(x, {"recv_buf"}) \o Maybe(Wait("select")))

\* stream_read looks whether there is data.
CheckPending(x) == Under(<<x, "recv_lock">>, Use(x, {"recv_buf"}))

stream_read(x) ==
  LET Take == CheckPending(x) \o Maybe(stream_readable(x)) \o Maybe(send_window_update(x))
  IN  Under(<<x, "state_lock">>, Use(x, {"state"}) \o Maybe(CheckPending(x)))
        \o Maybe(CheckPending(x) \o Either({Return, Wait("select"), Take}))

\* Mutant: the window is changed without the lock.
SendWindowUnlocked(x) == Use(x, {"send_window"})

\* The send window is read or changed.
SendWindow(x) == Under(<<x, "send_lock">>, Use(x, {"send_window"}))

stream_write(x) ==
  LET Reduce == SendWindow(x)
                  \o Maybe(stream_writeable(x) \o Maybe(session_go_away_for_reason))
      Send == stream_send_flags(x) \o session_send_buf_write
                \o Maybe(session_send_buf_write \o Maybe(Reduce))
  IN  stream_send_flags(x)
        \o Maybe(SendWindow(x) \o Either({Return, Wait("select"), Send}))

\* stream_new inserts the stream or fails; stream_free removes it.
session_open(x) ==
  Maybe(session_find_stream \o send_window_update(x) \o Maybe(session_find_stream))

session_accept(x) ==
  Either({session_go_away_for_reason,
          Wait("take") \o session_find_stream \o send_window_update(x)})

\* The id is written, once there is room for it.
notify_accept == Wait("put")

\* Refused with RST; or a duplicate, or no memory; or inserted, and removed
\* again if notify_accept fails.
incoming_stream ==
  LET Insert == session_find_stream
                  \o Either({notify_accept,
                             session_go_away_for_reason \o session_find_stream})
  IN  Either({session_send_buf_write,
              session_find_stream \o Either({session_go_away_for_reason, Insert})})

\* The state of the parser, which shares the lock of the receive buffer.
Parser == Use("session", {"recv_buf", "hdr", "new_frame", "frame_remain"})

\* The payload goes to the stream if there is one, piece by piece.
AppendPayload(x) ==
  LET Window == Use(x, {"recv_buf", "recv_window"})
      Failed == Under(<<x, "recv_lock">>, Window \o session_go_away_for_reason)
      Stored == Under(<<x, "recv_lock">>, Window) \o stream_readable(x)
                  \o Either({session_go_away_for_reason, Parser})
  IN  Parser \o Either({Return, Failed, Stored})

session_handle_data(x) ==
  LET Window == Use(x, {"recv_window"})
      Exceeded == Under(<<x, "recv_lock">>, Window \o session_go_away_for_reason)
      Fits == Under(<<x, "recv_lock">>, Window) \o AppendPayload(x)
      NewFrame == stream_process_flags(x)
                    \o Either({Return, session_go_away_for_reason, Exceeded, Fits})
  IN  Maybe(incoming_stream)
        \o Maybe(session_find_stream \o Either({NewFrame, AppendPayload(x)}))

session_handle_window_update(x) ==
  LET Credit == SendWindow(x) \o stream_writeable(x) \o Maybe(session_go_away_for_reason)
  IN  Maybe(incoming_stream)
        \o Maybe(session_find_stream
             \o Maybe(stream_process_flags(x)
                        \o Either({Return, session_go_away_for_reason, Credit})))

\* The reply, and a go away if it does not fit.
session_handle_ping ==
  Maybe(session_send_buf_write \o Maybe(session_go_away_for_reason))

\* session_handle_go_away uses atomic fields only.
session_handle ==
  Either({session_handle_ping}
           \cup UNION {{session_handle_data(x), session_handle_window_update(x)}
                         : x \in Streams})

session_process ==
  Under(<<"session", "recv_lock">>, Parser \o Maybe(session_handle))

session_recv_buf_write ==
  Under(<<"session", "recv_lock">>, Use("session", {"recv_buf"}))

\* What a thread may call.
Functions(t) ==
  {f \in {session_recv_buf_write, session_process} : t \in Receivers}
    \cup {session_accept(x) : x \in {y \in Streams : t \in Acceptors}}
    \cup {f \in {session_send_buf_write} : t \in Users}
    \cup UNION {{stream_read(x), stream_write(x), session_open(x)}
                  : x \in {y \in Streams : t \in Users}}

-----------------------------------------------------------------------------
(* Threads *)

Init ==
  /\ owner = [l \in Locks |-> "none"]
  /\ todo = [t \in Threads |-> <<>>]
  /\ backlog = 0

Call(t) ==
  /\ todo[t] = <<>>
  /\ \E f \in Functions(t) : todo' = [todo EXCEPT ![t] = f]
  /\ UNCHANGED <<owner, backlog>>

At(t, step) == todo[t] # <<>> /\ Head(todo[t])[1] = step
Wanted(t) == Head(todo[t])[2]
Advance(t) == todo' = [todo EXCEPT ![t] = Tail(@)]

Acquire(t) ==
  /\ At(t, "lock") /\ owner[Wanted(t)] = "none"
  /\ owner' = [owner EXCEPT ![Wanted(t)] = t]
  /\ Advance(t) /\ UNCHANGED backlog

Release(t) ==
  /\ At(t, "unlock")
  /\ owner' = [owner EXCEPT ![Wanted(t)] = "none"]
  /\ Advance(t) /\ UNCHANGED backlog

\* The end of a use, or of a wait in select.
Proceed(t) ==
  /\ At(t, "use") \/ At(t, "select")
  /\ Advance(t) /\ UNCHANGED <<owner, backlog>>

Decide(t) ==
  /\ At(t, "either")
  /\ \E program \in Wanted(t) : todo' = [todo EXCEPT ![t] = program \o Tail(@)]
  /\ UNCHANGED <<owner, backlog>>

Put(t) ==
  /\ At(t, "put") /\ backlog < Backlog
  /\ backlog' = backlog + 1
  /\ Advance(t) /\ UNCHANGED owner

Take(t) ==
  /\ At(t, "take") /\ backlog > 0
  /\ backlog' = backlog - 1
  /\ Advance(t) /\ UNCHANGED owner

Next == \E t \in Threads :
  \/ Call(t) \/ Acquire(t) \/ Release(t) \/ Proceed(t)
  \/ Decide(t) \/ Put(t) \/ Take(t)

Spec == Init /\ [][Next]_vars

-----------------------------------------------------------------------------
(* Properties *)

\* A thread cannot go on unless one outside T does: its lock is held in T, it
\* waits in select for what others do, or the socketpair is full and T has all
\* threads that could empty it.
WaitsFor(t, T) ==
  \/ At(t, "lock") /\ owner[Wanted(t)] \in T
  \/ At(t, "select")
  \/ At(t, "put") /\ backlog = Backlog /\ Acceptors \subseteq T

\* No thread waits for a mutex in a circle of threads that wait for each
\* other, for itself, or for one that select or a full socketpair keeps
\* waiting: the mutexes are always taken in a compatible order, and none is
\* held across a wait that needs it.
NoDeadlock ==
  \A T \in SUBSET Threads :
    (\A t \in T : WaitsFor(t, T)) => \A t \in T : ~At(t, "lock")

\* No two threads use a field at the same time, and a thread that returns to
\* its caller has released what it locked.
NoDataRace ==
  /\ \A t, u \in Threads :
       t # u /\ At(t, "use") /\ At(u, "use") => Wanted(t) \cap Wanted(u) = {}
  /\ \A t \in Threads, l \in Locks : todo[t] = <<>> => owner[l] # t
=============================================================================
