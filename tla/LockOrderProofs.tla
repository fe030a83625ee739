-------------------------- MODULE LockOrderProofs --------------------------
(***************************************************************************)
(* Proofs about module LockOrder, for any number of threads and streams.   *)
(* The mutexes have an order (Rank) and each field a mutex (Guard); a      *)
(* program keeps to the discipline if each of its steps does for the       *)
(* mutexes then held (Safe, defined by the largest set of configurations   *)
(* closed under steps, since a step may lead into any branch).             *)
(*                                                                         *)
(* Runs says that a program is safe before whatever is safe after it, so   *)
(* the rules RunsThen, RunsUnder, RunsEither, ... follow the way programs  *)
(* are put together, and each function of mux.c is shown to run with the   *)
(* mutexes its callers hold.  The invariant says that every thread has a   *)
(* safe program left to do.                                                *)
(***************************************************************************)
EXTENDS LockOrder, SequenceTheorems, TLAPS

-----------------------------------------------------------------------------
(* Programs are sequences, of steps of any kind. *)

IsProgram(P) == \E S : P \in Seq(S)

\* Two programs have their steps in a common set.
LEMMA CommonSteps ==
  ASSUME NEW P, NEW Q, NEW R, IsProgram(P), IsProgram(Q), IsProgram(R)
  PROVE  \E S : P \in Seq(S) /\ Q \in Seq(S) /\ R \in Seq(S)
<1>1. PICK A : P \in Seq(A)
  BY DEF IsProgram
<1>2. PICK B : Q \in Seq(B)
  BY DEF IsProgram
<1>3. PICK C : R \in Seq(C)
  BY DEF IsProgram
<1> DEFINE S == A \cup B \cup C
<1>4. P \in Seq(S) /\ Q \in Seq(S) /\ R \in Seq(S)
  BY <1>1, <1>2, <1>3
<1>. QED
  BY <1>4

\* Programs that follow each other are a program, however they are bracketed.
LEMMA Following ==
  ASSUME NEW P, NEW Q, NEW R, IsProgram(P), IsProgram(Q), IsProgram(R)
  PROVE  /\ IsProgram(P \o Q) /\ (P \o Q) \o R = P \o (Q \o R)
         /\ Return \o Q = Q
<1>1. PICK S : P \in Seq(S) /\ Q \in Seq(S) /\ R \in Seq(S)
  BY CommonSteps
<1>2. P \o Q \in Seq(S)
  BY <1>1
<1>3. (P \o Q) \o R = P \o (Q \o R)
  BY <1>1, ConcatAssociative
<1>4. Return \o Q = Q
  BY <1>1, ConcatEmptySeq DEF Return
<1>. QED
  BY <1>2, <1>3, <1>4 DEF IsProgram

\* A step before a program.
LEMMA StepFirst ==
  ASSUME NEW step, NEW Q, IsProgram(Q)
  PROVE  /\ IsProgram(<<step>>) /\ IsProgram(<<step>> \o Q)
         /\ <<step>> \o Q # << >> /\ Head(<<step>> \o Q) = step
         /\ Tail(<<step>> \o Q) = Q
<1>1. PICK A : Q \in Seq(A)
  BY DEF IsProgram
<1> DEFINE S == A \cup {step}
           P == <<step>> \o Q
<1>2. <<step>> \in Seq(S) /\ Q \in Seq(S) /\ Len(<<step>>) = 1 /\ <<step>>[1] = step
  BY <1>1
<1> HIDE DEF S
<1>3. /\ P \in Seq(S) /\ Len(P) = 1 + Len(Q) /\ Len(Q) \in Nat
      /\ \A i \in 1 .. Len(P) : P[i] = IF i <= 1 THEN step ELSE Q[i - 1]
  BY <1>2, ConcatProperties
<1> HIDE DEF P
<1>4. P # << >> /\ Head(P) = step
  BY <1>3
<1>5. Tail(P) \in Seq(S) /\ Len(Tail(P)) = Len(Q) /\ \A i \in 1 .. Len(Q) : Tail(P)[i] = P[i + 1]
  BY <1>3, <1>4
<1>6. \A i \in 1 .. Len(Q) : Tail(P)[i] = Q[i]
  BY <1>3, <1>5
<1>7. Tail(P) = Q
  BY <1>2, <1>5, <1>6
<1>. QED
  BY <1>2, <1>3, <1>4, <1>7 DEF IsProgram, P

-----------------------------------------------------------------------------
(* The discipline. *)

\* The mutexes are taken in this order.
Rank(l) ==
  IF l[1] = "session" THEN (IF l[2] = "recv_lock" THEN 1 ELSE 4)
  ELSE (IF l[2] = "state_lock" THEN 2 ELSE 3)

SessionRecv == <<"session", "recv_lock">>

\* The mutex that guards a field.
Guard(f) ==
  <<f[1], CASE f[1] = "session" /\ f[2] = "streams" -> "streams_lock"
            [] f[1] = "session" /\ f[2] = "send_buf" -> "send_lock"
            [] f[1] # "session" /\ f[2] = "state" -> "state_lock"
            [] f[1] # "session" /\ f[2] \in {"writeable", "send_window"} -> "send_lock"
            [] OTHER -> "recv_lock">>

\* The first step of program P is right for a thread that may lock M and holds H,
\* and what is left then is in R: a mutex comes after all that are held; a use
\* has the guards of its fields; select and the read of session_accept are called
\* without mutexes, notify_accept with none but the session's recv_lock; and the
\* end is reached without.
Good(M, H, P, R) ==
  /\ IsProgram(P)
  /\ P = << >> => H = {}
  /\ P # << >> =>
       LET kind == Head(P)[1]
           arg == Head(P)[2]
       IN  \/ /\ kind = "lock" /\ arg \in M /\ \A l \in H : Rank(l) < Rank(arg)
              /\ <<H \cup {arg}, Tail(P)>> \in R
           \/ /\ kind = "unlock" /\ arg \in H
              /\ <<H \ {arg}, Tail(P)>> \in R
           \/ /\ kind = "use" /\ \A f \in arg : Guard(f) \in H
              /\ <<H, Tail(P)>> \in R
           \/ /\ kind = "either" /\ \A Q \in arg : <<H, Q \o Tail(P)>> \in R
           \/ /\ kind \in {"select", "take"} /\ H = {}
              /\ <<H, Tail(P)>> \in R
           \/ /\ kind = "put" /\ H \subseteq {SessionRecv}
              /\ <<H, Tail(P)>> \in R

\* Every step from here on is right.
Sound(M, R) == \A H, P : <<H, P>> \in R => Good(M, H, P, R)
Safe(M, H, P) == \E R : Sound(M, R) /\ <<H, P>> \in R

\* A larger set of continuations does no harm.
LEMMA GoodMonotone ==
  ASSUME NEW M, NEW H, NEW P, NEW R, NEW S, R \subseteq S, Good(M, H, P, R)
  PROVE  Good(M, H, P, S)
BY DEF Good

\* A step before safe ones.
LEMMA SafeFold ==
  ASSUME NEW M, NEW H, NEW P, NEW R, Sound(M, R), Good(M, H, P, R)
  PROVE  Safe(M, H, P)
<1> DEFINE S == R \cup {<<H, P>>}
<1>1. Sound(M, S)
  <2> SUFFICES ASSUME NEW G, NEW Q, <<G, Q>> \in S PROVE Good(M, G, Q, S)
    BY DEF Sound
  <2>1. Good(M, G, Q, R)
    <3>1. CASE <<G, Q>> \in R
      BY <3>1 DEF Sound
    <3>2. CASE <<G, Q>> = <<H, P>>
      <4>1. G = H /\ Q = P
        BY <3>2
      <4>. QED
        BY <4>1
    <3>. QED
      BY <3>1, <3>2
  <2>. QED
    BY <2>1, GoodMonotone
<1>. QED
  BY <1>1 DEF Safe

\* Safety of any number of programs has a common witness.
LEMMA SafeTogether ==
  ASSUME NEW M, NEW C, \A H, P : <<H, P>> \in C => Safe(M, H, P),
         \A c \in C : \E H, P : c = <<H, P>>
  PROVE  \E R : Sound(M, R) /\ C \subseteq R
<1> DEFINE W(c) == CHOOSE R : Sound(M, R) /\ c \in R
           U == UNION {W(c) : c \in C}
<1>1. ASSUME NEW c \in C PROVE Sound(M, W(c)) /\ c \in W(c)
  <2>1. \E R : Sound(M, R) /\ c \in R
    BY <1>1 DEF Safe
  <2>. QED
    BY <2>1
<1> HIDE DEF W
<1>2. C \subseteq U
  BY <1>1
<1>3. Sound(M, U)
  <2> SUFFICES ASSUME NEW H, NEW P, <<H, P>> \in U PROVE Good(M, H, P, U)
    BY DEF Sound
  <2>1. PICK c \in C : <<H, P>> \in W(c)
    OBVIOUS
  <2>2. W(c) \subseteq U
    OBVIOUS
  <2>3. Good(M, H, P, W(c))
    BY <1>1, <2>1 DEF Sound
  <2>. QED
    BY <2>2, <2>3, GoodMonotone
<1>. QED
  BY <1>2, <1>3

\* What is known of a thread whose program is safe.
LEMMA SafeUnfold ==
  ASSUME NEW M, NEW H, NEW P, Safe(M, H, P)
  PROVE  /\ IsProgram(P)
         /\ P = << >> => H = {}
         /\ P # << >> =>
              LET kind == Head(P)[1]
                  arg == Head(P)[2]
              IN  \/ /\ kind = "lock" /\ arg \in M /\ \A l \in H : Rank(l) < Rank(arg)
                     /\ Safe(M, H \cup {arg}, Tail(P))
                  \/ kind = "unlock" /\ arg \in H /\ Safe(M, H \ {arg}, Tail(P))
                  \/ /\ kind = "use" /\ \A f \in arg : Guard(f) \in H
                     /\ Safe(M, H, Tail(P))
                  \/ kind = "either" /\ \A Q \in arg : Safe(M, H, Q \o Tail(P))
                  \/ kind \in {"select", "take"} /\ H = {} /\ Safe(M, H, Tail(P))
                  \/ kind = "put" /\ H \subseteq {SessionRecv} /\ Safe(M, H, Tail(P))
<1>1. PICK R : Sound(M, R) /\ <<H, P>> \in R
  BY DEF Safe
<1>2. Good(M, H, P, R)
  BY <1>1 DEF Sound
<1>3. \A G, Q : <<G, Q>> \in R => Safe(M, G, Q)
  BY <1>1 DEF Safe
<1>. QED
  BY <1>2, <1>3 DEF Good

-----------------------------------------------------------------------------
(* Programs that end with the mutexes they began with. *)

Runs(M, H, P) == IsProgram(P) /\ \A Q : Safe(M, H, Q) => Safe(M, H, P \o Q)

\* Safe programs are programs.
LEMMA SafeProgram == \A M, H, P : Safe(M, H, P) => IsProgram(P)
BY SafeUnfold

\* Nothing to do.
LEMMA RunsReturn == \A M, H : Runs(M, H, Return)
<1> SUFFICES ASSUME NEW M, NEW H PROVE Runs(M, H, Return)
  OBVIOUS
<1>1. IsProgram(Return)
  <2>1. << >> \in Seq({})
    OBVIOUS
  <2>. QED
    BY <2>1 DEF IsProgram, Return
<1>2. ASSUME NEW Q, Safe(M, H, Q) PROVE Safe(M, H, Return \o Q)
  <2>1. IsProgram(Q)
    BY <1>2, SafeProgram
  <2>2. Return \o Q = Q
    BY <2>1, Following
  <2>. QED
    BY <1>2, <2>2
<1>. QED
  BY <1>1, <1>2 DEF Runs

\* One after the other.
LEMMA RunsThen ==
  ASSUME NEW M, NEW H, NEW P, NEW R, Runs(M, H, P), Runs(M, H, R)
  PROVE  Runs(M, H, P \o R)
<1>1. IsProgram(P) /\ IsProgram(R)
  BY DEF Runs
<1>2. IsProgram(P \o R)
  BY <1>1, Following
<1>3. ASSUME NEW Q, Safe(M, H, Q) PROVE Safe(M, H, (P \o R) \o Q)
  <2>1. Safe(M, H, R \o Q)
    BY <1>3 DEF Runs
  <2>2. Safe(M, H, P \o (R \o Q))
    BY <2>1 DEF Runs
  <2>3. (P \o R) \o Q = P \o (R \o Q)
    BY <1>1, <1>3, SafeProgram, Following
  <2>. QED
    BY <2>2, <2>3
<1>. QED
  BY <1>2, <1>3 DEF Runs

\* A use of guarded fields, and a wait.
LEMMA RunsStep ==
  ASSUME NEW M, NEW H, NEW kind, NEW arg,
         \/ kind = "use" /\ \A f \in arg : Guard(f) \in H
         \/ kind \in {"select", "take"} /\ H = {}
         \/ kind = "put" /\ H \subseteq {SessionRecv}
  PROVE  Runs(M, H, << <<kind, arg>> >>)
<1> DEFINE step == <<kind, arg>>
<1>0. step[1] = kind /\ step[2] = arg
  OBVIOUS
<1> HIDE DEF step
<1>1. IsProgram(<<step>>)
  BY RunsReturn, StepFirst DEF Runs
<1>2. ASSUME NEW Q, Safe(M, H, Q) PROVE Safe(M, H, <<step>> \o Q)
  <2>1. PICK R : Sound(M, R) /\ <<H, Q>> \in R
    BY <1>2 DEF Safe
  <2>2. PICK P : P = <<step>> \o Q
    OBVIOUS
  <2>3. IsProgram(P) /\ P # << >> /\ Head(P) = step /\ Tail(P) = Q
    BY <1>2, <2>2, SafeProgram, StepFirst
  <2>4. Good(M, H, P, R)
    BY <1>0, <2>1, <2>3 DEF Good
  <2>5. Safe(M, H, P)
    BY <2>1, <2>4, SafeFold
  <2>. QED
    BY <2>2, <2>5
<1>3. Runs(M, H, <<step>>)
  BY <1>1, <1>2 DEF Runs
<1>. QED
  BY <1>3 DEF step

\* A choice.
LEMMA RunsEither ==
  ASSUME NEW M, NEW H, NEW programs, \A P \in programs : Runs(M, H, P)
  PROVE  Runs(M, H, Either(programs))
<1> DEFINE step == <<"either", programs>>
<1>0. step[1] = "either" /\ step[2] = programs
  OBVIOUS
<1> HIDE DEF step
<1>1. IsProgram(<<step>>)
  BY RunsReturn, StepFirst DEF Runs
<1>2. ASSUME NEW Q, Safe(M, H, Q) PROVE Safe(M, H, <<step>> \o Q)
  <2> DEFINE C == {<<H, P \o Q>> : P \in programs}
  <2>1. \A P \in programs : Safe(M, H, P \o Q)
    BY <1>2 DEF Runs
  <2>2. \A G, P : <<G, P>> \in C => Safe(M, G, P)
    BY <2>1
  <2>3. PICK R : Sound(M, R) /\ C \subseteq R
    BY <2>2, SafeTogether
  <2>4. \A P \in programs : <<H, P \o Q>> \in R
    BY <2>3
  <2>5. PICK P : P = <<step>> \o Q
    OBVIOUS
  <2>6. IsProgram(P) /\ P # << >> /\ Head(P) = step /\ Tail(P) = Q
    BY <1>2, <2>5, SafeProgram, StepFirst
  <2>7. Good(M, H, P, R)
    BY <1>0, <2>4, <2>6 DEF Good
  <2>8. Safe(M, H, P)
    BY <2>3, <2>7, SafeFold
  <2>. QED
    BY <2>5, <2>8
<1>3. Runs(M, H, <<step>>)
  BY <1>1, <1>2 DEF Runs
<1>. QED
  BY <1>3 DEF step, Either

\* A choice to do nothing.
LEMMA RunsMaybe ==
  ASSUME NEW M, NEW H, NEW P, Runs(M, H, P)
  PROVE  Runs(M, H, Maybe(P))
BY RunsReturn, RunsEither DEF Maybe

\* A critical section: its mutex comes after those held.
LEMMA RunsUnder ==
  ASSUME NEW M, NEW H, NEW l \in M, \A k \in H : Rank(k) < Rank(l), Rank(l) \in Nat,
         NEW P, Runs(M, H \cup {l}, P)
  PROVE  Runs(M, H, Under(l, P))
<1> DEFINE G == H \cup {l}
           lock == <<"lock", l>>
           unlock == <<"unlock", l>>
<1>0. /\ lock[1] = "lock" /\ lock[2] = l /\ unlock[1] = "unlock" /\ unlock[2] = l
      /\ l \in G /\ G \ {l} = H /\ Runs(M, G, P)
  BY SMT
<1> HIDE DEF lock, unlock
<1>1. IsProgram(<<lock>>) /\ IsProgram(<<unlock>>) /\ IsProgram(P)
  BY <1>0, RunsReturn, StepFirst DEF Runs
<1>2. IsProgram(<<lock>> \o P) /\ IsProgram(<<lock>> \o P \o <<unlock>>)
  BY <1>1, Following
<1>3. ASSUME NEW Q, Safe(M, H, Q) PROVE Safe(M, H, (<<lock>> \o P \o <<unlock>>) \o Q)
  <2>1. PICK U : U = <<unlock>> \o Q
    OBVIOUS
  <2>2. IsProgram(Q) /\ IsProgram(U) /\ U # << >> /\ Head(U) = unlock /\ Tail(U) = Q
    BY <1>3, <2>1, SafeProgram, StepFirst
  <2>3. PICK R : Sound(M, R) /\ <<H, Q>> \in R
    BY <1>3 DEF Safe
  <2>4. Good(M, G, U, R)
    BY <1>0, <2>2, <2>3 DEF Good
  <2>5. Safe(M, G, U)
    BY <2>3, <2>4, SafeFold
  <2>6. Safe(M, G, P \o U) /\ IsProgram(P \o U)
    BY <1>0, <2>5, SafeProgram DEF Runs
  <2>7. PICK L : L = <<lock>> \o (P \o U)
    OBVIOUS
  <2>8. IsProgram(L) /\ L # << >> /\ Head(L) = lock /\ Tail(L) = P \o U
    BY <2>6, <2>7, StepFirst
  <2>9. PICK S : Sound(M, S) /\ <<G, P \o U>> \in S
    BY <2>6 DEF Safe
  <2>10. Good(M, H, L, S)
    BY <1>0, <2>8, <2>9 DEF Good
  <2>11. Safe(M, H, L)
    BY <2>9, <2>10, SafeFold
  <2>12. (<<lock>> \o P \o <<unlock>>) \o Q = <<lock>> \o (P \o U)
    <3>1. (<<lock>> \o P \o <<unlock>>) \o Q = (<<lock>> \o P) \o U
      BY <1>1, <1>2, <2>1, <2>2, Following, SMTT(20)
    <3>2. (<<lock>> \o P) \o U = <<lock>> \o (P \o U)
      BY <1>1, <2>2, Following
    <3>. QED
      BY <3>1, <3>2
  <2>. QED
    BY <2>7, <2>11, <2>12
<1>4. Runs(M, H, <<lock>> \o P \o <<unlock>>)
  BY <1>2, <1>3 DEF Runs
<1>. QED
  BY <1>4 DEF lock, unlock, Under

-----------------------------------------------------------------------------
(* The functions of mux.c. *)

Before(H, n) == \A l \in H : Rank(l) < n

\* Mutexes that every thread may lock.
Common == Locks \ {SessionRecv}

\* The mutexes and their ranks.
LEMMA LockFacts ==
  /\ <<"session", "send_lock">> \in Common /\ Rank(<<"session", "send_lock">>) = 4
  /\ <<"session", "streams_lock">> \in Common /\ Rank(<<"session", "streams_lock">>) = 4
  /\ SessionRecv \in Locks /\ Rank(SessionRecv) = 1
  /\ \A x \in Streams :
       /\ <<x, "state_lock">> \in Common /\ Rank(<<x, "state_lock">>) = 2
       /\ <<x, "recv_lock">> \in Common /\ Rank(<<x, "recv_lock">>) = 3
       /\ <<x, "send_lock">> \in Common /\ Rank(<<x, "send_lock">>) = 3
<1>1. \A x \in Streams : x # "session"
  BY LockOrderAssumption DEF LockOrderAssumption
<1>. QED
  BY <1>1 DEF Locks, Common, SessionRecv, Rank

\* The guards of the fields.
LEMMA GuardFacts ==
  /\ \A f \in {"session"} \X {"streams"} : Guard(f) = <<"session", "streams_lock">>
  /\ \A f \in {"session"} \X {"send_buf"} : Guard(f) = <<"session", "send_lock">>
  /\ \A f \in {"session"} \X {"recv_buf", "hdr", "new_frame", "frame_remain"} :
       Guard(f) = SessionRecv
  /\ \A x \in Streams :
       /\ \A f \in {x} \X {"state"} : Guard(f) = <<x, "state_lock">>
       /\ \A f \in {x} \X {"writeable", "send_window"} : Guard(f) = <<x, "send_lock">>
       /\ \A f \in {x} \X {"readable", "recv_buf", "recv_window"} :
            Guard(f) = <<x, "recv_lock">>
<1>1. \A x \in Streams : x # "session"
  BY LockOrderAssumption DEF LockOrderAssumption
<1>. QED
  BY <1>1 DEF Guard, SessionRecv

\* One more mutex is held, and one of higher rank may follow.
LEMMA BeforeMore ==
  ASSUME NEW H, NEW l, NEW n \in Nat, NEW m \in Nat, Before(H, n), Rank(l) = n, n < m
  PROVE  Before(H \cup {l}, m) /\ Before(H, m)
<1>1. \A k : Rank(k) \in Nat
  BY DEF Rank
<1>. QED
  BY <1>1 DEF Before

\* A critical section without further mutexes.
LEMMA RunsSection ==
  ASSUME NEW M, NEW H, NEW l \in M, Before(H, Rank(l)), NEW o, NEW fields,
         \A f \in {o} \X fields : Guard(f) = l
  PROVE  Runs(M, H, Under(l, Use(o, fields)))
<1>1. Runs(M, H \cup {l}, Use(o, fields))
  BY RunsStep DEF Use
<1>2. Rank(l) \in Nat
  BY DEF Rank
<1>. QED
  BY <1>1, <1>2, RunsUnder DEF Before

\* The session's last mutexes may be taken under any of a stream.
LEMMA SessionRuns ==
  ASSUME NEW M, Common \subseteq M, NEW H, Before(H, 4)
  PROVE  /\ Runs(M, H, session_find_stream)
         /\ Runs(M, H, session_send_buf_write)
         /\ Runs(M, H, session_go_away_for_reason)
BY LockFacts, GuardFacts, RunsSection
   DEF session_find_stream, session_send_buf_write, session_go_away_for_reason

\* The sections of a stream's recv_lock and send_lock.
LEMMA StreamSections ==
  ASSUME NEW M, Common \subseteq M, NEW H, Before(H, 3), NEW x \in Streams
  PROVE  /\ Runs(M, H, stream_writeable(x)) /\ Runs(M, H, stream_readable(x))
         /\ Runs(M, H, stream_notify_waiting(x))
         /\ Runs(M, H, CheckPending(x)) /\ Runs(M, H, SendWindow(x))
         /\ Runs(M, H, Under(<<x, "recv_lock">>, Use(x, {"recv_buf", "recv_window"})))
         /\ Runs(M, H, Under(<<x, "recv_lock">>, Use(x, {"recv_window"})))
<1>1. /\ <<x, "recv_lock">> \in M /\ <<x, "send_lock">> \in M
      /\ Before(H, Rank(<<x, "recv_lock">>)) /\ Before(H, Rank(<<x, "send_lock">>))
  BY LockFacts
<1>2. /\ \A f \in {x} \X {"writeable"} : Guard(f) = <<x, "send_lock">>
      /\ \A f \in {x} \X {"send_window"} : Guard(f) = <<x, "send_lock">>
      /\ \A f \in {x} \X {"readable"} : Guard(f) = <<x, "recv_lock">>
      /\ \A f \in {x} \X {"recv_buf"} : Guard(f) = <<x, "recv_lock">>
      /\ \A f \in {x} \X {"recv_window"} : Guard(f) = <<x, "recv_lock">>
      /\ \A f \in {x} \X {"recv_buf", "recv_window"} : Guard(f) = <<x, "recv_lock">>
  BY GuardFacts
<1>3. Runs(M, H, stream_writeable(x)) /\ Runs(M, H, stream_readable(x))
  BY <1>1, <1>2, RunsSection DEF stream_writeable, stream_readable
<1>4. Runs(M, H, stream_notify_waiting(x))
  BY <1>3, RunsThen DEF stream_notify_waiting
<1>5. Runs(M, H, CheckPending(x)) /\ Runs(M, H, SendWindow(x))
  BY <1>1, <1>2, RunsSection DEF CheckPending, SendWindow
<1>6. /\ Runs(M, H, Under(<<x, "recv_lock">>, Use(x, {"recv_buf", "recv_window"})))
      /\ Runs(M, H, Under(<<x, "recv_lock">>, Use(x, {"recv_window"})))
  BY <1>1, <1>2, RunsSection
<1>. QED
  BY <1>3, <1>4, <1>5, <1>6

\* The sections of a stream's state_lock: stream_process_flags takes the other
\* two inside, one after the other.
LEMMA StateSections ==
  ASSUME NEW M, Common \subseteq M, NEW H, Before(H, 2), NEW x \in Streams
  PROVE  Runs(M, H, stream_send_flags(x)) /\ Runs(M, H, stream_process_flags(x))
<1> DEFINE l == <<x, "state_lock">>
           G == H \cup {l}
           Change == Use(x, {"state"}) \o Maybe(stream_notify_waiting(x))
<1>1. l \in M /\ Rank(l) = 2 /\ \A f \in {x} \X {"state"} : Guard(f) = l
  BY LockFacts, GuardFacts
<1>2. Before(G, 3)
  BY <1>1, BeforeMore
<1>3. Runs(M, G, Use(x, {"state"}))
  BY <1>1, RunsStep DEF Use
<1>4. Runs(M, G, Maybe(stream_notify_waiting(x)))
  BY <1>2, StreamSections, RunsMaybe
<1>5. Runs(M, G, Change)
  BY <1>3, <1>4, RunsThen
<1> HIDE DEF Change, l
<1>6. Runs(M, G, Change \o Maybe(Change))
  BY <1>5, RunsMaybe, RunsThen
<1>7. Runs(M, H, Under(l, Change \o Maybe(Change)))
  BY <1>1, <1>6, RunsUnder DEF Before
<1>8. Runs(M, H, Under(l, Use(x, {"state"})))
  BY <1>1, RunsSection
<1>. QED
  BY <1>7, <1>8 DEF stream_send_flags, stream_process_flags, Change, l

\* send_window_update has none of its mutexes while it takes the next.
LEMMA UpdateRuns ==
  ASSUME NEW M, Common \subseteq M, NEW H, Before(H, 2), NEW x \in Streams
  PROVE  Runs(M, H, send_window_update(x))
<1>1. Before(H, 3) /\ Before(H, 4)
  BY DEF Before, Rank
<1>2. Runs(M, H, stream_send_flags(x))
  BY StateSections
<1>3. Runs(M, H, Under(<<x, "recv_lock">>, Use(x, {"recv_buf", "recv_window"})))
  BY <1>1, StreamSections
<1>4. Runs(M, H, Maybe(session_send_buf_write))
  BY <1>1, SessionRuns, RunsMaybe
<1>. QED
  BY <1>2, <1>3, <1>4, RunsThen DEF send_window_update

\* What users and acceptors call runs without a mutex, also where it waits.
LEMMA CallRuns ==
  ASSUME NEW M, Common \subseteq M, NEW x \in Streams
  PROVE  /\ Runs(M, {}, stream_read(x)) /\ Runs(M, {}, stream_write(x))
         /\ Runs(M, {}, session_open(x)) /\ Runs(M, {}, session_accept(x))
<1>1. Before({}, 2) /\ Before({}, 3) /\ Before({}, 4)
  BY DEF Before
<1>2. /\ Runs(M, {}, session_find_stream) /\ Runs(M, {}, session_send_buf_write)
      /\ Runs(M, {}, session_go_away_for_reason)
  BY <1>1, SessionRuns
<1>3. /\ Runs(M, {}, stream_writeable(x)) /\ Runs(M, {}, stream_readable(x))
      /\ Runs(M, {}, CheckPending(x)) /\ Runs(M, {}, SendWindow(x))
  BY <1>1, StreamSections
<1>4. Runs(M, {}, stream_send_flags(x)) /\ Runs(M, {}, send_window_update(x))
  BY <1>1, StateSections, UpdateRuns
<1>5. Runs(M, {}, Wait("select")) /\ Runs(M, {}, Wait("take")) /\ Runs(M, {}, Return)
  BY RunsStep, RunsReturn DEF Wait
<1>6. Runs(M, {}, stream_read(x))
  <2> DEFINE l == <<x, "state_lock">>
             Taking == CheckPending(x) \o Maybe(stream_readable(x)) \o Maybe(send_window_update(x))
  <2>1. l \in M /\ Rank(l) = 2 /\ \A f \in {x} \X {"state"} : Guard(f) = l
    BY LockFacts, GuardFacts
  <2>2. Before({l}, 3)
    BY <2>1 DEF Before
  <2>3. Runs(M, {l}, Use(x, {"state"})) /\ Runs(M, {l}, Maybe(CheckPending(x)))
    BY <2>1, <2>2, RunsStep, StreamSections, RunsMaybe DEF Use
  <2>4. Runs(M, {} \cup {l}, Use(x, {"state"}) \o Maybe(CheckPending(x)))
    BY <2>3, RunsThen
  <2>5. Runs(M, {}, Under(l, Use(x, {"state"}) \o Maybe(CheckPending(x))))
    BY <2>1, <2>4, RunsUnder
  <2>6. Runs(M, {}, Maybe(stream_readable(x))) /\ Runs(M, {}, Maybe(send_window_update(x)))
    BY <1>3, <1>4, RunsMaybe
  <2>7. Runs(M, {}, Taking)
    BY <1>3, <2>6, RunsThen
  <2> HIDE DEF Taking
  <2>8. Runs(M, {}, Either({Return, Wait("select"), Taking}))
    BY <1>5, <2>7, RunsEither
  <2>9. Runs(M, {}, Maybe(CheckPending(x) \o Either({Return, Wait("select"), Taking})))
    BY <1>3, <2>8, RunsThen, RunsMaybe
  <2>. QED
    BY <2>5, <2>9, RunsThen DEF stream_read, Taking
<1>7. Runs(M, {}, stream_write(x))
  <2> DEFINE Reduce == SendWindow(x)
                         \o Maybe(stream_writeable(x) \o Maybe(session_go_away_for_reason))
             Send == stream_send_flags(x) \o session_send_buf_write
                       \o Maybe(session_send_buf_write \o Maybe(Reduce))
  <2>1. Runs(M, {}, Maybe(stream_writeable(x) \o Maybe(session_go_away_for_reason)))
    BY <1>2, <1>3, RunsMaybe, RunsThen
  <2>2. Runs(M, {}, Reduce)
    BY <1>3, <2>1, RunsThen
  <2> HIDE DEF Reduce
  <2>3. Runs(M, {}, Maybe(session_send_buf_write \o Maybe(Reduce)))
    BY <1>2, <2>2, RunsMaybe, RunsThen
  <2>4. Runs(M, {}, stream_send_flags(x) \o session_send_buf_write)
    BY <1>2, <1>4, RunsThen
  <2>5. Runs(M, {}, Send)
    BY <2>3, <2>4, RunsThen
  <2> HIDE DEF Send
  <2>6. Runs(M, {}, Either({Return, Wait("select"), Send}))
    BY <1>5, <2>5, RunsEither
  <2>7. Runs(M, {}, Maybe(SendWindow(x) \o Either({Return, Wait("select"), Send})))
    BY <1>3, <2>6, RunsThen, RunsMaybe
  <2>. QED
    BY <1>4, <2>7, RunsThen DEF stream_write, Send, Reduce
<1>8. Runs(M, {}, session_open(x))
  <2>1. Runs(M, {}, session_find_stream \o send_window_update(x))
    BY <1>2, <1>4, RunsThen
  <2>2. Runs(M, {}, Maybe(session_find_stream))
    BY <1>2, RunsMaybe
  <2>. QED
    BY <2>1, <2>2, RunsThen, RunsMaybe DEF session_open
<1>9. Runs(M, {}, session_accept(x))
  <2>1. Runs(M, {}, Wait("take") \o session_find_stream)
    BY <1>2, <1>5, RunsThen
  <2>2. Runs(M, {}, Wait("take") \o session_find_stream \o send_window_update(x))
    BY <1>4, <2>1, RunsThen
  <2>. QED
    BY <1>2, <2>2, RunsEither DEF session_accept
<1>. QED
  BY <1>6, <1>7, <1>8, <1>9

\* The frame handlers run under the session's recv_lock, incoming_stream also
\* where notify_accept waits for room.
LEMMA HandlerRuns ==
  ASSUME NEW M, Common \subseteq M, NEW x \in Streams
  PROVE  LET H == {SessionRecv} IN
         /\ Runs(M, H, session_handle_data(x))
         /\ Runs(M, H, session_handle_window_update(x))
         /\ Runs(M, H, session_handle_ping)
<1> DEFINE H == {SessionRecv}
<1>1. Before(H, 2) /\ Before(H, 3) /\ Before(H, 4)
  BY LockFacts DEF Before
<1>2. /\ Runs(M, H, session_find_stream) /\ Runs(M, H, session_send_buf_write)
      /\ Runs(M, H, session_go_away_for_reason)
  BY <1>1, SessionRuns
<1>3. /\ Runs(M, H, stream_writeable(x)) /\ Runs(M, H, stream_readable(x))
      /\ Runs(M, H, SendWindow(x))
      /\ Runs(M, H, Under(<<x, "recv_lock">>, Use(x, {"recv_buf", "recv_window"})))
      /\ Runs(M, H, Under(<<x, "recv_lock">>, Use(x, {"recv_window"})))
  BY <1>1, StreamSections
<1>4. Runs(M, H, stream_process_flags(x))
  BY <1>1, StateSections
<1>5. Runs(M, H, notify_accept) /\ Runs(M, H, Return)
  BY RunsStep, RunsReturn DEF Wait, notify_accept
<1>6. Runs(M, H, Parser)
  BY GuardFacts, RunsStep DEF Parser, Use
<1> HIDE DEF H
<1>7. Runs(M, H, Maybe(incoming_stream))
  <2> DEFINE Undo == session_go_away_for_reason \o session_find_stream
             Insert == session_find_stream \o Either({notify_accept, Undo})
             Try == session_find_stream \o Either({session_go_away_for_reason, Insert})
  <2>1. Runs(M, H, Undo)
    BY <1>2, RunsThen
  <2> HIDE DEF Undo
  <2>2. Runs(M, H, Either({notify_accept, Undo}))
    BY <1>5, <2>1, RunsEither
  <2>3. Runs(M, H, Insert)
    BY <1>2, <2>2, RunsThen
  <2> HIDE DEF Insert
  <2>4. Runs(M, H, Either({session_go_away_for_reason, Insert}))
    BY <1>2, <2>3, RunsEither
  <2>5. Runs(M, H, Try)
    BY <1>2, <2>4, RunsThen
  <2> HIDE DEF Try
  <2>6. Runs(M, H, Either({session_send_buf_write, Try}))
    BY <1>2, <2>5, RunsEither
  <2>. QED
    BY <2>6, RunsMaybe DEF incoming_stream, Try, Insert, Undo
<1>8. \A fields \in {{"recv_window"}, {"recv_buf", "recv_window"}} :
        Runs(M, H, Under(<<x, "recv_lock">>, Use(x, fields) \o session_go_away_for_reason))
  <2> SUFFICES ASSUME NEW fields \in {{"recv_window"}, {"recv_buf", "recv_window"}}
               PROVE  Runs(M, H, Under(<<x, "recv_lock">>,
                                       Use(x, fields) \o session_go_away_for_reason))
    OBVIOUS
  <2> DEFINE l == <<x, "recv_lock">>
             G == H \cup {l}
  <2>1. l \in M /\ Rank(l) = 3 /\ \A f \in {x} \X fields : Guard(f) = l
    BY LockFacts, GuardFacts
  <2>2. Before(G, 4)
    BY <1>1, <2>1, BeforeMore
  <2>3. Runs(M, G, Use(x, fields)) /\ Runs(M, G, session_go_away_for_reason)
    BY <2>1, <2>2, RunsStep, SessionRuns DEF Use
  <2>4. Runs(M, G, Use(x, fields) \o session_go_away_for_reason)
    BY <2>3, RunsThen
  <2>. QED
    BY <1>1, <2>1, <2>4, RunsUnder DEF Before
<1>9. Runs(M, H, AppendPayload(x))
  <2> DEFINE Window == Use(x, {"recv_buf", "recv_window"})
             Failed == Under(<<x, "recv_lock">>, Window \o session_go_away_for_reason)
             Stored == Under(<<x, "recv_lock">>, Window) \o stream_readable(x)
                         \o Either({session_go_away_for_reason, Parser})
  <2>1. Runs(M, H, Either({session_go_away_for_reason, Parser}))
    BY <1>2, <1>6, RunsEither
  <2>2. Runs(M, H, Failed)
    BY <1>8
  <2>3. Runs(M, H, Under(<<x, "recv_lock">>, Window) \o stream_readable(x))
    BY <1>3, RunsThen
  <2>4. Runs(M, H, Stored)
    BY <2>1, <2>3, RunsThen
  <2> HIDE DEF Failed, Stored
  <2>5. Runs(M, H, Either({Return, Failed, Stored}))
    BY <1>5, <2>2, <2>4, RunsEither
  <2>. QED
    BY <1>6, <2>5, RunsThen DEF AppendPayload, Failed, Stored
<1>10. Runs(M, H, session_handle_data(x))
  <2> DEFINE Window == Use(x, {"recv_window"})
             Exceeded == Under(<<x, "recv_lock">>, Window \o session_go_away_for_reason)
             Fits == Under(<<x, "recv_lock">>, Window) \o AppendPayload(x)
             NewFrame == stream_process_flags(x)
                           \o Either({Return, session_go_away_for_reason, Exceeded, Fits})
             Handle == session_find_stream \o Either({NewFrame, AppendPayload(x)})
  <2>1. Runs(M, H, Exceeded)
    BY <1>8
  <2>2. Runs(M, H, Fits)
    BY <1>3, <1>9, RunsThen
  <2> HIDE DEF Exceeded, Fits
  <2>3. Runs(M, H, Either({Return, session_go_away_for_reason, Exceeded, Fits}))
    BY <1>2, <1>5, <2>1, <2>2, RunsEither
  <2>4. Runs(M, H, NewFrame)
    BY <1>4, <2>3, RunsThen
  <2> HIDE DEF NewFrame
  <2>5. Runs(M, H, Either({NewFrame, AppendPayload(x)}))
    BY <1>9, <2>4, RunsEither
  <2>6. Runs(M, H, Maybe(Handle))
    BY <1>2, <2>5, RunsThen, RunsMaybe
  <2> HIDE DEF Handle
  <2>7. Runs(M, H, Maybe(incoming_stream) \o Maybe(Handle))
    BY <1>7, <2>6, RunsThen
  <2>. QED
    BY <2>7 DEF session_handle_data, Handle, NewFrame, Fits, Exceeded
<1>11. Runs(M, H, session_handle_window_update(x))
  <2> DEFINE Credit == SendWindow(x) \o stream_writeable(x) \o Maybe(session_go_away_for_reason)
             Apply == stream_process_flags(x)
                        \o Either({Return, session_go_away_for_reason, Credit})
             Handle == session_find_stream \o Maybe(Apply)
  <2>1. Runs(M, H, SendWindow(x) \o stream_writeable(x))
    BY <1>3, RunsThen
  <2>2. Runs(M, H, Maybe(session_go_away_for_reason))
    BY <1>2, RunsMaybe
  <2>3. Runs(M, H, Credit)
    BY <2>1, <2>2, RunsThen
  <2> HIDE DEF Credit
  <2>4. Runs(M, H, Either({Return, session_go_away_for_reason, Credit}))
    BY <1>2, <1>5, <2>3, RunsEither
  <2>5. Runs(M, H, Apply)
    BY <1>4, <2>4, RunsThen
  <2> HIDE DEF Apply
  <2>6. Runs(M, H, Handle)
    BY <1>2, <2>5, RunsMaybe, RunsThen
  <2> HIDE DEF Handle
  <2>7. Runs(M, H, Maybe(incoming_stream) \o Maybe(Handle))
    BY <1>7, <2>6, RunsMaybe, RunsThen
  <2>. QED
    BY <2>7 DEF session_handle_window_update, Handle, Apply, Credit
<1>12. Runs(M, H, session_handle_ping)
  <2>1. Runs(M, H, session_send_buf_write \o Maybe(session_go_away_for_reason))
    BY <1>2, RunsMaybe, RunsThen
  <2>. QED
    BY <2>1, RunsMaybe DEF session_handle_ping
<1>. QED
  BY <1>10, <1>11, <1>12 DEF H

\* What the receive threads call.
LEMMA ReceiverRuns ==
  /\ Runs(Locks, {}, session_process)
  /\ Runs(Locks, {}, session_recv_buf_write)
<1> DEFINE H == {SessionRecv}
           handlers == {session_handle_ping}
             \cup UNION {{session_handle_data(x), session_handle_window_update(x)}
                           : x \in Streams}
<1>1. Common \subseteq Locks /\ SessionRecv \in Locks /\ Rank(SessionRecv) = 1
  BY LockFacts DEF Common
<1>2. \A f \in {"session"} \X {"recv_buf", "hdr", "new_frame", "frame_remain"} :
        Guard(f) \in H
  BY GuardFacts
<1>3. Runs(Locks, H, Parser) /\ Runs(Locks, H, Use("session", {"recv_buf"}))
  BY <1>2, RunsStep DEF Parser, Use
<1>4. \A P \in handlers : Runs(Locks, H, P)
  <2>1. Runs(Locks, H, session_handle_ping)
    <3>1. Before(H, 4)
      BY <1>1 DEF Before
    <3>2. Runs(Locks, H, session_send_buf_write) /\ Runs(Locks, H, session_go_away_for_reason)
      BY <1>1, <3>1, SessionRuns
    <3>3. Runs(Locks, H, session_send_buf_write \o Maybe(session_go_away_for_reason))
      BY <3>2, RunsMaybe, RunsThen
    <3>. QED
      BY <3>3, RunsMaybe DEF session_handle_ping
  <2>2. \A x \in Streams : /\ Runs(Locks, H, session_handle_data(x))
                           /\ Runs(Locks, H, session_handle_window_update(x))
    BY <1>1, HandlerRuns
  <2>. QED
    BY <2>1, <2>2
<1> HIDE DEF handlers
<1>5. Runs(Locks, H, Maybe(Either(handlers)))
  BY <1>4, RunsEither, RunsMaybe
<1>6. Runs(Locks, {} \cup {SessionRecv}, Parser \o Maybe(Either(handlers)))
  BY <1>3, <1>5, RunsThen
<1>7. Runs(Locks, {}, session_process)
  BY <1>1, <1>6, RunsUnder DEF session_process, session_handle, SessionRecv, handlers
<1>8. Runs(Locks, {} \cup {SessionRecv}, Use("session", {"recv_buf"}))
  BY <1>3
<1>9. Runs(Locks, {}, session_recv_buf_write)
  BY <1>1, <1>8, RunsUnder DEF session_recv_buf_write, SessionRecv
<1>. QED
  BY <1>7, <1>9

-----------------------------------------------------------------------------
(* Threads. *)

Held(t) == {l \in Locks : owner[l] = t}

\* Only receivers lock the session's recv_lock.
May(t) == IF t \in Receivers THEN Locks ELSE Common

\* The inductive invariant: every thread runs a safe program with what it holds.
IInv ==
  /\ owner \in [Locks -> Threads \cup {"none"}] /\ DOMAIN todo = Threads
  /\ todo = [t \in Threads |-> todo[t]]
  /\ \A t \in Threads : Held(t) \subseteq May(t) /\ Safe(May(t), Held(t), todo[t])

\* The end of a function, without mutexes, is safe.
LEMMA SafeEnd == \A M : Safe(M, {}, << >>)
<1> SUFFICES ASSUME NEW M PROVE Safe(M, {}, << >>)
  OBVIOUS
<1> DEFINE R == {<<{}, << >> >>}
<1>1. IsProgram(<< >>)
  BY RunsReturn DEF Runs, Return
<1>2. ASSUME NEW H, NEW P, <<H, P>> \in R PROVE H = {} /\ P = << >>
  BY <1>2
<1>3. Sound(M, R)
  BY <1>1, <1>2 DEF Sound, Good
<1>. QED
  BY <1>3 DEF Safe

\* A function is called without mutexes.
LEMMA FunctionsSafe ==
  ASSUME NEW t \in Threads, NEW f \in Functions(t)
  PROVE  Safe(May(t), {}, f)
<1>1. Common \subseteq May(t)
  BY DEF May, Common
<1>2. Runs(May(t), {}, f)
  <2>1. CASE t \in Receivers /\ f \in {session_recv_buf_write, session_process}
    BY <2>1, ReceiverRuns DEF May
  <2>2. CASE \E x \in Streams : f \in {session_accept(x), stream_read(x), stream_write(x),
                                       session_open(x)}
    BY <1>1, <2>2, CallRuns
  <2>3. CASE f = session_send_buf_write
    <3>1. Before({}, 4)
      BY DEF Before
    <3>. QED
      BY <1>1, <2>3, <3>1, SessionRuns
  <2>. QED
    BY <2>1, <2>2, <2>3 DEF Functions
<1>3. Safe(May(t), {}, << >>)
  BY SafeEnd
<1>4. Safe(May(t), {}, f \o << >>) /\ IsProgram(f)
  BY <1>2, <1>3 DEF Runs
<1>5. f \o << >> = f
  <2>1. PICK S : f \in Seq(S)
    BY <1>4 DEF IsProgram
  <2>. QED
    BY <2>1, ConcatEmptySeq
<1>. QED
  BY <1>4, <1>5

\* A step of thread t changes what t has to do, and what nobody else holds.
LEMMA OneThread ==
  ASSUME IInv, NEW t \in Threads, NEW P, todo' = [todo EXCEPT ![t] = P],
         owner' \in [Locks -> Threads \cup {"none"}],
         \A l \in Locks : owner'[l] # owner[l] => {owner[l], owner'[l]} \subseteq {t, "none"},
         Held(t)' \subseteq May(t), Safe(May(t), Held(t)', P)
  PROVE  IInv'
<1>0. "none" \notin Threads
  BY LockOrderAssumption DEF LockOrderAssumption
<1>1. /\ DOMAIN todo' = Threads /\ todo' = [u \in Threads |-> todo'[u]]
      /\ todo'[t] = P /\ \A u \in Threads \ {t} : todo'[u] = todo[u]
  BY DEF IInv
<1>2. ASSUME NEW u \in Threads \ {t} PROVE Held(u)' = Held(u)
  <2>1. \A l \in Locks : owner'[l] = u <=> owner[l] = u
    BY <1>0
  <2>. QED
    BY <2>1 DEF Held
<1>3. \A u \in Threads : Held(u)' \subseteq May(u) /\ Safe(May(u), Held(u)', todo'[u])
  BY <1>1, <1>2 DEF IInv
<1>. QED
  BY <1>1, <1>3 DEF IInv

\* What is left to do after a step of a safe program is safe.
LEMMA NextInv == IInv /\ [Next]_vars => IInv'
<1> SUFFICES ASSUME IInv, [Next]_vars PROVE IInv'
  OBVIOUS
<1>0. "none" \notin Threads
  BY LockOrderAssumption DEF LockOrderAssumption
<1>1. CASE UNCHANGED vars
  BY <1>1 DEF IInv, vars, Held
<1>2. ASSUME NEW t \in Threads,
             \/ Call(t) \/ Acquire(t) \/ Release(t) \/ Proceed(t)
             \/ Decide(t) \/ Put(t) \/ Take(t)
      PROVE  IInv'
  <2> DEFINE kind == Head(todo[t])[1]
             arg == Head(todo[t])[2]
             M == May(t)
  <2>1. Safe(M, Held(t), todo[t]) /\ Held(t) \subseteq M /\ M \subseteq Locks
    BY DEF IInv, May, Common
  <2>2. /\ todo[t] = << >> => Held(t) = {}
        /\ todo[t] # << >> =>
             \/ /\ kind = "lock" /\ arg \in M /\ \A l \in Held(t) : Rank(l) < Rank(arg)
                /\ Safe(M, Held(t) \cup {arg}, Tail(todo[t]))
             \/ kind = "unlock" /\ arg \in Held(t) /\ Safe(M, Held(t) \ {arg}, Tail(todo[t]))
             \/ /\ kind = "use" /\ \A f \in arg : Guard(f) \in Held(t)
                /\ Safe(M, Held(t), Tail(todo[t]))
             \/ kind = "either" /\ \A Q \in arg : Safe(M, Held(t), Q \o Tail(todo[t]))
             \/ kind \in {"select", "take"} /\ Held(t) = {} /\ Safe(M, Held(t), Tail(todo[t]))
             \/ /\ kind = "put" /\ Held(t) \subseteq {SessionRecv}
                /\ Safe(M, Held(t), Tail(todo[t]))
    BY <2>1, SafeUnfold
  <2>3. owner \in [Locks -> Threads \cup {"none"}]
    BY DEF IInv
  <2>4. ASSUME NEW P, UNCHANGED owner, todo' = [todo EXCEPT ![t] = P], Safe(M, Held(t), P)
        PROVE  IInv'
    <3>1. Held(t)' = Held(t)
      BY <2>4 DEF Held
    <3>. QED
      BY <2>1, <2>3, <2>4, <3>1, OneThread
  <2>5. CASE Call(t)
    <3>1. PICK f \in Functions(t) : todo' = [todo EXCEPT ![t] = f]
      BY <2>5 DEF Call
    <3>2. Held(t) = {} /\ UNCHANGED owner
      BY <2>2, <2>5 DEF Call
    <3>3. Safe(M, Held(t), f)
      BY <3>2, FunctionsSafe
    <3>. QED
      BY <2>4, <3>1, <3>2, <3>3
  <2>6. CASE Acquire(t)
    <3>1. /\ todo[t] # << >> /\ kind = "lock" /\ owner[arg] = "none"
          /\ owner' = [owner EXCEPT ![arg] = t] /\ todo' = [todo EXCEPT ![t] = Tail(todo[t])]
      BY <2>6 DEF Acquire, At, Wanted, Advance
    <3>2. arg \in M /\ arg \in Locks /\ Safe(M, Held(t) \cup {arg}, Tail(todo[t]))
      BY <2>1, <2>2, <3>1
    <3> HIDE DEF arg, kind, M
    <3>3. /\ owner' \in [Locks -> Threads \cup {"none"}]
          /\ \A l \in Locks : owner'[l] = IF l = arg THEN t ELSE owner[l]
      BY <2>3, <3>1, <3>2
    <3>4. Held(t)' = Held(t) \cup {arg}
      BY <3>2, <3>3 DEF Held
    <3>5. \A l \in Locks : owner'[l] # owner[l] => {owner[l], owner'[l]} \subseteq {t, "none"}
      BY <3>1, <3>3
    <3>6. Held(t)' \subseteq May(t) /\ Safe(May(t), Held(t)', Tail(todo[t]))
      BY <2>1, <3>2, <3>4 DEF M
    <3>. QED
      BY <3>1, <3>3, <3>5, <3>6, OneThread
  <2>7. CASE Release(t)
    <3>1. /\ todo[t] # << >> /\ kind = "unlock"
          /\ owner' = [owner EXCEPT ![arg] = "none"]
          /\ todo' = [todo EXCEPT ![t] = Tail(todo[t])]
      BY <2>7 DEF Release, At, Wanted, Advance
    <3>2. arg \in Held(t) /\ Safe(M, Held(t) \ {arg}, Tail(todo[t]))
      BY <2>1, <2>2, <3>1
    <3> HIDE DEF arg, kind, M
    <3>3. /\ owner' \in [Locks -> Threads \cup {"none"}] /\ owner[arg] = t
          /\ \A l \in Locks : owner'[l] = IF l = arg THEN "none" ELSE owner[l]
      BY <2>3, <3>1, <3>2 DEF Held
    <3>4. Held(t)' = Held(t) \ {arg}
      BY <1>0, <3>2, <3>3 DEF Held
    <3>5. \A l \in Locks : owner'[l] # owner[l] => {owner[l], owner'[l]} \subseteq {t, "none"}
      BY <3>1, <3>3
    <3>6. Held(t)' \subseteq May(t) /\ Safe(May(t), Held(t)', Tail(todo[t]))
      BY <2>1, <3>2, <3>4 DEF M
    <3>. QED
      BY <3>1, <3>3, <3>5, <3>6, OneThread
  <2>8. CASE Proceed(t) \/ Put(t) \/ Take(t)
    <3>1. /\ todo[t] # << >> /\ kind \in {"use", "select", "put", "take"}
          /\ todo' = [todo EXCEPT ![t] = Tail(todo[t])] /\ UNCHANGED owner
      BY <2>8 DEF Proceed, Put, Take, At, Advance
    <3>2. Safe(M, Held(t), Tail(todo[t]))
      BY <2>2, <3>1
    <3>. QED
      BY <2>4, <3>1, <3>2
  <2>9. CASE Decide(t)
    <3>1. PICK Q \in arg : todo' = [todo EXCEPT ![t] = Q \o Tail(todo[t])]
      BY <2>9 DEF Decide, Wanted
    <3>2. todo[t] # << >> /\ kind = "either" /\ UNCHANGED owner
      BY <2>9 DEF Decide, At
    <3>3. Safe(M, Held(t), Q \o Tail(todo[t]))
      BY <2>2, <3>1, <3>2
    <3>. QED
      BY <2>4, <3>1, <3>2, <3>3
  <2>. QED
    BY <1>2, <2>5, <2>6, <2>7, <2>8, <2>9
<1>. QED
  BY <1>1, <1>2 DEF Next

\* At the beginning nothing is held and nothing to do.
LEMMA InitInv == Init => IInv
<1> SUFFICES ASSUME Init PROVE IInv
  OBVIOUS
<1>0. "none" \notin Threads
  BY LockOrderAssumption DEF LockOrderAssumption
<1>1. /\ owner \in [Locks -> Threads \cup {"none"}] /\ DOMAIN todo = Threads
      /\ todo = [t \in Threads |-> todo[t]]
  BY DEF Init
<1>2. ASSUME NEW t \in Threads PROVE Held(t) = {} /\ todo[t] = << >>
  BY <1>0 DEF Init, Held
<1>3. \A t \in Threads : Safe(May(t), {}, << >>)
  BY SafeEnd
<1>. QED
  BY <1>1, <1>2, <1>3 DEF IInv

-----------------------------------------------------------------------------
(* Theorems. *)

\* What the next step of a safe thread asks for and what it holds then.
LEMMA SafeHead ==
  ASSUME NEW M, NEW H, NEW P, Safe(M, H, P)
  PROVE  /\ P = << >> => H = {}
         /\ P # << >> =>
              /\ Head(P)[1] = "lock" =>
                   Head(P)[2] \in M /\ \A l \in H : Rank(l) < Rank(Head(P)[2])
              /\ Head(P)[1] = "use" => \A f \in Head(P)[2] : Guard(f) \in H
              /\ Head(P)[1] = "select" => H = {}
              /\ Head(P)[1] = "put" => H \subseteq {SessionRecv}
<1>1. P = << >> => H = {}
  BY SafeUnfold
<1>2. ASSUME P # << >>, NEW kind, NEW arg, kind = Head(P)[1], arg = Head(P)[2]
      PROVE  \/ kind = "lock" /\ arg \in M /\ \A l \in H : Rank(l) < Rank(arg)
             \/ kind \in {"unlock", "either", "take"}
             \/ kind = "use" /\ \A f \in arg : Guard(f) \in H
             \/ kind = "select" /\ H = {}
             \/ kind = "put" /\ H \subseteq {SessionRecv}
  <2>1. PICK R : Sound(M, R) /\ <<H, P>> \in R
    BY DEF Safe
  <2>2. Good(M, H, P, R)
    BY <2>1 DEF Sound
  <2>. QED
    BY <1>2, <2>2 DEF Good
<1>. QED
  BY <1>1, <1>2

\* No two threads use a field of the session or of a stream at the same time,
\* whatever the branches they take, and every function of mux.c returns without
\* the mutexes it took: for any number of threads and streams.
THEOREM RaceFree == Spec => []NoDataRace
<1>1. IInv => NoDataRace
  <2> SUFFICES ASSUME IInv PROVE NoDataRace
    OBVIOUS
  <2>1. ASSUME NEW t \in Threads
        PROVE  /\ todo[t] = << >> => Held(t) = {}
               /\ At(t, "use") => \A f \in Wanted(t) : Guard(f) \in Held(t)
    <3>1. Safe(May(t), Held(t), todo[t])
      BY DEF IInv
    <3>2. PICK M, H, P : M = May(t) /\ H = Held(t) /\ P = todo[t] /\ Safe(M, H, P)
      BY <3>1
    <3>3. /\ P = << >> => H = {}
          /\ P # << >> /\ Head(P)[1] = "use" => \A f \in Head(P)[2] : Guard(f) \in H
      BY <3>2, SafeHead
    <3>. QED
      BY <3>2, <3>3 DEF At, Wanted
  <2>2. \A t, u \in Threads : t # u => Held(t) \cap Held(u) = {}
    BY DEF Held
  <2>3. \A t, u \in Threads :
          t # u /\ At(t, "use") /\ At(u, "use") => Wanted(t) \cap Wanted(u) = {}
    BY <2>1, <2>2
  <2>4. \A t \in Threads, l \in Locks : todo[t] = << >> => owner[l] # t
    BY <2>1 DEF Held
  <2>. QED
    BY <2>3, <2>4 DEF NoDataRace
<1>. QED
  BY <1>1, InitInv, NextInv, PTL DEF Spec

\* No circle of threads waits for mutexes, and no mutex is held by a thread that
\* waits for something else, for any number of users, acceptors and streams and
\* one receive thread, as tests/main.c has: session.recv_lock is held while
\* notify_accept waits (mux.c:744), so a second thread that calls
\* session_recv_buf_write would wait for it.
THEOREM DeadlockFree ==
  ASSUME \A r, s \in Receivers : r = s
  PROVE  Spec => []NoDeadlock
<1>1. IInv => NoDeadlock
  <2> SUFFICES ASSUME IInv, NEW T \in SUBSET Threads, \A t \in T : WaitsFor(t, T),
                      NEW v \in T, At(v, "lock")
               PROVE  FALSE
    BY DEF NoDeadlock
  <2>1. ASSUME NEW t \in T
        PROVE  /\ At(t, "lock") => /\ Wanted(t) \in May(t)
                                   /\ \A l \in Held(t) : Rank(l) < Rank(Wanted(t))
               /\ At(t, "select") => Held(t) = {}
               /\ At(t, "put") => Held(t) \subseteq {SessionRecv}
               /\ Held(t) \subseteq May(t)
    <3>1. Safe(May(t), Held(t), todo[t]) /\ Held(t) \subseteq May(t)
      BY DEF IInv
    <3>2. todo[t] # << >> =>
            /\ Head(todo[t])[1] = "lock" =>
                 /\ Head(todo[t])[2] \in May(t)
                 /\ \A l \in Held(t) : Rank(l) < Rank(Head(todo[t])[2])
            /\ Head(todo[t])[1] = "select" => Held(t) = {}
            /\ Head(todo[t])[1] = "put" => Held(t) \subseteq {SessionRecv}
      BY <3>1, SafeHead
    <3>. QED
      BY <3>1, <3>2 DEF At, Wanted
  <2>2. \A t \in T : At(t, "lock") => Rank(Wanted(t)) \in {1, 2, 3, 4}
    BY DEF Rank
  <2>3. PICK t \in T : /\ At(t, "lock")
                       /\ \A u \in T : At(u, "lock") => Rank(Wanted(u)) <= Rank(Wanted(t))
    <3>1. CASE \E t \in T : At(t, "lock") /\ Rank(Wanted(t)) = 4
      BY <2>2, <3>1
    <3>2. CASE /\ ~\E t \in T : At(t, "lock") /\ Rank(Wanted(t)) = 4
               /\ \E t \in T : At(t, "lock") /\ Rank(Wanted(t)) = 3
      BY <2>2, <3>2
    <3>3. CASE /\ ~\E t \in T : At(t, "lock") /\ Rank(Wanted(t)) \in {3, 4}
               /\ \E t \in T : At(t, "lock") /\ Rank(Wanted(t)) = 2
      BY <2>2, <3>3
    <3>4. CASE \A t \in T : At(t, "lock") => Rank(Wanted(t)) = 1
      BY <3>4
    <3>. QED
      BY <2>2, <3>1, <3>2, <3>3, <3>4
  <2>4. PICK u \in T : u = owner[Wanted(t)] /\ Wanted(t) \in Held(u)
    <3>1. owner[Wanted(t)] \in T
      BY <2>3 DEF WaitsFor, At
    <3>2. Wanted(t) \in Locks
      BY <2>1, <2>3 DEF May, Common
    <3>. QED
      BY <3>1, <3>2 DEF Held
  <2>5. CASE At(u, "lock")
    <3>1. /\ Rank(Wanted(t)) < Rank(Wanted(u)) /\ Rank(Wanted(u)) <= Rank(Wanted(t))
          /\ Rank(Wanted(t)) \in {1, 2, 3, 4} /\ Rank(Wanted(u)) \in {1, 2, 3, 4}
      BY <2>1, <2>2, <2>3, <2>4, <2>5
    <3>. QED
      BY <3>1
  <2>6. CASE At(u, "select")
    BY <2>1, <2>4, <2>6
  <2>7. CASE At(u, "put")
    <3>1. Wanted(t) = SessionRecv /\ SessionRecv \in May(t) /\ SessionRecv \in May(u)
      BY <2>1, <2>3, <2>4, <2>7
    <3>2. t \in Receivers /\ u \in Receivers
      BY <3>1 DEF May, Common
    <3>. QED
      BY <2>3, <2>7, <3>2 DEF At
  <2>. QED
    BY <2>5, <2>6, <2>7 DEF WaitsFor
<1>. QED
  BY <1>1, InitInv, NextInv, PTL DEF Spec
=============================================================================
