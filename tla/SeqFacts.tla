------------------------------ MODULE SeqFacts ------------------------------
(* What appending to a list and removing its head do, element by element. *)
EXTENDS Integers, Sequences, TLAPS

\* Append adds one element behind those there are (STAILQ_INSERT_TAIL).
LEMMA AppendFacts ==
  ASSUME NEW S, NEW s \in Seq(S), NEW x \in S
  PROVE  /\ Append(s, x) \in Seq(S) /\ Len(Append(s, x)) = Len(s) + 1
         /\ Append(s, x) # << >> /\ Len(s) \in Nat
         /\ \A i \in 1 .. Len(s) : Append(s, x)[i] = s[i]
         /\ Append(s, x)[Len(s) + 1] = x
         /\ s = << >> <=> Len(s) = 0
OBVIOUS

\* Tail shifts the elements one place forward (STAILQ_REMOVE_HEAD).
LEMMA TailFacts ==
  ASSUME NEW S, NEW s \in Seq(S), s # << >>
  PROVE  /\ Tail(s) \in Seq(S) /\ Len(Tail(s)) = Len(s) - 1
         /\ \A i \in 1 .. Len(s) - 1 : Tail(s)[i] = s[i + 1]
         /\ Head(s) = s[1] /\ s[1] \in S /\ Len(s) \in Nat \ {0}
         /\ Tail(s) = << >> <=> Len(s) = 1
<1>1. Tail(s) \in Seq(S) /\ Len(Tail(s)) = Len(s) - 1
  OBVIOUS
<1>2. \A i \in 1 .. Len(s) - 1 : Tail(s)[i] = s[i + 1]
  OBVIOUS
<1>3. Head(s) = s[1] /\ s[1] \in S /\ Len(s) \in Nat \ {0}
  OBVIOUS
<1>4. Tail(s) = << >> <=> Len(s) = 1
  BY <1>1, <1>3
<1>. QED
  BY <1>1, <1>2, <1>3, <1>4
=============================================================================
