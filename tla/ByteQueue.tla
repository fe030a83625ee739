----------------------------- MODULE ByteQueue -----------------------------
(***************************************************************************)
(* What bio.h promises: a queue of bytes.  The bytes are named by their    *)
(* position in the stream of all bytes ever appended, so the queue holds   *)
(* the positions lo .. hi-1 and every operation is a single step.          *)
(***************************************************************************)
EXTENDS Integers

CONSTANT Sizes      \* the sizes callers pass

VARIABLES lo, hi,   \* the bytes in the queue are lo .. hi-1
          op,       \* the last operation that returned
          count,    \* the value it returned
          copied    \* the bytes it stored in the caller's buffer

qvars == <<lo, hi, op, count, copied>>

QInit == /\ lo = 0 /\ hi = 0
         /\ op = "new" /\ count = 0 /\ copied = << >>

\* The first k bytes, in order.
First(k) == [i \in 1 .. k |-> lo + i - 1]

Least(a, b) == IF a < b THEN a ELSE b

\* bio_write appends n bytes and returns n.
QWrite(n) == /\ hi' = hi + n /\ UNCHANGED lo
             /\ op' = "write" /\ count' = n /\ copied' = << >>

\* bio_write fails for want of memory; a part of the data may have been added.
QWriteFail(n) == /\ \E k \in 0 .. n - 1 : hi' = hi + k
                 /\ UNCHANGED lo
                 /\ op' = "write" /\ count' = -1 /\ copied' = << >>

\* bio_read moves as many bytes as there are, at most n.
QRead(n) == LET k == Least(n, hi - lo) IN
            /\ lo' = lo + k /\ UNCHANGED hi
            /\ op' = "read" /\ count' = k /\ copied' = First(k)

\* bio_consume drops them.
QConsume(n) == LET k == Least(n, hi - lo) IN
               /\ lo' = lo + k /\ UNCHANGED hi
               /\ op' = "consume" /\ count' = k /\ copied' = << >>

\* bio_peek copies them and changes nothing.
QPeek(n) == LET k == Least(n, hi - lo) IN
            /\ UNCHANGED <<lo, hi>>
            /\ op' = "peek" /\ count' = k /\ copied' = First(k)

\* bio_reset drops everything.
QReset == /\ lo' = hi /\ UNCHANGED hi
          /\ op' = "reset" /\ count' = 0 /\ copied' = << >>

QNext == \/ \E n \in Sizes : \/ QWrite(n) \/ QWriteFail(n) \/ QRead(n)
                             \/ QConsume(n) \/ QPeek(n)
         \/ QReset

QSpec == QInit /\ [][QNext]_qvars
=============================================================================
