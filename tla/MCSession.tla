----------------------------- MODULE MCSession -----------------------------
(***************************************************************************)
(* Small instances of module Session: c1 and c2 open streams on the client *)
(* and ca accepts there; s1, s2 and sa do the same on the server.          *)
(***************************************************************************)
EXTENDS Session

ClientThreads == {"c1", "c2", "ca"}
MCHome == [t \in Threads |-> IF t \in ClientThreads THEN "c" ELSE "s"]

\* c1 calls session_open twice, so the client runs out of ids when Word is 6.
MCCalls == [t \in Openers |-> IF t = "c1" THEN 2 ELSE 1]

\* s1 calls it once more than there are even ids.
MCCallsWrap == [t \in Openers |-> Word \div 2 + 1]
=============================================================================
