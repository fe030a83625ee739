------------------------------ MODULE MCStream ------------------------------
(***************************************************************************)
(* Small instances of module Stream.  The thread names say where a thread  *)
(* runs: cw and cw2 write on the client, sr and sr2 read on the server.    *)
(***************************************************************************)
EXTENDS Stream, TLC

ServerThreads == {"accept", "sr", "sr2"}
MCHome == [t \in Threads |-> IF t \in ServerThreads THEN "s" ELSE "c"]

\* Writers that are model values run on the client and can be exchanged.
WriterSymmetry == Permutations(Writers)
=============================================================================
