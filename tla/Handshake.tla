----------------------------- MODULE Handshake -----------------------------
(***************************************************************************)
(* What opening a stream promises, seen from outside both sessions: every  *)
(* id goes once through a handshake in which the opener offers the stream  *)
(* and the other end takes it up or turns it down, and the opener learns   *)
(* of that decision only after it was made.                                *)
(***************************************************************************)
CONSTANT HIds

VARIABLE phase    \* per id

Phases == {"free", "offered", "listed", "accepted", "open", "refused"}

HInit == phase = [i \in HIds |-> "free"]

Moves ==
  {<<"free", "offered">>,       \* session_open sends the SYN
   <<"offered", "listed">>,     \* the other end creates the stream
   <<"listed", "offered">>,     \* and cannot hand it to session_accept
   <<"listed", "accepted">>,    \* session_accept takes it up
   <<"accepted", "open">>,      \* the opener gets the ACK
   <<"offered", "refused">>}    \* the opener gets the RST

\* One stream moves at a time.
HNext == \E i \in HIds : /\ <<phase[i], phase'[i]>> \in Moves
                         /\ phase' = [phase EXCEPT ![i] = phase'[i]]

HSpec == HInit /\ [][HNext]_phase
=============================================================================
