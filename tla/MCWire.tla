------------------------------- MODULE MCWire -------------------------------
(***************************************************************************)
(* Small instances of module Wire: headers of two bytes, a stream that the *)
(* receiver knows (1) and one it does not know (3).                        *)
(***************************************************************************)
EXTENDS Wire

\* What is sent to the stream that is missing fits into one byte, or does not.
MCSizes == [s \in Sids |-> IF s \in Known THEN {0, 3} ELSE {1}]
MCSizesSplit == [s \in Sids |-> {2}]
=============================================================================
