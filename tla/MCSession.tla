------------------------------- MODULE MCSession -------------------------------
(***************************************************************************)
(* Values for the constants of Session.                                    *)
(***************************************************************************)
EXTENDS Session

\* What a connection holds for a client that does not read: one reply stops the thread
\* of a JavaScript client at the second one; two reach a Python client in one recv().
Room == [c \in Clients |-> IF IsPython(c) THEN 2 ELSE 1]
==============================================================================
