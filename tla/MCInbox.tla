------------------------------ MODULE MCInbox -------------------------------
(***************************************************************************)
(* One notification of each of two users, three requests at once.          *)
(***************************************************************************)
EXTENDS Inbox, TLC

CONSTANTS u1, u2, n1, n2

MCOwner == [n \in Note |-> IF n = n1 THEN u1 ELSE u2]

Interchangeable == Permutations(Request)
=============================================================================
