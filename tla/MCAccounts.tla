----------------------------- MODULE MCAccounts -----------------------------
(* A small instance of Accounts: two requests at a time. *)
EXTENDS Accounts, TLC

CONSTANTS e1, e2, u1, u2

(* The first shares its email with the second, its username with the third. *)
MCAccount == {[email |-> e1, username |-> u1],
              [email |-> e1, username |-> u2],
              [email |-> e2, username |-> u1]}

Interchangeable == Permutations(Token) \cup Permutations(Request)
=============================================================================
