------------------------------ MODULE Sessions ------------------------------
(***************************************************************************)
(* What the refresh tokens of the auth component promise: a login opens a  *)
(* session that holds one live token, a refresh replaces that token by one *)
(* never used before, and a session that was closed stays closed.  A       *)
(* session is named by its first token.                                    *)
(***************************************************************************)
CONSTANT Token

VARIABLES used,  \* the tokens issued so far
          live   \* per session, the tokens that can still be presented

Init ==
    /\ used = {}
    /\ live = [s \in Token |-> {}]

Open(t) ==
    /\ t \notin used
    /\ used' = used \cup {t}
    /\ live' = [live EXCEPT ![t] = {t}]

Renew(s, t) ==
    /\ live[s] # {}
    /\ t \notin used
    /\ used' = used \cup {t}
    /\ live' = [live EXCEPT ![s] = {t}]

Close(s) ==
    /\ live[s] # {}
    /\ live' = [live EXCEPT ![s] = {}]
    /\ UNCHANGED used

Next ==
    \/ \E t \in Token : Open(t)
    \/ \E s, t \in Token : Renew(s, t)
    \/ \E s \in Token : Close(s)

Spec == Init /\ [][Next]_<<used, live>>
=============================================================================
