------------------------------ MODULE LinkBook ------------------------------
(***************************************************************************)
(* What the linking of Telegram chats promises, whoever polls Telegram and *)
(* however often a message is handled: a token is redeemed once, before it *)
(* lapses, for the user it was issued to and by a chat that has sent it;   *)
(* nothing else gives a user a chat.                                       *)
(***************************************************************************)
CONSTANTS User, NoUser, Chat, NoLink, Token

VARIABLES owner,  \* the user a token was issued to
          open,   \* tokens that may still be redeemed
          shown,  \* the tokens a chat has sent
          link    \* the chat of a user, and whether messages are enabled

Link == [chat : Chat, enabled : BOOLEAN]

Init ==
    /\ owner = [t \in Token |-> NoUser]
    /\ open = {}
    /\ shown = {}
    /\ link = [u \in User |-> NoLink]

Issue(t, u) ==
    /\ owner[t] = NoUser
    /\ owner' = [owner EXCEPT ![t] = u]
    /\ open' = open \cup {t}
    /\ UNCHANGED <<shown, link>>

Show(t, c) ==
    /\ shown' = shown \cup {<<t, c>>}
    /\ UNCHANGED <<owner, open, link>>

Redeem(t, c) ==
    /\ t \in open
    /\ <<t, c>> \in shown
    /\ link' = [link EXCEPT ![owner[t]] = [chat |-> c, enabled |-> TRUE]]
    /\ open' = open \ {t}
    /\ UNCHANGED <<owner, shown>>

(* Time passes. *)
Lapse(tokens) ==
    /\ open' = open \ tokens
    /\ UNCHANGED <<owner, shown, link>>

Enable(u, on) ==
    /\ link[u] # NoLink
    /\ link' = [link EXCEPT ![u].enabled = on]
    /\ UNCHANGED <<owner, open, shown>>

Unlink(u) ==
    /\ link' = [link EXCEPT ![u] = NoLink]
    /\ UNCHANGED <<owner, open, shown>>

Next ==
    \/ \E t \in Token, u \in User : Issue(t, u)
    \/ \E t \in Token, c \in Chat : Show(t, c) \/ Redeem(t, c)
    \/ \E tokens \in SUBSET Token : Lapse(tokens)
    \/ \E u \in User : Unlink(u) \/ \E on \in BOOLEAN : Enable(u, on)

Spec == Init /\ [][Next]_<<owner, open, shown, link>>
=============================================================================
