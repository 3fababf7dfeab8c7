------------------------- MODULE MCTelegramLinking --------------------------
(***************************************************************************)
(* Two chats send the tokens of one or two users, and other things, to two *)
(* pollers.                                                                *)
(***************************************************************************)
EXTENDS TelegramLinking

CONSTANTS u1, u2, c1, c2, t1

MCSent == {[chat |-> c, text |-> t1] : c \in Chat}
          \cup {[chat |-> c1, text |-> text] : text \in Other}
=============================================================================
