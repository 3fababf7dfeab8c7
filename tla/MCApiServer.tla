---------------------------- MODULE MCApiServer -----------------------------
(***************************************************************************)
(* u1 may assign u2 but not u3, whom nobody assigns.  Three requests and   *)
(* two connections: two reassignments can exhaust the pool, with a third   *)
(* request waiting.                                                        *)
(***************************************************************************)
EXTENDS ApiServer, TLC

CONSTANTS u1, u2, u3

Asks(op, actor, assignee) == [op |-> op, actor |-> actor, assignee |-> assignee]

MCPermission == {<<u1, u2>>}
MCInitialTask == {NoTask, [creator |-> u1, assignee |-> u1, done |-> FALSE]}
MCCall ==
    {Asks("create", u1, u2), Asks("get", u3, NoUser), Asks("create", u3, NoUser),
     Asks("complete", u2, NoUser),
     Asks("update", u1, u2), Asks("update", u1, u3), Asks("update", u1, NoUser),
     Asks("archive", u1, NoUser),
     Asks("list", u3, NoUser), Asks("assignable", u1, NoUser), Asks("ready", u3, NoUser)}
=============================================================================
