-------------------------- MODULE ReminderDelivery ---------------------------
(***************************************************************************)
(* What the notification pipeline promises its users, whatever lies        *)
(* between the reminder scheduler and the notifier: a reminder that fires  *)
(* requests a notification, and each request leads to one notification.    *)
(***************************************************************************)
EXTENDS Naturals

CONSTANT Event            \* notification requests
VARIABLES requested,      \* requests made so far
          notified        \* notifications stored for each request

vars == <<requested, notified>>

Init == requested = {} /\ notified = [e \in Event |-> 0]

(* Reminders fire; the scheduler commits their requests together. *)
Request ==
    /\ \E new \in SUBSET (Event \ requested) : new # {} /\ requested' = requested \cup new
    /\ UNCHANGED notified

Notify(e) ==
    /\ e \in requested
    /\ notified[e] = 0
    /\ notified' = [notified EXCEPT ![e] = 1]
    /\ UNCHANGED requested

Next == Request \/ \E e \in Event : Notify(e)

Spec == Init /\ [][Next]_vars
=============================================================================
