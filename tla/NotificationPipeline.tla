------------------------ MODULE NotificationPipeline -------------------------
(***************************************************************************)
(* From the outbox row of a fired reminder to the stored notification: the *)
(* relays of OutboxRelay and the consumer group of NotificationConsumer    *)
(* run concurrently and share the Kafka log, which the relays append to    *)
(* and the group reads.  It implements ReminderDelivery.                   *)
(***************************************************************************)
EXTENDS OutboxRelay

CONSTANTS Deletable, Member, NoMember, ConsumerFaults, PollErrors

ASSUME DeletableAssumption == Deletable \subseteq Event
ASSUME NoMemberAssumption  == NoMember \notin Member
ASSUME BoundsAssumption    == ConsumerFaults \in Nat /\ PollErrors \in BOOLEAN

VARIABLES deleted, processed, notifications, deliveries, owner, committed,
          stage, position, next, last, dropped, faultCount

(* Only the relays write to the topic: the consumer's own environment      *)
(* (Produce) is disabled, and every record is an envelope of the outbox.   *)
Consumer == INSTANCE NotificationConsumer
    WITH Malformed <- {}, MaxLog <- 0, MaxFaults <- ConsumerFaults

outboxOnly   == <<tables, tx, faults>>
consumerOnly == <<deleted, processed, notifications, deliveries, owner, committed,
                  stage, position, next, last, dropped, faultCount>>
vars         == <<outboxOnly, log, consumerOnly>>

Init == OutboxInit /\ Consumer!ConsumerInit

SchedulerOrRelay == OutboxNext /\ UNCHANGED consumerOnly

Notifier ==
    /\ \E m \in Member : Consumer!ConsumerStep(m) \/ Consumer!ConsumerFault(m)
    /\ UNCHANGED outboxOnly

(* A reminder that has fired is deleted: before it fires there is no event. *)
ReminderDeleted ==
    /\ \E e \in Deletable \cap rows : Consumer!DeleteReminder(e)
    /\ UNCHANGED outboxOnly

Next == SchedulerOrRelay \/ Notifier \/ ReminderDeleted

Spec == Init /\ [][Next]_vars
FairSpec == Spec /\ OutboxFairness /\ Consumer!ConsumerFairness

-----------------------------------------------------------------------------
TypeOK == OutboxTypeOK /\ Consumer!TypeOK

(* An event of the outbox is never lost between the two processes: its row *)
(* is still to be published, or a record the group has not committed will  *)
(* be delivered again, or it is processed.  The exception is a record the  *)
(* consumer dropped with a failed poll.                                    *)
NoEventIsLost ==
    \A e \in published :
        \/ e \in processed
        \/ \E i \in DOMAIN log : log[i] = e /\ (i > committed \/ i \in dropped)

(* The promise kept by the two processes together: never a notification    *)
(* nobody requested, never a second one, through retries of the relay,     *)
(* redelivery, rebalances and crashes.                                     *)
Promise == INSTANCE ReminderDelivery WITH requested <- rows, notified <- notifications
ImplementsDelivery == Promise!Spec

(* README.md:114-123: every fired reminder leads to its notification in    *)
(* the end, once faults stop, unless the consumer dropped its record with a *)
(* failed poll or stands blocked before it at a deleted reminder's record. *)
EventuallyNotified ==
    \A e \in Event :
        e \in rows ~> \/ notifications[e] = 1
                      \/ \E i \in DOMAIN log :
                            log[i] = e /\ (i \in dropped \/ Consumer!Blocked(i))
=============================================================================
