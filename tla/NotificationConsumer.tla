------------------------ MODULE NotificationConsumer -------------------------
(***************************************************************************)
(* The notifier's Kafka consumer (internal/notification/adapter/in/kafka)  *)
(* and the transaction it runs per record: the dedup row in                *)
(* processed_events, the notification and its Telegram delivery.           *)
(*                                                                         *)
(* One partition: records are handled in log order by the member of the    *)
(* consumer group that owns it, offsets are committed by hand, one record  *)
(* at a time.  After a rebalance the former owner goes on with the batch   *)
(* it has already fetched.  Offsets are counts: n stands for "the first n  *)
(* records".                                                               *)
(***************************************************************************)
EXTENDS Naturals, Sequences

CONSTANTS Event,      \* events a record may carry
          Malformed,  \* events whose record does not decode
          Deletable,  \* events whose reminder's creator may delete it
          Member,     \* notifier processes of the consumer group
          NoMember,   \* owner of a partition nobody is assigned
          MaxLog,     \* bound: records of the partition
          MaxFaults,  \* bound: crashes, poll errors and rebalances
          PollErrors  \* whether a poll may return an error with its records

ASSUME EventAssumption     == Malformed \cup Deletable \subseteq Event
ASSUME NoMemberAssumption  == NoMember \notin Member
ASSUME BoundsAssumption    == MaxLog \in Nat /\ MaxFaults \in Nat
ASSUME PollErrorsAssumption == PollErrors \in BOOLEAN

VARIABLES log,           \* the partition, oldest record first
          deleted,       \* events whose reminder row is gone
          processed,     \* rows of processed_events
          notifications, \* rows of notifications per event
          deliveries,    \* events with a Telegram delivery row
          owner,         \* the member the partition is assigned to
          committed,     \* the group's committed offset
          stage,         \* what each member does next
          position,      \* fetch position of each member's client
          next, last,    \* a member's fetched batch: records next+1 .. last
          dropped,       \* history: records fetched in a poll that failed
          faultCount     \* faults so far

db           == <<processed, notifications, deliveries>>
group        == <<owner, committed>>
client       == <<stage, position, next, last>>
consumerVars == <<db, group, client, dropped, faultCount>>
allVars      == <<log, deleted, consumerVars>>

ConsumerInit ==
    /\ deleted = {}
    /\ processed = {}
    /\ notifications = [e \in Event |-> 0]
    /\ deliveries = {}
    /\ owner = NoMember
    /\ committed = 0
    /\ stage = [m \in Member |-> "poll"]
    /\ position = [m \in Member |-> 0]
    /\ next = [m \in Member |-> 0]
    /\ last = [m \in Member |-> 0]
    /\ dropped = {}
    /\ faultCount = 0

Fault == faultCount < MaxFaults /\ faultCount' = faultCount + 1

-----------------------------------------------------------------------------
(* The relay appends a record; it may append the same event again. *)
AppendRecord(e) == log' = Append(log, e) /\ UNCHANGED <<deleted, consumerVars>>

Produce(e) == Len(log) < MaxLog /\ AppendRecord(e)

(* DELETE of a reminder whose event is on its way: notifications.reminder_id *)
(* protects the row only once the notification exists.                       *)
DeleteReminder(e) ==
    /\ e \notin deleted
    /\ notifications[e] = 0
    /\ deleted' = deleted \cup {e}
    /\ UNCHANGED <<log, consumerVars>>

(* The group assigns the free partition; fetching starts at the commit. *)
Assign(m) ==
    /\ owner = NoMember
    /\ stage[m] # "down"
    /\ owner' = m
    /\ position' = [position EXCEPT ![m] = committed]
    /\ UNCHANGED <<log, deleted, db, committed, stage, next, last, dropped, faultCount>>

(* A rebalance takes the partition away, whatever its owner is doing. *)
Revoke(m) ==
    /\ owner = m
    /\ Fault
    /\ owner' = NoMember
    /\ UNCHANGED <<log, deleted, db, committed, client, dropped>>

(* PollFetches returns records position+1 .. n. *)
Poll(m) ==
    /\ stage[m] = "poll"
    /\ owner = m
    /\ \E n \in position[m] + 1 .. Len(log) :
          /\ next' = [next EXCEPT ![m] = position[m]]
          /\ last' = [last EXCEPT ![m] = n]
          /\ position' = [position EXCEPT ![m] = n]
    /\ stage' = [stage EXCEPT ![m] = "handle"]
    /\ UNCHANGED <<log, deleted, db, group, dropped, faultCount>>

(* fetches.Err() reports an error of any partition or of the session: Run  *)
(* logs it and polls again, without the records the same poll returned.    *)
PollError(m) ==
    /\ stage[m] = "poll"
    /\ owner = m
    /\ PollErrors
    /\ Fault
    /\ \E n \in position[m] .. Len(log) :
          /\ dropped' = dropped \cup (position[m] + 1 .. n)
          /\ position' = [position EXCEPT ![m] = n]
    /\ UNCHANGED <<log, deleted, db, group, stage, next, last>>

Current(m) == log[next[m] + 1]

(* Mutant of Notify: the result of TryInsert is ignored. *)
NotifyAlways(m) ==
    /\ stage[m] = "handle"
    /\ Current(m) \notin Malformed \cup deleted
    /\ processed' = processed \cup {Current(m)}
    /\ notifications' = [notifications EXCEPT ![Current(m)] = @ + 1]
    /\ stage' = [stage EXCEPT ![m] = "commit"]
    /\ UNCHANGED <<log, deleted, deliveries, group, position, next, last, dropped, faultCount>>

(* HandleNotificationRequested in one transaction: TryInsert finds the     *)
(* event new and the notification (with a delivery if the recipient's      *)
(* Telegram link is enabled) is stored.                                    *)
Notify(m) ==
    /\ stage[m] = "handle"
    /\ Current(m) \notin Malformed \cup processed \cup deleted
    /\ processed' = processed \cup {Current(m)}
    /\ notifications' = [notifications EXCEPT ![Current(m)] = @ + 1]
    /\ deliveries' \in {deliveries, deliveries \cup {Current(m)}}
    /\ stage' = [stage EXCEPT ![m] = "commit"]
    /\ UNCHANGED <<log, deleted, group, position, next, last, dropped, faultCount>>

(* Mutant of Skip: a processed event is no reason to go on. *)
SkipMalformedOnly(m) ==
    /\ stage[m] = "handle"
    /\ Current(m) \in Malformed
    /\ stage' = [stage EXCEPT ![m] = "commit"]
    /\ UNCHANGED <<log, deleted, db, group, position, next, last, dropped, faultCount>>

(* The record does not decode, or TryInsert finds its event processed. *)
Skip(m) ==
    /\ stage[m] = "handle"
    /\ Current(m) \in Malformed \cup processed
    /\ stage' = [stage EXCEPT ![m] = "commit"]
    /\ UNCHANGED <<log, deleted, db, group, position, next, last, dropped, faultCount>>

(* Mutant of CommitOffset: the whole fetched batch. *)
CommitBatch(m) ==
    /\ stage[m] = "commit"
    /\ committed' = last[m]
    /\ next' = [next EXCEPT ![m] = @ + 1]
    /\ stage' = [stage EXCEPT ![m] = IF next'[m] < last[m] THEN "handle" ELSE "poll"]
    /\ UNCHANGED <<log, deleted, db, owner, position, last, dropped, faultCount>>

(* CommitRecords of the handled record, then the next one of the batch.    *)
(* The group takes the offset of any live member, owner or not, so a late  *)
(* commit of a former owner moves the committed offset back.               *)
CommitOffset(m) ==
    /\ stage[m] = "commit"
    /\ committed' = next[m] + 1
    /\ next' = [next EXCEPT ![m] = @ + 1]
    /\ stage' = [stage EXCEPT ![m] = IF next'[m] < last[m] THEN "handle" ELSE "poll"]
    /\ UNCHANGED <<log, deleted, db, owner, position, last, dropped, faultCount>>

(* Run returned an error: the errgroup stops the process. *)
Exit(m) ==
    /\ stage' = [stage EXCEPT ![m] = "down"]
    /\ owner' = IF owner = m THEN NoMember ELSE owner
    /\ UNCHANGED <<log, deleted, db, committed, position, next, last, dropped>>

(* The foreign key on the deleted reminder rejects the notification: the   *)
(* transaction rolls back and the offset is not committed.                 *)
HandleFails(m) ==
    /\ stage[m] = "handle"
    /\ Current(m) \in deleted \ (Malformed \cup processed)
    /\ Exit(m)
    /\ UNCHANGED faultCount

(* A crash, a lost transaction or a failed offset commit. *)
Crash(m) == stage[m] # "down" /\ Fault /\ Exit(m)

(* The process is started again. *)
Restart(m) ==
    /\ stage[m] = "down"
    /\ stage' = [stage EXCEPT ![m] = "poll"]
    /\ UNCHANGED <<log, deleted, db, group, position, next, last, dropped, faultCount>>

-----------------------------------------------------------------------------
Handle(m) == Notify(m) \/ Skip(m) \/ HandleFails(m)
ConsumerStep(m) ==
    Poll(m) \/ Handle(m) \/ CommitOffset(m) \/ Restart(m) \/ Assign(m)
ConsumerFault(m) == PollError(m) \/ Revoke(m) \/ Crash(m)

ConsumerNext ==
    \/ \E m \in Member : ConsumerStep(m) \/ ConsumerFault(m)
    \/ \E e \in Deletable : DeleteReminder(e)

Init == log = <<>> /\ ConsumerInit
Next == ConsumerNext \/ \E e \in Event : Produce(e)
Spec == Init /\ [][Next]_allVars

(* The poll loop has no other wait than PollFetches, the broker hands the  *)
(* partition to some live member, and a stopped notifier is started again. *)
ConsumerFairness ==
    /\ \A m \in Member : /\ WF_allVars(Poll(m))
                         /\ WF_allVars(Handle(m))
                         /\ WF_allVars(CommitOffset(m))
                         /\ WF_allVars(Restart(m))
    /\ WF_allVars(\E m \in Member : Assign(m))

FairSpec == Spec /\ ConsumerFairness

-----------------------------------------------------------------------------
Offsets == 0 .. Len(log)

TypeOK ==
    /\ log \in Seq(Event)
    /\ deleted \subseteq Event
    /\ processed \subseteq Event
    /\ notifications \in [Event -> Nat]
    /\ deliveries \subseteq Event
    /\ owner \in Member \cup {NoMember}
    /\ committed \in Offsets
    /\ stage \in [Member -> {"down", "poll", "handle", "commit"}]
    /\ position \in [Member -> Offsets]
    /\ next \in [Member -> Offsets]
    /\ last \in [Member -> Offsets]
    /\ dropped \subseteq 1 .. Len(log)
    /\ faultCount \in 0 .. MaxFaults

Done(i) == i \in DOMAIN log /\ log[i] \in Malformed \cup processed

(* Redelivery after a crash or a rebalance, a repeated record and two      *)
(* members on the same record never notify twice, and nobody's dedup row   *)
(* survives without its notification (HandleNotificationRequested).        *)
NotifiedExactlyOnce ==
    /\ \A e \in Event : notifications[e] = IF e \in processed THEN 1 ELSE 0
    /\ deliveries \subseteq processed

HandledUpTo(n) == \A i \in 1 .. n : Done(i) \/ i \in dropped

(* The committed offset never passes a record that was not handled, except *)
(* the records of a failed poll (handleRecord: CommitRecords comes after   *)
(* HandleNotificationRequested).                                           *)
CommittedIsHandled == HandledUpTo(committed)

(* A record the handler can only fail on stands at or before offset i.     *)
Blocked(i) == \E j \in 1 .. i : j \in DOMAIN log /\ log[j] \in deleted \ processed

(* Every record is handled, through crashes, rebalances and repeats, unless *)
(* its poll failed or the record of a deleted reminder blocks the way.      *)
EveryRecordIsHandled ==
    \A i \in 1 .. MaxLog : i <= Len(log) ~> (Done(i) \/ i \in dropped \/ Blocked(i))

(* README.md:122-123 "notifier consumes event -> NotificationService       *)
(* creates internal notification": the event of a reminder nobody deleted  *)
(* is processed, whatever happens to other reminders.                      *)
KeptRemindersAreNotified ==
    \A i \in 1 .. MaxLog :
        (i \in DOMAIN log /\ log[i] \notin Deletable) ~> Done(i)
=============================================================================
