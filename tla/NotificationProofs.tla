-------------------------- MODULE NotificationProofs -------------------------
(***************************************************************************)
(* The way of a notification from the outbox to its reader, for any number *)
(* of events, processes, requests and faults: the relays of OutboxRelay,   *)
(* the pipeline of relays and notifiers, and the read marks of Inbox.  The *)
(* variables of one part mean nothing to the theorems about another.       *)
(***************************************************************************)
EXTENDS NotificationPipeline, Inbox, FiniteSetTheorems, TLAPS

C == INSTANCE NotificationConsumerProofs
         WITH Malformed <- {}, MaxLog <- 0, MaxFaults <- ConsumerFaults

-----------------------------------------------------------------------------
(* OutboxRelay: no row is shared by two relays, no published row lacks its *)
(* record, and no duplicate is without a fault.                            *)

(* What an open transaction knows: its rows are unpublished, each in one   *)
(* of the three sets, the marked ones in the log, and after Publish the    *)
(* next one too.                                                           *)
TransactionsOK ==
    \A r \in Relay :
        /\ Locked(r) \cap published = {}
        /\ batch[r] \cap marked[r] = {}
        /\ \A e \in marked[r] : InLog(e)
        /\ phase[r] = "idle" => Locked(r) = {}
        /\ phase[r] = "mark" => \E e \in batch[r] : IsNext(r, e) /\ InLog(e)

(* The record of e that no fault explains: its row is published, or an     *)
(* open transaction has sent it and will mark it.                          *)
Sent(e) ==
    \/ e \in published
    \/ \E r \in Relay : e \in marked[r] \/ (phase[r] = "mark" /\ IsNext(r, e))

CopiesInv ==
    \A e \in Event : Copies(log, e) <= faults + (IF Sent(e) THEN 1 ELSE 0)

OutboxInv ==
    OutboxTypeOK /\ PublishedIsInLog /\ NoSharedClaim /\ TransactionsOK

-----------------------------------------------------------------------------
LEMMA AppendFacts ==
    ASSUME NEW s \in Seq(Event), NEW f \in Event
    PROVE  /\ Append(s, f) \in Seq(Event)
           /\ DOMAIN Append(s, f) = DOMAIN s \cup {Len(s) + 1}
           /\ Len(s) + 1 \notin DOMAIN s
           /\ \A i \in DOMAIN s : Append(s, f)[i] = s[i]
           /\ Append(s, f)[Len(s) + 1] = f
  OBVIOUS

(* The topic only grows, by records of events. *)
LEMMA LogGrows ==
    ASSUME OutboxTypeOK, [OutboxNext]_outboxVars
    PROVE  log' = log \/ \E f \in Event : log' = Append(log, f)
  BY DEF OutboxTypeOK, OutboxNext, RelayStep, Progress,
         CreateEvents, Claim, Publish, MarkPublished,
         PublishFails, Commit, Rollback, outboxVars, tx,
         tables

LEMMA InLogKept ==
    ASSUME OutboxTypeOK, [OutboxNext]_outboxVars, NEW e, InLog(e)
    PROVE  InLog(e)'
  <1>1. CASE log' = log
    BY <1>1 DEF InLog
  <1>2. CASE \E f \in Event : log' = Append(log, f)
    BY <1>2, AppendFacts DEF InLog, OutboxTypeOK
  <1> QED BY <1>1, <1>2, LogGrows

LEMMA InLogAppended ==
    ASSUME OutboxTypeOK, NEW f \in Event, log' = Append(log, f)
    PROVE  InLog(f)'
  BY AppendFacts DEF InLog, OutboxTypeOK

LEMMA NextIsUnique ==
    ASSUME OutboxTypeOK, NEW r \in Relay, NEW e, NEW f, IsNext(r, e), IsNext(r, f)
    PROVE  e = f
  BY EventAssumption DEF OutboxTypeOK, IsNext

-----------------------------------------------------------------------------
LEMMA OutboxTypeStep ==
    ASSUME OutboxTypeOK, [OutboxNext]_outboxVars
    PROVE  OutboxTypeOK'
  <1> USE DEF OutboxTypeOK
  <1>1. log' \in Seq(Event)
    <2>1. CASE log' = log
      BY <2>1
    <2>2. ASSUME NEW f \in Event, log' = Append(log, f) PROVE log' \in Seq(Event)
      BY <2>2
    <2> QED BY <2>1, <2>2, LogGrows
  <1>2. ASSUME CreateEvents PROVE OutboxTypeOK'
    BY <1>1, <1>2 DEF CreateEvents, tx
  <1>3. ASSUME NEW r \in Relay, Claim(r) PROVE OutboxTypeOK'
    BY <1>1, <1>3 DEF Claim, Claimable, IsOldestBatch, tables
  <1>4. ASSUME NEW r \in Relay, Publish(r) PROVE OutboxTypeOK'
    BY <1>1, <1>4 DEF Publish, tables
  <1>5. ASSUME NEW r \in Relay, MarkPublished(r) PROVE OutboxTypeOK'
    BY <1>1, <1>5 DEF MarkPublished, tables
  <1>6. ASSUME NEW r \in Relay, PublishFails(r) PROVE OutboxTypeOK'
    BY <1>1, <1>6, FaultsAssumption DEF PublishFails, tables
  <1>7. ASSUME NEW r \in Relay, Commit(r) PROVE OutboxTypeOK'
    BY <1>1, <1>7 DEF Commit, EndTransaction
  <1>8. ASSUME NEW r \in Relay, Rollback(r) PROVE OutboxTypeOK'
    BY <1>1, <1>8, FaultsAssumption
       DEF Rollback, EndTransaction, tables
  <1>9. CASE UNCHANGED outboxVars
    BY <1>9 DEF outboxVars, tables, tx
  <1> QED
    BY <1>2, <1>3, <1>4, <1>5, <1>6, <1>7, <1>8, <1>9
       DEF OutboxNext, RelayStep, Progress

(* Every variable keeps its type. *)
THEOREM OutboxTypeCorrect == OutboxSpec => []OutboxTypeOK
  <1>1. OutboxInit => OutboxTypeOK
    BY EventAssumption, FaultsAssumption DEF OutboxInit, OutboxTypeOK
  <1> QED BY <1>1, OutboxTypeStep, PTL DEF OutboxSpec

-----------------------------------------------------------------------------
LEMMA InitOutboxInv == OutboxInit => OutboxInv
  BY EventAssumption, FaultsAssumption
     DEF OutboxInit, OutboxInv, OutboxTypeOK, PublishedIsInLog,
         NoSharedClaim, TransactionsOK, Locked

(* A step of r only: the part of the invariant about any other relay.      *)
LEMMA OutboxInvStep ==
    ASSUME OutboxInv, [OutboxNext]_outboxVars
    PROVE  OutboxInv'
  <1>0. OutboxTypeOK /\ OutboxTypeOK'
    BY OutboxTypeStep DEF OutboxInv
  <1> USE <1>0 DEF OutboxInv
  <1>1. \A e : InLog(e) => InLog(e)'
    BY InLogKept
  <1>2. ASSUME CreateEvents PROVE OutboxInv'
    BY <1>1, <1>2
       DEF CreateEvents, tx, TransactionsOK, NoSharedClaim,
           PublishedIsInLog, Locked, IsNext
  <1>3. ASSUME NEW r \in Relay, Claim(r) PROVE OutboxInv'
    <2> USE <1>3 DEF Claim, tables
    <2>1. /\ batch'[r] \subseteq Claimable
          /\ Locked(r)' = batch'[r]
          /\ \A s \in Relay \ {r} : Locked(s)' = Locked(s) /\ batch'[s] = batch[s]
      BY DEF OutboxTypeOK, TransactionsOK, Locked, IsOldestBatch
    <2>2. NoSharedClaim'
      BY <2>1 DEF NoSharedClaim, Claimable
    <2>3. TransactionsOK'
      BY <2>1, <1>1
         DEF TransactionsOK, Claimable, Locked, IsNext, OutboxTypeOK
    <2>4. PublishedIsInLog'
      BY <1>1 DEF PublishedIsInLog
    <2> QED BY <2>2, <2>3, <2>4
  <1>4. ASSUME NEW r \in Relay, Publish(r) PROVE OutboxInv'
    <2> USE <1>4 DEF Publish, tables
    <2>1. \A s \in Relay : Locked(s)' = Locked(s)
      BY DEF Locked
    <2>2. \E e \in batch'[r] : IsNext(r, e)' /\ InLog(e)'
      <3>1. PICK e \in batch[r] : IsNext(r, e) /\ log' = Append(log, e)
        OBVIOUS
      <3> QED BY <3>1, InLogAppended DEF IsNext, OutboxTypeOK
    <2>3. TransactionsOK'
      BY <2>1, <2>2, <1>1 DEF TransactionsOK, IsNext, OutboxTypeOK
    <2> QED BY <2>1, <2>3, <1>1 DEF NoSharedClaim, PublishedIsInLog
  <1>5. ASSUME NEW r \in Relay, MarkPublished(r) PROVE OutboxInv'
    <2> USE <1>5 DEF MarkPublished, tables
    <2>1. PICK e \in batch[r] : /\ IsNext(r, e)
                                /\ batch' = [batch EXCEPT ![r] = @ \ {e}]
                                /\ marked' = [marked EXCEPT ![r] = @ \cup {e}]
      OBVIOUS
    <2>2. InLog(e)
      BY <2>1, NextIsUnique DEF TransactionsOK
    <2>3. \A s \in Relay : Locked(s)' = Locked(s)
      BY <2>1 DEF Locked, OutboxTypeOK
    <2>4. TransactionsOK'
      BY <2>1, <2>2, <2>3, <1>1
         DEF TransactionsOK, IsNext, OutboxTypeOK, Locked
    <2> QED BY <2>3, <2>4, <1>1 DEF NoSharedClaim, PublishedIsInLog
  <1>6. ASSUME NEW r \in Relay, PublishFails(r) PROVE OutboxInv'
    <2> USE <1>6 DEF PublishFails, tables
    <2>1. PICK e \in batch[r] : /\ batch' = [batch EXCEPT ![r] = @ \ {e}]
                                /\ bumped' = [bumped EXCEPT ![r] = @ \cup {e}]
      OBVIOUS
    <2>2. \A s \in Relay : Locked(s)' = Locked(s)
      BY <2>1 DEF Locked, OutboxTypeOK
    <2>3. TransactionsOK'
      BY <2>1, <2>2, <1>1 DEF TransactionsOK, IsNext, OutboxTypeOK
    <2> QED BY <2>2, <2>3, <1>1 DEF NoSharedClaim, PublishedIsInLog
  <1>7. ASSUME NEW r \in Relay, EndTransaction(r), log' = log, rows' = rows,
               published' \in {published, published \cup marked[r]}
        PROVE OutboxInv'
    <2> USE <1>7 DEF EndTransaction
    <2>1. /\ Locked(r)' = {}
          /\ \A s \in Relay \ {r} : Locked(s)' = Locked(s) /\ batch'[s] = batch[s]
      BY DEF Locked, OutboxTypeOK
    <2>2. NoSharedClaim'
      BY <2>1 DEF NoSharedClaim
    <2>3. PublishedIsInLog'
      BY <1>1 DEF PublishedIsInLog, TransactionsOK
    <2>4. TransactionsOK'
      BY <2>1, <1>1
         DEF TransactionsOK, NoSharedClaim, Locked, IsNext,
             OutboxTypeOK
    <2> QED BY <2>2, <2>3, <2>4
  <1>8. ASSUME NEW r \in Relay, Commit(r) \/ Rollback(r) PROVE OutboxInv'
    BY <1>7, <1>8 DEF Commit, Rollback, tables
  <1>9. CASE UNCHANGED outboxVars
    BY <1>9
       DEF outboxVars, tables, tx, TransactionsOK, NoSharedClaim,
           PublishedIsInLog, Locked, IsNext, InLog
  <1> QED
    BY <1>2, <1>3, <1>4, <1>5, <1>6, <1>8, <1>9
       DEF OutboxNext, RelayStep, Progress

LEMMA OutboxInvHolds == OutboxSpec => []OutboxInv
  BY InitOutboxInv, OutboxInvStep, PTL DEF OutboxSpec

(* No published row lacks its Kafka record. *)
THEOREM PublishedIsSafe == OutboxSpec => []PublishedIsInLog
  <1>1. OutboxInv => PublishedIsInLog
    BY DEF OutboxInv
  <1> QED BY <1>1, OutboxInvHolds, PTL

(* No two relays ever hold the same row. *)
THEOREM ClaimsAreExclusive == OutboxSpec => []NoSharedClaim
  <1>1. OutboxInv => NoSharedClaim
    BY DEF OutboxInv
  <1> QED BY <1>1, OutboxInvHolds, PTL

-----------------------------------------------------------------------------
LEMMA SameCardinality == \A S : Cardinality(S) = Cardinality(S)
  BY DEF Cardinality, Cardinality

LEMMA CopiesNat ==
    ASSUME NEW s \in Seq(Event), NEW e
    PROVE  IsFiniteSet({i \in DOMAIN s : s[i] = e}) /\ Copies(s, e) \in Nat
  <1>1. IsFiniteSet(1..Len(s)) /\ {i \in DOMAIN s : s[i] = e} \subseteq 1..Len(s)
    BY FS_Interval
  <1> QED BY <1>1, FS_Subset, FS_CardinalityType, SameCardinality DEF Copies

LEMMA CopiesAppended ==
    ASSUME NEW s \in Seq(Event), NEW f \in Event, NEW e
    PROVE  Copies(Append(s, f), e) = Copies(s, e) + (IF e = f THEN 1 ELSE 0)
  <1> DEFINE old == {i \in DOMAIN s : s[i] = e}
             new == {i \in DOMAIN Append(s, f) : Append(s, f)[i] = e}
  <1>0. /\ IsFiniteSet(old) /\ Cardinality(old) \in Nat
        /\ Copies(s, e) = Cardinality(old)
        /\ Copies(Append(s, f), e) = Cardinality(new)
    BY CopiesNat, SameCardinality DEF Copies
  <1>1. CASE e = f
    <2>1. new = old \cup {Len(s) + 1} /\ Len(s) + 1 \notin old
      BY <1>1, AppendFacts
    <2> HIDE DEF old, new
    <2>2. Cardinality(new) = Cardinality(old) + 1
      BY <1>0, <2>1, FS_AddElement
    <2> QED BY <1>0, <1>1, <2>2
  <1>2. CASE e # f
    <2>1. new = old
      BY <1>2, AppendFacts
    <2> HIDE DEF old, new
    <2> QED BY <1>0, <1>2, <2>1
  <1> QED BY <1>1, <1>2

LEMMA CopiesStep ==
    ASSUME OutboxInv, CopiesInv, [OutboxNext]_outboxVars
    PROVE  CopiesInv'
  <1> SUFFICES ASSUME NEW e \in Event
               PROVE  (Copies(log, e) <= faults + (IF Sent(e) THEN 1 ELSE 0))'
    BY DEF CopiesInv
  <1>0. OutboxTypeOK /\ OutboxTypeOK' /\ faults \in Nat /\ faults' \in Nat
    BY OutboxTypeStep, FaultsAssumption DEF OutboxInv, OutboxTypeOK
  <1>1. /\ Copies(log, e) \in Nat /\ Copies(log', e) \in Nat
        /\ Copies(log, e) <= faults + (IF Sent(e) THEN 1 ELSE 0)
    BY <1>0, CopiesNat DEF OutboxTypeOK, CopiesInv
  (* Steps that append nothing and keep what explains e. *)
  <1>2. CASE log' = log /\ faults' = faults /\ (Sent(e) => Sent(e)')
    BY <1>0, <1>1, <1>2
  (* A fault explains one more record. *)
  <1>3. CASE log' = log /\ faults' = faults + 1
    BY <1>0, <1>1, <1>3
  <1>4. ASSUME CreateEvents
        PROVE  log' = log /\ faults' = faults /\ (Sent(e) => Sent(e)')
    BY <1>4 DEF CreateEvents, tx, Sent, IsNext
  <1>5. ASSUME NEW r \in Relay, Claim(r)
        PROVE  log' = log /\ faults' = faults /\ (Sent(e) => Sent(e)')
    BY <1>0, <1>5 DEF Claim, tables, Sent, IsNext, OutboxTypeOK
  <1>6. ASSUME NEW r \in Relay, Publish(r)
        PROVE  (Copies(log, e) <= faults + (IF Sent(e) THEN 1 ELSE 0))'
    <2> USE <1>6 DEF Publish, tables
    <2>1. PICK f \in batch[r] : IsNext(r, f) /\ log' = Append(log, f)
      OBVIOUS
    <2>2. f \in Event /\ Copies(log', e) = Copies(log, e) + (IF e = f THEN 1 ELSE 0)
      BY <1>0, <2>1, CopiesAppended DEF OutboxTypeOK
    <2>3. CASE e # f
      <3>1. Sent(e) => Sent(e)'
        BY <1>0, <2>3 DEF Sent, IsNext, OutboxTypeOK
      <3> QED BY <1>0, <1>1, <2>2, <2>3, <3>1
    <2>4. CASE e = f
      <3>1. ~Sent(e)
        BY <1>0, <2>1, <2>4
           DEF Sent, IsNext, OutboxInv, TransactionsOK, NoSharedClaim,
               Locked
      <3>2. Sent(e)'
        BY <1>0, <2>1, <2>4 DEF Sent, IsNext, OutboxTypeOK
      <3> QED BY <1>0, <1>1, <2>2, <2>4, <3>1, <3>2
    <2> QED BY <2>3, <2>4
  <1>7. ASSUME NEW r \in Relay, MarkPublished(r)
        PROVE  log' = log /\ faults' = faults /\ (Sent(e) => Sent(e)')
    <2>1. PICK f \in batch[r] : /\ IsNext(r, f)
                                /\ marked' = [marked EXCEPT ![r] = @ \cup {f}]
                                /\ batch' = [batch EXCEPT ![r] = @ \ {f}]
      BY <1>7 DEF MarkPublished
    <2>2. \A s \in Relay : phase[s] = "mark" /\ IsNext(s, e) => Sent(e)'
      BY <1>0, <1>7, <2>1, NextIsUnique
         DEF MarkPublished, Sent, IsNext, OutboxTypeOK
    <2>3. \A s \in Relay : e \in marked[s] => e \in marked'[s]
      BY <1>0, <2>1 DEF OutboxTypeOK
    <2> QED BY <1>7, <2>2, <2>3 DEF MarkPublished, tables, Sent
  <1>8. ASSUME NEW r \in Relay, PublishFails(r)
        PROVE  (Copies(log, e) <= faults + (IF Sent(e) THEN 1 ELSE 0))'
    <2> USE <1>8 DEF PublishFails, tables
    <2>1. PICK f \in batch[r] : /\ log' \in {log, Append(log, f)}
                                /\ batch' = [batch EXCEPT ![r] = @ \ {f}]
      OBVIOUS
    <2>2. f \in Event /\ Copies(log', e) <= Copies(log, e) + 1
      <3>1. f \in Event /\ log \in Seq(Event)
        BY <1>0 DEF OutboxTypeOK
      <3>2. Copies(Append(log, f), e) = Copies(log, e) + (IF e = f THEN 1 ELSE 0)
        BY <3>1, CopiesAppended
      <3>3. CASE log' = log
        BY <1>1, <3>1, <3>3
      <3>4. CASE log' = Append(log, f)
        BY <1>1, <3>1, <3>2, <3>4
      <3> QED BY <2>1, <3>3, <3>4
    <2>3. Sent(e) => Sent(e)'
      BY <1>0, <2>1 DEF Sent, IsNext, OutboxTypeOK
    <2> QED BY <1>0, <1>1, <2>2, <2>3
  <1>9. ASSUME NEW r \in Relay, Commit(r)
        PROVE  log' = log /\ faults' = faults /\ (Sent(e) => Sent(e)')
    BY <1>0, <1>9
       DEF Commit, EndTransaction, Sent, IsNext, OutboxTypeOK
  <1>10. ASSUME NEW r \in Relay, Rollback(r) PROVE log' = log /\ faults' = faults + 1
    BY <1>10 DEF Rollback
  <1>11. CASE UNCHANGED outboxVars
    BY <1>1, <1>11 DEF outboxVars, tables, tx, Sent, IsNext
  <1> QED
    BY <1>2, <1>3, <1>4, <1>5, <1>6, <1>7, <1>8, <1>9, <1>10, <1>11
       DEF OutboxNext, RelayStep, Progress

(* Kafka holds at most one record of an event more than there were faults. *)
THEOREM DuplicatesAreExplained == OutboxSpec => []DuplicatesNeedFaults
  <1>1. OutboxInit => CopiesInv
    <2> SUFFICES ASSUME OutboxInit, NEW e \in Event
                 PROVE  Copies(log, e) = 0 /\ faults = 0
      BY DEF CopiesInv
    <2>1. {i \in DOMAIN log : log[i] = e} = {}
      BY DEF OutboxInit
    <2> QED BY <2>1, FS_EmptySet, SameCardinality DEF OutboxInit, Copies
  <1>2. OutboxInv /\ CopiesInv => DuplicatesNeedFaults
    <2> SUFFICES ASSUME OutboxInv, CopiesInv, NEW e \in Event
                 PROVE  Copies(log, e) <= 1 + faults
      BY DEF DuplicatesNeedFaults
    <2>1. log \in Seq(Event) /\ faults \in Nat
      BY FaultsAssumption DEF OutboxInv, OutboxTypeOK
    <2>2. Copies(log, e) \in Nat
      BY <2>1, CopiesNat
    <2> QED BY <2>1, <2>2 DEF CopiesInv
  <1> QED BY <1>1, <1>2, CopiesStep, OutboxInvHolds, PTL DEF OutboxSpec

-----------------------------------------------------------------------------
(* NotificationPipeline: no event is lost between outbox and notifier, and *)
(* the whole implements ReminderDelivery.  The invariants of the two parts *)
(* hold in the whole; only the log couples them.                           *)

(* The records of the topic and the processed events are events of rows. *)
OnlyRequested == \A i \in DOMAIN log : log[i] \in rows

PipelineInv == OutboxInv /\ C!ConsumerInv /\ OnlyRequested

-----------------------------------------------------------------------------
(* The instances used in the specification and here are the same module. *)
LEMMA SameInit == Init => C!Init
  BY DEF Init, OutboxInit, Consumer!ConsumerInit, C!Init, C!ConsumerInit

LEMMA SameConsumer ==
    /\ \A m \in Member : /\ Consumer!ConsumerStep(m) => C!ConsumerStep(m)
                         /\ Consumer!ConsumerFault(m) => C!ConsumerFault(m)
    /\ \A e \in Event : Consumer!DeleteReminder(e) => C!DeleteReminder(e)
  BY DEF Consumer!ConsumerStep, Consumer!ConsumerFault, Consumer!Handle,
         Consumer!Assign, Consumer!Revoke, Consumer!Poll, Consumer!PollError,
         Consumer!Notify, Consumer!Skip, Consumer!Current, Consumer!CommitOffset,
         Consumer!Exit, Consumer!HandleFails, Consumer!Crash, Consumer!Restart,
         Consumer!Fault, Consumer!DeleteReminder, Consumer!db, Consumer!group,
         Consumer!client, Consumer!consumerVars, C!ConsumerStep, C!ConsumerFault,
         C!Handle, C!Assign, C!Revoke, C!Poll, C!PollError, C!Notify, C!Skip, C!Current,
         C!CommitOffset, C!Exit, C!HandleFails, C!Crash, C!Restart, C!Fault,
         C!DeleteReminder, C!db, C!group, C!client, C!consumerVars

-----------------------------------------------------------------------------
(* Each step of the pipeline is a step of both parts. *)
LEMMA OutboxStep == [Next]_vars => [OutboxNext]_outboxVars
  <1>1. SchedulerOrRelay => OutboxNext
    BY DEF SchedulerOrRelay
  <1>2. UNCHANGED outboxOnly /\ log' = log => UNCHANGED outboxVars
    BY DEF outboxOnly, outboxVars, tables, tx
  <1>3. ASSUME NEW m \in Member, C!ConsumerStep(m) \/ C!ConsumerFault(m) PROVE log' = log
    BY <1>3 DEF C!ConsumerStep, C!ConsumerFault, C!Handle, C!Assign, C!Revoke, C!Poll,
                C!PollError, C!Notify, C!Skip, C!CommitOffset, C!Exit, C!HandleFails,
                C!Crash, C!Restart
  <1>4. Notifier => UNCHANGED outboxVars
    BY <1>2, <1>3, SameConsumer DEF Notifier
  <1>5. ReminderDeleted => UNCHANGED outboxVars
    BY <1>2 DEF ReminderDeleted, Consumer!DeleteReminder
  <1>6. UNCHANGED vars => UNCHANGED outboxVars
    BY <1>2 DEF vars
  <1> QED BY <1>1, <1>4, <1>5, <1>6 DEF Next

LEMMA ConsumerStepOrAppend ==
    ASSUME OutboxTypeOK, [Next]_vars
    PROVE  [C!Step]_(C!allVars)
  <1>1. ASSUME SchedulerOrRelay
        PROVE  UNCHANGED C!allVars \/ \E e \in Event : C!AppendRecord(e)
    <2>1. log' = log \/ \E e \in Event : log' = Append(log, e)
      BY <1>1, LogGrows DEF SchedulerOrRelay
    <2>2. UNCHANGED consumerOnly
      BY <1>1 DEF SchedulerOrRelay
    <2> QED
      BY <2>1, <2>2 DEF consumerOnly, C!AppendRecord, C!allVars, C!consumerVars, C!db,
                        C!group, C!client
  <1>2. Notifier \/ ReminderDeleted => C!ConsumerNext
    BY SameConsumer, DeletableAssumption DEF Notifier, ReminderDeleted, C!ConsumerNext
  <1>3. UNCHANGED vars => UNCHANGED C!allVars
    BY DEF vars, consumerOnly, C!allVars, C!consumerVars, C!db, C!group, C!client
  <1> QED BY <1>1, <1>2, <1>3 DEF Next, C!Step

LEMMA InitPipelineInv == Init => PipelineInv
  <1> SUFFICES ASSUME Init PROVE PipelineInv
    OBVIOUS
  <1>1. OutboxInv
    BY InitOutboxInv DEF Init
  <1>2. C!ConsumerInv
    BY SameInit, C!InitConsumerInv, EventAssumption, DeletableAssumption, NoMemberAssumption,
       BoundsAssumption
  <1>3. OnlyRequested
    BY DEF Init, OutboxInit, OnlyRequested
  <1> QED BY <1>1, <1>2, <1>3 DEF PipelineInv

LEMMA PipelineInvStep ==
    ASSUME PipelineInv, [Next]_vars
    PROVE  PipelineInv'
  <1>0. OutboxTypeOK /\ OutboxTypeOK'
    BY OutboxStep, OutboxTypeStep DEF PipelineInv, OutboxInv
  <1>1. OutboxInv'
    BY OutboxStep, OutboxInvStep DEF PipelineInv
  <1>2. C!ConsumerInv'
    BY <1>0, ConsumerStepOrAppend, C!ConsumerInvStep, EventAssumption, DeletableAssumption,
       NoMemberAssumption, BoundsAssumption DEF PipelineInv
  <1>3. OnlyRequested'
    <2>1. rows \subseteq rows'
      BY OutboxStep
         DEF OutboxNext, CreateEvents, RelayStep, Progress,
             Claim, Publish, MarkPublished, PublishFails,
             Commit, Rollback, tables, outboxVars
    <2>2. log' = log \/ \E e \in rows : log' = Append(log, e)
      BY <1>0, OutboxStep
         DEF OutboxNext, CreateEvents, RelayStep, Progress,
             Claim, Publish, MarkPublished, PublishFails,
             Commit, Rollback, outboxVars, OutboxTypeOK
    <2>3. CASE log' = log
      BY <2>1, <2>3 DEF PipelineInv, OnlyRequested
    <2>4. CASE \E e \in rows : log' = Append(log, e)
      BY <1>0, <2>1, <2>4 DEF PipelineInv, OnlyRequested, OutboxTypeOK
    <2> QED BY <2>2, <2>3, <2>4
  <1> QED BY <1>1, <1>2, <1>3 DEF PipelineInv

LEMMA PipelineInvHolds == Spec => []PipelineInv
  BY InitPipelineInv, PipelineInvStep, PTL DEF Spec

-----------------------------------------------------------------------------
(* Every reachable state of relays, log and consumers together is well typed. *)
THEOREM PipelineTypeCorrect == Spec => []TypeOK
  <1>1. PipelineInv => TypeOK
    BY DEF PipelineInv, OutboxInv, C!ConsumerInv, TypeOK, OutboxTypeOK, C!TypeOK,
           C!Offsets, Consumer!TypeOK, Consumer!Offsets
  <1> QED BY <1>1, PipelineInvHolds, PTL

(* A published event is processed, dropped, or still to be consumed. *)
THEOREM NothingIsLost == Spec => []NoEventIsLost
  <1>1. PipelineInv => NoEventIsLost
    <2> SUFFICES ASSUME PipelineInv, NEW e \in published,
                        \A i \in DOMAIN log : log[i] = e => i <= committed /\ i \notin dropped
                 PROVE  e \in processed
      BY DEF NoEventIsLost, PipelineInv, C!ConsumerInv, C!TypeOK, C!Offsets
    <2>1. PICK i \in DOMAIN log : log[i] = e
      BY DEF PipelineInv, OutboxInv, PublishedIsInLog, InLog
    <2>2. i \in 1 .. committed /\ i \notin dropped
      BY <2>1 DEF PipelineInv, C!ConsumerInv, C!TypeOK, C!Offsets
    <2> QED
      BY <2>1, <2>2
         DEF PipelineInv, C!ConsumerInv, C!CommittedIsHandled, C!HandledUpTo, C!Done
  <1> QED BY <1>1, PipelineInvHolds, PTL

(* The outbox, Kafka and the notifier together keep the promise of         *)
(* ReminderDelivery: nobody is notified unasked, and nobody twice.         *)
THEOREM PipelineImplementsDelivery == Spec => ImplementsDelivery
  <1>1. Init => Promise!Init
    BY DEF Init, OutboxInit, Consumer!ConsumerInit, Promise!Init
  <1>2. ASSUME PipelineInv, [Next]_vars PROVE [Promise!Next]_(Promise!vars)
    <2>1. CASE SchedulerOrRelay
      <3>1. UNCHANGED notifications
        BY <2>1 DEF SchedulerOrRelay, consumerOnly
      <3>2. UNCHANGED rows \/ \E new \in SUBSET (Event \ rows) : new # {} /\ rows' = rows \cup new
        BY <2>1 DEF SchedulerOrRelay, OutboxNext, CreateEvents,
                    RelayStep, Progress, Claim, Publish,
                    MarkPublished, PublishFails, Commit,
                    Rollback, tables
      <3> QED BY <3>1, <3>2 DEF Promise!Next, Promise!Request, Promise!vars
    <2>2. ASSUME NEW m \in Member, C!Notify(m), UNCHANGED outboxOnly
          PROVE  \E e \in Event : Promise!Notify(e)
      <3> DEFINE e == C!Current(m)
      <3>1. next[m] + 1 \in DOMAIN log
        BY <1>2, <2>2
           DEF PipelineInv, C!ConsumerInv, C!TypeOK, C!Offsets, C!MemberOK, C!Notify
      <3>2. e \in rows /\ e \in Event /\ e \notin processed
        BY <1>2, <2>2, <3>1 DEF PipelineInv, OnlyRequested, C!Current, C!Notify,
                                C!ConsumerInv, C!TypeOK
      <3>3. notifications[e] = 0
        BY <1>2, <3>2 DEF PipelineInv, C!ConsumerInv, C!NotifiedExactlyOnce
      <3>4. notifications' = [notifications EXCEPT ![e] = 1] /\ rows' = rows
        BY <2>2, <3>3 DEF C!Notify, outboxOnly, tables
      <3> QED BY <3>2, <3>3, <3>4 DEF Promise!Notify
    <2>3. ASSUME NEW m \in Member, C!ConsumerStep(m) \/ C!ConsumerFault(m), ~C!Notify(m)
          PROVE  UNCHANGED notifications
      BY <2>3 DEF C!ConsumerStep, C!ConsumerFault, C!Handle, C!Assign, C!Revoke, C!Poll,
                  C!PollError, C!Skip, C!CommitOffset, C!Exit, C!HandleFails, C!Crash,
                  C!Restart, C!db
    <2>4. CASE Notifier
      BY <2>2, <2>3, <2>4, SameConsumer
         DEF Notifier, outboxOnly, tables, Promise!Next, Promise!vars
    <2>5. CASE ReminderDeleted
      BY <2>5, SameConsumer, DeletableAssumption
         DEF ReminderDeleted, outboxOnly, tables, C!DeleteReminder, C!consumerVars, C!db,
             Promise!vars
    <2>6. CASE UNCHANGED vars
      BY <2>6 DEF vars, outboxOnly, tables, consumerOnly, Promise!vars
    <2> QED BY <1>2, <2>1, <2>4, <2>5, <2>6 DEF Next
  <1> QED BY <1>1, <1>2, PipelineInvHolds, PTL DEF Spec, ImplementsDelivery, Promise!Spec

-----------------------------------------------------------------------------
(* Inbox. *)

(* Instants come from a clock that is past. *)
TimesOK ==
    \A n \in Note :
        /\ arriving[n] # NoTime => arriving[n] <= clock + Skew /\ created[n] = NoTime
        /\ created[n] # NoTime => created[n] <= clock + Skew

(* What a request holds: an instant that does not precede its row, or rows *)
(* that its clock precedes by the skew at most.                            *)
RequestOK(r) ==
    /\ Idle(r) => note[r] = NoNote /\ stored[r] = {}
    /\ note[r] # NoNote => /\ note[r] \in Rows
                           /\ Owner[note[r]] = actor[r]
                           /\ created[note[r]] <= at[r]
    /\ stored[r] \subseteq Of(actor[r])
    /\ \A n \in stored[r] : n \in Rows /\ (note[r] = NoNote => created[n] <= at[r] + Skew)

InboxInv ==
    /\ InboxTypeOK
    /\ TimesOK
    /\ \A r \in Request : RequestOK(r)
    /\ acked \cap Unread = {}
    /\ \A n \in Rows : ~Readable(n) => n \in early

-----------------------------------------------------------------------------
LEMMA InitInboxInv == InboxInit => InboxInv
  <1> SUFFICES ASSUME InboxInit PROVE InboxInv
    OBVIOUS
  <1>1. Rows = {} /\ Unread = {}
    BY DEF InboxInit, Rows, Unread
  <1>2. InboxTypeOK
    BY <1>1, TimeAssumption DEF InboxInit, InboxTypeOK, Time
  <1>3. TimesOK /\ \A r \in Request : RequestOK(r)
    BY <1>1 DEF InboxInit, TimesOK, RequestOK, Idle
  <1> QED BY <1>1, <1>2, <1>3 DEF InboxInv

(* The notifiers write only rows that no request can know. *)
LEMMA NotifierKeeps ==
    ASSUME InboxInv, NEW n \in Note, BeginStore(n) \/ Store(n) \/ RollbackStore(n)
    PROVE  InboxInv'
  <1> USE TimeAssumption DEF InboxInv, requests, history
  <1>1. CASE BeginStore(n)
    <2>1. InboxTypeOK'
      BY <1>1 DEF InboxTypeOK, BeginStore, Rows, Time
    <2>2. TimesOK'
      BY <1>1 DEF TimesOK, InboxTypeOK, BeginStore
    <2> QED BY <1>1, <2>1, <2>2 DEF BeginStore, RequestOK, Idle, Rows, Unread, Readable
  <1>2. CASE Store(n)
    <2>1. /\ n \notin Rows
          /\ Rows' = Rows \cup {n}
          /\ readAt[n] = NoTime
          /\ \A m \in Rows : created'[m] = created[m]
      BY <1>2 DEF Store, TimesOK, InboxTypeOK, Rows
    <2>2. InboxTypeOK'
      BY <1>2, <2>1 DEF InboxTypeOK, Store, Time
    <2>3. TimesOK'
      BY <1>2 DEF TimesOK, InboxTypeOK, Store
    <2>4. \A r \in Request : RequestOK(r)'
      BY <1>2, <2>1 DEF Store, RequestOK, Idle
    <2>5. acked' \cap Unread' = {}
      BY <1>2, <2>1 DEF Store, Unread, InboxTypeOK
    <2>6. \A m \in Rows' : ~Readable(m)' => m \in early'
      BY <1>2, <2>1 DEF Store, Readable
    <2> QED BY <2>2, <2>3, <2>4, <2>5, <2>6
  <1>3. CASE RollbackStore(n)
    <2>1. InboxTypeOK'
      BY <1>3 DEF InboxTypeOK, RollbackStore, Rows, Time
    <2>2. TimesOK'
      BY <1>3 DEF TimesOK, InboxTypeOK, RollbackStore
    <2> QED BY <1>3, <2>1, <2>2 DEF RollbackStore, RequestOK, Idle, Rows, Unread, Readable
  <1> QED BY <1>1, <1>2, <1>3

(* A request that begins or ends changes no row; the others keep what they *)
(* hold.                                                                   *)
LEMMA BeginsKeeps ==
    ASSUME InboxInv, NEW r \in Request, NEW u \in User, NEW n \in Note \cup {NoNote},
           NEW time \in 0 .. MaxTime,
           Begins(r, u, n, time),
           n # NoNote => n \in Rows /\ Owner[n] = u /\ created[n] <= time,
           n = NoNote => time = clock
    PROVE  InboxInv'
  <1> USE UserAssumption, TimeAssumption DEF InboxInv, Begins, inboxRows, history
  <1>1. Rows' = Rows /\ Unread' = Unread
    BY DEF Rows, Unread
  <1>2. InboxTypeOK'
    BY <1>1 DEF InboxTypeOK, Rows, Of
  <1>3. TimesOK'
    BY DEF TimesOK
  <1>4. RequestOK(r)'
    <2>1. /\ actor'[r] = u /\ note'[r] = n /\ at'[r] = time
          /\ stored'[r] = Of(u) \cap Rows
      BY DEF InboxTypeOK
    <2>2. \A m \in Rows : created[m] <= clock + Skew
      BY DEF TimesOK, Rows
    <2> QED BY <1>1, <2>1, <2>2 DEF RequestOK, Idle
  <1>5. \A s \in Request \ {r} : RequestOK(s)'
    BY <1>1 DEF RequestOK, Idle, InboxTypeOK
  <1> QED BY <1>1, <1>2, <1>3, <1>4, <1>5 DEF Readable

LEMMA EndsKeeps ==
    ASSUME InboxInv, NEW r \in Request, Ends(r),
           readAt' \in [Note -> 0 .. MaxTime \cup {NoTime}],
           \A n \in Note : readAt'[n] # readAt[n] => n \in Rows /\ readAt'[n] # NoTime,
           acked \subseteq acked', acked' \subseteq Rows,
           \A n \in acked' \ acked : readAt'[n] # NoTime,
           early \subseteq early', early' \subseteq Rows,
           \A n \in Rows : readAt'[n] # readAt[n] /\ ~Readable(n)' => n \in early'
    PROVE  InboxInv'
  <1> USE TimeAssumption DEF InboxInv, Ends
  <1>1. Rows' = Rows
    BY DEF Rows
  <1>2. InboxTypeOK'
    <2>1. \A n \in Note \ Rows' : readAt'[n] = NoTime
      BY <1>1 DEF InboxTypeOK
    <2> QED BY <1>1, <2>1 DEF InboxTypeOK
  <1>3. TimesOK'
    BY DEF TimesOK
  <1>4. RequestOK(r)'
    BY DEF RequestOK, InboxTypeOK
  <1>5. \A s \in Request \ {r} : RequestOK(s)'
    BY <1>1 DEF RequestOK, Idle, InboxTypeOK
  <1>6. acked' \cap Unread' = {}
    <2>1. \A n \in acked : n \in Note /\ readAt[n] # NoTime
      BY DEF Unread, InboxTypeOK, Rows
    <2>2. \A n \in acked' : readAt'[n] # NoTime
      BY <2>1
    <2> QED BY <1>1, <2>2 DEF Unread
  <1>7. \A n \in Rows' : ~Readable(n)' => n \in early'
    BY <1>1 DEF Readable
  <1> QED BY <1>2, <1>3, <1>4, <1>5, <1>6, <1>7

LEMMA RequestKeeps ==
    ASSUME InboxInv, NEW r \in Request,
           \/ \E u \in User : BeginMarkAll(r, u) \/ \E n \in Note : FindToMark(r, u, n)
           \/ MarkRead(r) \/ MarkAllRead(r) \/ Fail(r)
    PROVE  InboxInv'
  <1>1. ASSUME NEW u \in User, BeginMarkAll(r, u) PROVE InboxInv'
    <2>1. clock \in 0 .. MaxTime
      BY DEF InboxInv, InboxTypeOK
    <2> QED BY <1>1, <2>1, BeginsKeeps DEF BeginMarkAll
  <1>2. ASSUME NEW u \in User, NEW n \in Note, FindToMark(r, u, n) PROVE InboxInv'
    <2>1. PICK time \in ReadTime(n) : Begins(r, u, n, time)
      BY <1>2 DEF FindToMark
    <2>2. n \in Rows /\ Owner[n] = u /\ n # NoNote
      BY <1>2, NoteAssumption DEF FindToMark, MayMark
    <2>3. time \in 0 .. MaxTime /\ created[n] <= time
      BY <1>2, TimeAssumption
         DEF ReadTime, InboxInv, InboxTypeOK, FindToMark, MayMark, Readable, Rows, Time
    <2> QED BY <2>1, <2>2, <2>3, BeginsKeeps
  <1>3. CASE MarkRead(r)
    <2>1. note[r] \in Rows /\ created[note[r]] <= at[r] /\ note[r] \in Note
      BY <1>3 DEF MarkRead, InboxInv, RequestOK, Rows
    <2>2. at[r] \in 0 .. MaxTime /\ at[r] # NoTime
      BY TimeAssumption DEF InboxInv, InboxTypeOK
    <2>3. /\ readAt' \in [Note -> 0 .. MaxTime \cup {NoTime}]
          /\ readAt'[note[r]] = at[r]
          /\ \A n \in Note \ {note[r]} : readAt'[n] = readAt[n]
      BY <1>3, <2>1, <2>2 DEF MarkRead, InboxInv, InboxTypeOK
    <2>4. acked' = acked \cup {note[r]} /\ early' = early /\ Ends(r) /\ created' = created
      BY <1>3 DEF MarkRead, Ends
    <2>5. \A n \in Rows : n = note[r] => Readable(n)'
      <3>1. created[note[r]] \in Nat
        BY <2>1, TimeAssumption DEF Rows, InboxInv, InboxTypeOK, Time
      <3> QED BY <2>1, <2>2, <2>3, <2>4, <3>1 DEF Readable
    <2>6. acked \subseteq Rows /\ early \subseteq Rows
      BY DEF InboxInv, InboxTypeOK
    <2>7. \A n \in Note : readAt'[n] # readAt[n] => n \in Rows /\ readAt'[n] # NoTime
      BY <2>1, <2>2, <2>3
    <2>8. \A n \in acked' \ acked : readAt'[n] # NoTime
      BY <2>2, <2>3, <2>4
    <2>9. \A n \in Rows : readAt'[n] # readAt[n] /\ ~Readable(n)' => n \in early'
      BY <2>3, <2>5 DEF Rows, Readable
    <2> QED BY <2>1, <2>3, <2>4, <2>6, <2>7, <2>8, <2>9, EndsKeeps
  <1>4. CASE MarkAllRead(r)
    <2> DEFINE M == Marked(actor[r], at[r])
    <2>1. M \subseteq Rows /\ \A n \in M : readAt[n] = NoTime
      BY DEF Marked, Unread
    <2>2. at[r] \in 0 .. MaxTime /\ at[r] # NoTime
      BY TimeAssumption DEF InboxInv, InboxTypeOK
    <2>3. /\ readAt' \in [Note -> 0 .. MaxTime \cup {NoTime}]
          /\ \A n \in M : readAt'[n] = at[r]
          /\ \A n \in Note \ M : readAt'[n] = readAt[n]
      BY <1>4, <2>1, <2>2 DEF MarkAllRead, InboxInv, InboxTypeOK, Rows
    <2>4. acked' = acked \cup stored[r] /\ stored[r] \subseteq Rows /\ Ends(r)
      BY <1>4 DEF MarkAllRead, InboxInv, RequestOK
    <2>5. /\ \A n \in stored[r] : created[n] <= at[r] + Skew
          /\ created' = created
      BY <1>4 DEF MarkAllRead, InboxInv, RequestOK, Ends
    <2>6. early' = early \cup {n \in M : at[r] < created[n]}
      BY <1>4, <2>5 DEF MarkAllRead
    <2>7. \A n \in Rows : readAt'[n] # readAt[n] /\ ~Readable(n)' => n \in early'
      BY <2>1, <2>2, <2>3, <2>5, <2>6, TimeAssumption
         DEF Readable, Rows, InboxInv, InboxTypeOK, Time
    <2>8. acked \subseteq Rows /\ early \subseteq Rows
      BY DEF InboxInv, InboxTypeOK
    <2>9. \A n \in Note : readAt'[n] # readAt[n] => n \in Rows /\ readAt'[n] # NoTime
      BY <2>1, <2>2, <2>3
    <2>10. stored[r] \subseteq Of(actor[r])
      BY <1>4 DEF InboxInv, RequestOK
    <2>11. \A n \in acked' \ acked : readAt'[n] # NoTime
      BY <2>2, <2>3, <2>4, <2>10 DEF Marked, Unread, Rows
    <2> QED BY <2>1, <2>3, <2>4, <2>6, <2>7, <2>8, <2>9, <2>11, EndsKeeps
  <1>5. CASE Fail(r)
    <2>1. Ends(r) /\ readAt' = readAt /\ acked' = acked /\ early' = early
      BY <1>5 DEF Fail, history
    <2>2. readAt \in [Note -> 0 .. MaxTime \cup {NoTime}] /\ acked \subseteq Rows /\ early \subseteq Rows
      BY DEF InboxInv, InboxTypeOK
    <2> QED BY <2>1, <2>2, EndsKeeps
  <1> QED BY <1>1, <1>2, <1>3, <1>4, <1>5

LEMMA InboxInvStep == InboxInv /\ [InboxNext]_inboxVars => InboxInv'
  <1> SUFFICES ASSUME InboxInv, [InboxNext]_inboxVars PROVE InboxInv'
    OBVIOUS
  <1>1. ASSUME NEW n \in Note, BeginStore(n) \/ Store(n) \/ RollbackStore(n) PROVE InboxInv'
    BY <1>1, NotifierKeeps
  <1>2. ASSUME NEW r \in Request,
               \/ \E u \in User : BeginMarkAll(r, u) \/ \E n \in Note : FindToMark(r, u, n)
               \/ MarkRead(r) \/ MarkAllRead(r) \/ Fail(r)
        PROVE  InboxInv'
    BY <1>2, RequestKeeps
  <1>3. CASE Tick
    <2> USE <1>3, TimeAssumption DEF Tick, inboxRows, requests, history, InboxInv
    <2>1. InboxTypeOK'
      BY DEF InboxTypeOK, Rows, Time
    <2>2. TimesOK'
      BY DEF TimesOK, InboxTypeOK, Time
    <2> QED BY <2>1, <2>2 DEF RequestOK, Idle, Rows, Unread, Readable
  <1>4. CASE UNCHANGED inboxVars
    BY <1>4
       DEF inboxVars, inboxRows, requests, history, InboxInv, InboxTypeOK, TimesOK,
           RequestOK, Idle, Rows, Unread, Readable, Time
  <1> QED BY <1>1, <1>2, <1>3, <1>4 DEF InboxNext

(* The invariant holds in every reachable state. *)
THEOREM InboxInvHolds == InboxSpec => []InboxInv
  BY InitInboxInv, InboxInvStep, PTL DEF InboxSpec

-----------------------------------------------------------------------------
(* Every variable keeps its type; read marks carry the API's clock. *)
THEOREM InboxTypeCorrect == InboxSpec => []InboxTypeOK
  BY InboxInvHolds, PTL DEF InboxInv

(* MarkRead and MarkAllRead (notification_service.go): what was answered   *)
(* as read stays read.                                                     *)
THEOREM ReadStaysRead == InboxSpec => []AckedIsRead
  <1>1. InboxInv => AckedIsRead
    BY DEF InboxInv, AckedIsRead, CountUnread
  <1> QED BY <1>1, InboxInvHolds, PTL

(* ListNotifications fails only for rows that MarkAllRead marked with an   *)
(* instant before their creation.                                          *)
THEOREM ListFailuresAreRaces == InboxSpec => []ListFailsForRace
  <1>1. InboxInv => ListFailsForRace
    BY DEF InboxInv, ListFailsForRace, ListFails
  <1> QED BY <1>1, InboxInvHolds, PTL

(* Once no request in flight carries another instant, read_at is final:    *)
(* MarkRead rewrites what it found, MarkAllRead leaves the row alone.      *)
THEOREM ReadAtSettles == InboxSpec => ReadAtIsFinal
  <1>1. ASSUME InboxInv, [InboxNext]_inboxVars, NEW n \in Note, Settled(n)
        PROVE  Settled(n)' /\ readAt'[n] = readAt[n]
    <2> USE <1>1 DEF Settled
    <2>1. CASE readAt' = readAt /\ note' = note /\ at' = at
      BY <2>1
    <2>2. ASSUME NEW r \in Request, NEW u \in User, NEW m \in Note \cup {NoNote},
                 NEW time, Begins(r, u, m, time), m = n => time = readAt[n]
          PROVE  Settled(n)' /\ readAt'[n] = readAt[n]
      BY <2>2 DEF Begins, inboxRows, InboxInv, InboxTypeOK
    <2>3. ASSUME NEW r \in Request, Ends(r), readAt'[n] = readAt[n]
          PROVE  Settled(n)' /\ readAt'[n] = readAt[n]
      BY <2>3, NoteAssumption DEF Ends, InboxInv, InboxTypeOK
    <2>4. ASSUME NEW r \in Request, NEW u \in User, BeginMarkAll(r, u)
          PROVE  Settled(n)' /\ readAt'[n] = readAt[n]
      BY <2>4, <2>2, NoteAssumption DEF BeginMarkAll
    <2>5. ASSUME NEW r \in Request, NEW u \in User, NEW m \in Note, FindToMark(r, u, m)
          PROVE  Settled(n)' /\ readAt'[n] = readAt[n]
      <3>1. PICK time \in ReadTime(m) : Begins(r, u, m, time)
        BY <2>5 DEF FindToMark
      <3>2. m = n => time = readAt[n]
        BY <3>1 DEF ReadTime
      <3> QED BY <3>1, <3>2, <2>2
    <2>6. ASSUME NEW r \in Request, MarkRead(r)
          PROVE  Settled(n)' /\ readAt'[n] = readAt[n]
      <3>1. readAt'[n] = readAt[n]
        BY <2>6 DEF MarkRead, InboxInv, InboxTypeOK
      <3> QED BY <2>6, <3>1, <2>3 DEF MarkRead
    <2>7. ASSUME NEW r \in Request, MarkAllRead(r)
          PROVE  Settled(n)' /\ readAt'[n] = readAt[n]
      <3>1. readAt'[n] = readAt[n]
        BY <2>7 DEF MarkAllRead, Marked, Unread
      <3> QED BY <2>7, <3>1, <2>3 DEF MarkAllRead
    <2>8. ASSUME NEW r \in Request, Fail(r)
          PROVE  Settled(n)' /\ readAt'[n] = readAt[n]
      BY <2>8, <2>3 DEF Fail
    <2> QED BY <2>1, <2>4, <2>5, <2>6, <2>7, <2>8
            DEF InboxNext, inboxVars, inboxRows, requests, BeginStore, Store,
                RollbackStore, Tick
  <1>2. InboxInv /\ [InboxNext]_inboxVars
           => [\A n \in Note : Settled(n) => Settled(n)' /\ readAt'[n] = readAt[n]]_inboxVars
    BY <1>1
  <1> QED BY <1>2, InboxInvHolds, PTL DEF InboxSpec, ReadAtIsFinal

(* A read mark is made by a request of the notification's owner. *)
THEOREM MarksAreTheOwners == InboxSpec => OnlyOwnersMark
  <1>1. ASSUME InboxInv, [InboxNext]_inboxVars, NEW n \in Note, readAt'[n] # readAt[n]
        PROVE  \E r \in Request : actor[r] = Owner[n] /\ Idle(r)'
    <2> USE <1>1
    <2>1. ASSUME NEW r \in Request, MarkRead(r)
          PROVE  actor[r] = Owner[n] /\ Idle(r)'
      <3>1. n = note[r]
        BY <2>1 DEF MarkRead, InboxInv, InboxTypeOK
      <3> QED BY <2>1, <3>1, NoteAssumption
         DEF MarkRead, Ends, Idle, InboxInv, InboxTypeOK, RequestOK
    <2>2. ASSUME NEW r \in Request, MarkAllRead(r)
          PROVE  actor[r] = Owner[n] /\ Idle(r)'
      <3>1. n \in Of(actor[r])
        BY <2>2 DEF MarkAllRead, Marked
      <3> QED BY <2>2, <3>1 DEF MarkAllRead, Of, Ends, Idle, InboxInv, InboxTypeOK
    <2> QED BY <2>1, <2>2
            DEF InboxNext, inboxVars, inboxRows, BeginStore, Store, RollbackStore, Tick,
                BeginMarkAll, FindToMark, Begins, Fail
  <1>2. InboxInv /\ [InboxNext]_inboxVars
           => [\A n \in Note : readAt'[n] # readAt[n] =>
                  \E r \in Request : actor[r] = Owner[n] /\ Idle(r)']_inboxVars
    BY <1>1
  <1> QED BY <1>2, InboxInvHolds, PTL DEF InboxSpec, OnlyOwnersMark
=============================================================================
