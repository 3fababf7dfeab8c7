--------------------- MODULE NotificationConsumerProofs ----------------------
(***************************************************************************)
(* NotificationConsumer for every group of members, partition length and   *)
(* number of faults: no event is notified twice, and no offset is          *)
(* committed before its record is handled.                                 *)
(***************************************************************************)
EXTENDS NotificationConsumer, TLAPS

(* What a live member has behind it: all it handled, and, once the batch   *)
(* is done, all before its fetch position.                                 *)
MemberOK(m) ==
    /\ owner = m => stage[m] # "down"
    /\ stage[m] \in {"handle", "commit"} =>
          /\ next[m] < last[m]
          /\ HandledUpTo(next[m])
          /\ position[m] = last[m] \/ (owner = m => HandledUpTo(position[m]))
    /\ stage[m] = "commit" => Done(next[m] + 1)
    /\ stage[m] = "poll" /\ owner = m => HandledUpTo(position[m])

ConsumerInv ==
    /\ TypeOK
    /\ NotifiedExactlyOnce
    /\ CommittedIsHandled
    /\ \A m \in Member : MemberOK(m)

(* A step of the consumer, or a record appended to the partition. *)
Step == ConsumerNext \/ \E e \in Event : AppendRecord(e)

-----------------------------------------------------------------------------
LEMMA NextIsStep == [Next]_allVars => [Step]_allVars
  BY DEF Next, Step, Produce

LEMMA InitConsumerInv == Init => ConsumerInv
  BY NoMemberAssumption, BoundsAssumption
     DEF Init, ConsumerInit, ConsumerInv, TypeOK, NotifiedExactlyOnce,
         CommittedIsHandled, MemberOK, HandledUpTo, Offsets

LEMMA AppendFacts ==
    ASSUME NEW s \in Seq(Event), NEW e \in Event
    PROVE  /\ Append(s, e) \in Seq(Event)
           /\ Len(Append(s, e)) = Len(s) + 1
           /\ DOMAIN s \subseteq DOMAIN Append(s, e)
           /\ \A i \in DOMAIN s : Append(s, e)[i] = s[i]
  OBVIOUS

LEMMA TypeStep ==
    ASSUME TypeOK, NotifiedExactlyOnce, \A m \in Member : MemberOK(m), [Step]_allVars
    PROVE  TypeOK'
  <1> USE DEF TypeOK, Offsets
  <1>0. Len(log) \in Nat
    OBVIOUS
  <1>1. ASSUME NEW e \in Event, AppendRecord(e) PROVE TypeOK'
    BY <1>1, AppendFacts DEF AppendRecord, consumerVars, db, group, client
  <1>2. ASSUME NEW e \in Deletable, DeleteReminder(e) PROVE TypeOK'
    BY <1>2, EventAssumption DEF DeleteReminder, consumerVars, db, group, client
  <1>3. ASSUME NEW m \in Member, Assign(m) PROVE TypeOK'
    BY <1>3 DEF Assign, db
  <1>4. ASSUME NEW m \in Member, Revoke(m) PROVE TypeOK'
    BY <1>4, BoundsAssumption DEF Revoke, Fault, db, client
  <1>5. ASSUME NEW m \in Member, Poll(m) PROVE TypeOK'
    <2>1. PICK n \in position[m] + 1 .. Len(log) :
               /\ next' = [next EXCEPT ![m] = position[m]]
               /\ last' = [last EXCEPT ![m] = n]
               /\ position' = [position EXCEPT ![m] = n]
      BY <1>5 DEF Poll
    <2>2. position[m] \in 0 .. Len(log) /\ n \in 0 .. Len(log)
      BY <1>0
    <2>3. /\ next' \in [Member -> 0 .. Len(log)]
          /\ last' \in [Member -> 0 .. Len(log)]
          /\ position' \in [Member -> 0 .. Len(log)]
      BY <2>1, <2>2
    <2>4. stage' \in [Member -> {"down", "poll", "handle", "commit"}]
      BY <1>5 DEF Poll
    <2> QED BY <1>5, <2>3, <2>4 DEF Poll, db, group
  <1>6. ASSUME NEW m \in Member, PollError(m) PROVE TypeOK'
    <2>1. PICK n \in position[m] .. Len(log) :
               /\ dropped' = dropped \cup (position[m] + 1 .. n)
               /\ position' = [position EXCEPT ![m] = n]
      BY <1>6 DEF PollError
    <2>2. position[m] \in 0 .. Len(log) /\ n \in 0 .. Len(log)
      BY <1>0
    <2>3. position[m] + 1 .. n \subseteq 1 .. Len(log)
      BY <1>0, <2>2, SMTT(20)
    <2>4. dropped' \subseteq 1 .. Len(log) /\ position' \in [Member -> 0 .. Len(log)]
      BY <2>1, <2>2, <2>3
    <2>5. faultCount' \in 0 .. MaxFaults
      BY <1>6, BoundsAssumption DEF PollError, Fault
    <2> QED BY <1>6, <2>4, <2>5 DEF PollError, db, group
  <1>7. ASSUME NEW m \in Member, Notify(m) PROVE TypeOK'
    <2>1. Current(m) \in Event
      BY <1>7 DEF Notify, Current, MemberOK
    <2>2. processed' \subseteq Event /\ deliveries' \subseteq Event
      BY <1>7, <2>1 DEF Notify
    <2>3. notifications' \in [Event -> Nat]
      BY <1>7, <2>1 DEF Notify
    <2>4. stage' \in [Member -> {"down", "poll", "handle", "commit"}]
      BY <1>7 DEF Notify
    <2> QED BY <1>7, <2>2, <2>3, <2>4 DEF Notify, group
  <1>8. ASSUME NEW m \in Member, Skip(m) PROVE TypeOK'
    <2>1. stage' \in [Member -> {"down", "poll", "handle", "commit"}]
      BY <1>8 DEF Skip
    <2> QED BY <1>8, <2>1 DEF Skip, db, group
  <1>9. ASSUME NEW m \in Member, CommitOffset(m) PROVE TypeOK'
    <2>1. next[m] + 1 \in 0 .. Len(log)
      BY <1>0, <1>9 DEF CommitOffset, MemberOK
    <2>2. committed' \in 0 .. Len(log) /\ next' \in [Member -> 0 .. Len(log)]
      BY <1>9, <2>1 DEF CommitOffset
    <2>3. stage' \in [Member -> {"down", "poll", "handle", "commit"}]
      BY <1>9 DEF CommitOffset
    <2> QED BY <1>9, <2>2, <2>3 DEF CommitOffset, db
  <1>10. ASSUME NEW m \in Member, HandleFails(m) \/ Crash(m) PROVE TypeOK'
    <2>1. faultCount' \in 0 .. MaxFaults
      BY <1>10, BoundsAssumption DEF HandleFails, Crash, Fault
    <2>2. Exit(m)
      BY <1>10 DEF HandleFails, Crash
    <2> QED BY <2>1, <2>2 DEF Exit, db
  <1>11. ASSUME NEW m \in Member, Restart(m) PROVE TypeOK'
    BY <1>11 DEF Restart, db, group
  <1>12. CASE UNCHANGED allVars
    BY <1>12 DEF allVars, consumerVars, db, group, client
  <1> QED
    BY <1>1, <1>2, <1>3, <1>4, <1>5, <1>6, <1>7, <1>8, <1>9, <1>10, <1>11, <1>12
       DEF Step, ConsumerNext, ConsumerStep, ConsumerFault, Handle

(* Handled records stay handled. *)
LEMMA HandledIsKept ==
    ASSUME TypeOK, [Step]_allVars
    PROVE  /\ \A i : Done(i) => Done(i)'
           /\ dropped \subseteq dropped'
           /\ \A n : HandledUpTo(n) => HandledUpTo(n)'
  <1>1. processed \subseteq processed' /\ dropped \subseteq dropped'
    BY DEF Step, ConsumerNext, ConsumerStep, ConsumerFault, Handle, AppendRecord,
           DeleteReminder, Assign, Revoke, Poll, PollError, Notify, Skip, CommitOffset,
           HandleFails, Crash, Exit, Restart, allVars, consumerVars, db, group, client
  <1>2. log' = log \/ \E e \in Event : log' = Append(log, e)
    BY DEF Step, ConsumerNext, ConsumerStep, ConsumerFault, Handle, AppendRecord,
           DeleteReminder, Assign, Revoke, Poll, PollError, Notify, Skip, CommitOffset,
           HandleFails, Crash, Exit, Restart, allVars, consumerVars
  <1>3. \A i \in DOMAIN log : i \in DOMAIN log' /\ log'[i] = log[i]
    <2>1. CASE log' = log
      BY <2>1
    <2>2. CASE \E e \in Event : log' = Append(log, e)
      BY <2>2, AppendFacts DEF TypeOK
    <2> QED BY <1>2, <2>1, <2>2
  <1>4. \A i : Done(i) => Done(i)'
    BY <1>1, <1>3 DEF Done
  <1> QED BY <1>1, <1>4 DEF HandledUpTo

LEMMA ConsumerInvStep ==
    ASSUME ConsumerInv, [Step]_allVars
    PROVE  ConsumerInv'
  <1>0. TypeOK /\ TypeOK' /\ NotifiedExactlyOnce /\ CommittedIsHandled
        /\ \A m \in Member : MemberOK(m)
    BY TypeStep DEF ConsumerInv
  <1>k. /\ \A i : Done(i) => Done(i)'
        /\ \A n : HandledUpTo(n) => HandledUpTo(n)'
        /\ dropped \subseteq dropped'
    BY <1>0, HandledIsKept
  <1> DEFINE Rest == NotifiedExactlyOnce /\ CommittedIsHandled /\ \A m \in Member : MemberOK(m)
  <1> SUFFICES Rest'
    BY <1>0 DEF ConsumerInv
  <1>1. ASSUME UNCHANGED consumerVars PROVE Rest'
    BY <1>0, <1>k, <1>1 DEF consumerVars, db, group, client, NotifiedExactlyOnce,
                            CommittedIsHandled, MemberOK
  <1>2. ASSUME NEW e \in Event, AppendRecord(e) PROVE Rest'
    BY <1>1, <1>2 DEF AppendRecord
  <1>3. ASSUME NEW e \in Deletable, DeleteReminder(e) PROVE Rest'
    BY <1>1, <1>3 DEF DeleteReminder
  <1>4. ASSUME NEW m \in Member, Assign(m) PROVE Rest'
    <2> USE <1>4 DEF Assign, db
    <2>1. NotifiedExactlyOnce' /\ CommittedIsHandled'
      BY <1>0, <1>k DEF NotifiedExactlyOnce, CommittedIsHandled
    <2>2. \A x \in Member : MemberOK(x)'
      BY <1>0, <1>k, NoMemberAssumption DEF MemberOK, CommittedIsHandled, TypeOK
    <2> QED BY <2>1, <2>2
  <1>5. ASSUME NEW m \in Member, Revoke(m) PROVE Rest'
    BY <1>0, <1>k, <1>5, NoMemberAssumption
       DEF Revoke, db, client, NotifiedExactlyOnce, CommittedIsHandled, MemberOK
  <1>6. ASSUME NEW m \in Member, Poll(m) PROVE Rest'
    <2> USE <1>6 DEF Poll, db, group
    <2>1. NotifiedExactlyOnce' /\ CommittedIsHandled'
      BY <1>0, <1>k DEF NotifiedExactlyOnce, CommittedIsHandled
    <2>2. MemberOK(m)'
      BY <1>0, <1>k DEF MemberOK, TypeOK, Offsets
    <2>3. \A x \in Member \ {m} : MemberOK(x)'
      BY <1>0, <1>k DEF MemberOK, TypeOK
    <2> QED BY <2>1, <2>2, <2>3
  <1>7. ASSUME NEW m \in Member, PollError(m) PROVE Rest'
    <2> USE <1>7 DEF PollError, db, group
    <2>1. NotifiedExactlyOnce' /\ CommittedIsHandled'
      BY <1>0, <1>k DEF NotifiedExactlyOnce, CommittedIsHandled
    <2>2. PICK n \in position[m] .. Len(log) :
               /\ dropped' = dropped \cup (position[m] + 1 .. n)
               /\ position' = [position EXCEPT ![m] = n]
      OBVIOUS
    <2>3. PICK k \in Nat : k = position[m] /\ n \in Nat /\ k <= n
      BY <1>0 DEF TypeOK, Offsets
    <2>4. HandledUpTo(n)'
      <3>1. HandledUpTo(k)'
        BY <1>0, <1>k, <2>3 DEF MemberOK
      <3> QED BY <2>2, <2>3, <3>1 DEF HandledUpTo
    <2>5. MemberOK(m)'
      BY <1>0, <2>2, <2>4 DEF MemberOK, TypeOK, HandledUpTo
    <2>6. \A x \in Member \ {m} : MemberOK(x)'
      BY <1>0, <1>k, <2>2 DEF MemberOK, TypeOK
    <2> QED BY <2>1, <2>5, <2>6
  <1>8. ASSUME NEW m \in Member, Notify(m) PROVE Rest'
    <2> USE <1>8 DEF Notify, group
    <2>1. NotifiedExactlyOnce'
      BY <1>0 DEF NotifiedExactlyOnce, TypeOK
    <2>2. CommittedIsHandled'
      BY <1>0, <1>k DEF CommittedIsHandled
    <2>3. Done(next[m] + 1)'
      BY <1>0 DEF Done, Current, MemberOK, TypeOK, Offsets
    <2>4. MemberOK(m)'
      BY <1>0, <1>k, <2>3 DEF MemberOK, TypeOK
    <2>5. \A x \in Member \ {m} : MemberOK(x)'
      BY <1>0, <1>k DEF MemberOK, TypeOK
    <2> QED BY <2>1, <2>2, <2>4, <2>5
  <1>9. ASSUME NEW m \in Member, Skip(m) PROVE Rest'
    <2> USE <1>9 DEF Skip, group, db
    <2>1. NotifiedExactlyOnce' /\ CommittedIsHandled'
      BY <1>0, <1>k DEF NotifiedExactlyOnce, CommittedIsHandled
    <2>2. Done(next[m] + 1)'
      BY <1>0 DEF Done, Current, MemberOK, TypeOK, Offsets
    <2>3. MemberOK(m)'
      BY <1>0, <1>k, <2>2 DEF MemberOK, TypeOK
    <2>4. \A x \in Member \ {m} : MemberOK(x)'
      BY <1>0, <1>k DEF MemberOK, TypeOK
    <2> QED BY <2>1, <2>3, <2>4
  <1>10. ASSUME NEW m \in Member, CommitOffset(m) PROVE Rest'
    <2> USE <1>10 DEF CommitOffset, db
    <2>1. PICK k \in Nat : k = next[m]
      BY <1>0 DEF TypeOK, Offsets
    <2>2. /\ HandledUpTo(k) /\ Done(k + 1) /\ k < last[m] /\ last[m] \in Nat
          /\ committed' = k + 1 /\ next'[m] = k + 1 /\ last' = last
      BY <1>0, <2>1 DEF MemberOK, TypeOK, Offsets
    <2>3. HandledUpTo(k + 1)'
      <3>1. HandledUpTo(k)' /\ Done(k + 1)'
        BY <1>k, <2>2
      <3> QED BY <3>1, <2>1 DEF HandledUpTo
    <2>4. NotifiedExactlyOnce' /\ CommittedIsHandled'
      BY <1>0, <2>2, <2>3 DEF NotifiedExactlyOnce, CommittedIsHandled
    <2>5. MemberOK(m)'
      <3>1. CASE k + 1 < last[m]
        <4>1. stage'[m] = "handle"
          BY <1>0, <2>2, <3>1 DEF TypeOK
        <4>2. PICK p : p = position[m]
          OBVIOUS
        <4>3. p = last[m] \/ (owner = m => HandledUpTo(p)')
          BY <1>0, <1>k, <4>2 DEF MemberOK
        <4> QED BY <1>0, <2>2, <2>3, <3>1, <4>1, <4>2, <4>3 DEF MemberOK
      <3>2. CASE ~(k + 1 < last[m])
        <4>1. last[m] = k + 1 /\ stage'[m] = "poll"
          BY <1>0, <2>2, <3>2 DEF TypeOK
        <4>2. PICK p : p = position[m]
          OBVIOUS
        <4>3. owner = m => HandledUpTo(p)'
          BY <1>0, <1>k, <2>3, <4>1, <4>2 DEF MemberOK
        <4> QED BY <1>0, <4>1, <4>2, <4>3 DEF MemberOK
      <3> QED BY <3>1, <3>2
    <2>6. \A x \in Member \ {m} : MemberOK(x)'
      BY <1>0, <1>k DEF MemberOK, TypeOK
    <2> QED BY <2>4, <2>5, <2>6
  <1>11. ASSUME NEW m \in Member, HandleFails(m) \/ Crash(m) PROVE Rest'
    <2>1. Exit(m)
      BY <1>11 DEF HandleFails, Crash
    <2> QED BY <1>0, <1>k, <2>1, NoMemberAssumption
            DEF Exit, db, NotifiedExactlyOnce, CommittedIsHandled, MemberOK, TypeOK
  <1>12. ASSUME NEW m \in Member, Restart(m) PROVE Rest'
    BY <1>0, <1>k, <1>12
       DEF Restart, db, group, NotifiedExactlyOnce, CommittedIsHandled, MemberOK, TypeOK
  <1> QED
    BY <1>1, <1>2, <1>3, <1>4, <1>5, <1>6, <1>7, <1>8, <1>9, <1>10, <1>11, <1>12
       DEF Step, ConsumerNext, ConsumerStep, ConsumerFault, Handle, allVars

LEMMA ConsumerInvHolds == Spec => []ConsumerInv
  BY InitConsumerInv, ConsumerInvStep, NextIsStep, PTL DEF Spec

(* Every variable keeps its type. *)
THEOREM TypeCorrect == Spec => []TypeOK
  <1>1. ConsumerInv => TypeOK
    BY DEF ConsumerInv
  <1> QED BY <1>1, ConsumerInvHolds, PTL

(* No event is ever notified twice, nor marked processed without its *)
(* notification.                                                     *)
THEOREM NotificationIsUnique == Spec => []NotifiedExactlyOnce
  <1>1. ConsumerInv => NotifiedExactlyOnce
    BY DEF ConsumerInv
  <1> QED BY <1>1, ConsumerInvHolds, PTL

(* The committed offset never passes a record that was not handled. *)
THEOREM CommitsAreSafe == Spec => []CommittedIsHandled
  <1>1. ConsumerInv => CommittedIsHandled
    BY DEF ConsumerInv
  <1> QED BY <1>1, ConsumerInvHolds, PTL
=============================================================================
