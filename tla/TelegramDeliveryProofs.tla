----------------------- MODULE TelegramDeliveryProofs -----------------------
(***************************************************************************)
(* TelegramDelivery for every set of deliveries, runners and chats, every  *)
(* batch size, list of retry delays and number of faults: its safety       *)
(* properties and that a settled row is final.                             *)
(***************************************************************************)
EXTENDS TelegramDelivery, TLAPS

LockedBy(r, d) == d \in batch[r] \/ outcome[r][d] # "none"

(* What an open transaction knows of a row it has locked: the row is still *)
(* pending, and the outcome written of it is the one its attempts call for.*)
RowsOK ==
    \A r \in Runner, d \in Delivery :
        /\ LockedBy(r, d) => status[d] = "pending"
        /\ d \in batch[r] => outcome[r][d] = "none"
        /\ outcome[r][d] = "sent" => received[d] > 0
        /\ outcome[r][d] = "retry" => attempts[d] < Retries
        /\ outcome[r][d] = "exhausted" => attempts[d] = Retries
        /\ outcome[r][d] = "unlinked" => d \in unlinked

SendingOK == \A r \in Runner : sending[r] # NoDelivery => sending[r] \in batch[r]

(* A runner about to send to a chat that is not the usable one read the    *)
(* link before its last change, and has sent nothing late since.           *)
LateOK ==
    \A r \in Runner :
        /\ late[r] <= 1
        /\ sending[r] # NoDelivery /\ chat[r] # Usable => late[r] = 0

NoSharedRow ==
    \A r, s \in Runner, d \in Delivery : LockedBy(r, d) /\ LockedBy(s, d) => r = s

LiveIsUnlinked == Usable = NoChat => Live \subseteq unlinked

IInv ==
    /\ TypeOK
    /\ RowsOK
    /\ SendingOK
    /\ LateOK
    /\ NoSharedRow
    /\ LiveIsUnlinked
    /\ SentWasReceived
    /\ CopiesAreAccounted
    /\ GivenUpForCause

-----------------------------------------------------------------------------
LEMMA LockedIsLockedBy ==
    ASSUME TypeOK, NEW r \in Runner, NEW d \in Delivery
    PROVE  d \in Locked(r) <=> LockedBy(r, d)
  BY DEF Locked, Written, LockedBy

LEMMA AttemptedFact ==
    ASSUME NEW d \in Delivery
    PROVE  Attempted(d) <=> \E r \in Runner : outcome[r][d] \notin {"none", "unlinked"}
  BY DEF Attempted, Written, Counted

LEMMA OneMoreFact ==
    ASSUME NEW n \in 0 .. MaxCopies
    PROVE  /\ OneMore(n) \in 0 .. MaxCopies
           /\ OneMore(n) > 0
           /\ OneMore(n) \in {n, n + 1}
  BY CopiesAssumption DEF OneMore

LEMMA InitInv == Init => IInv
  <1> SUFFICES ASSUME Init PROVE IInv
    OBVIOUS
  <1> USE DEF Init
  <1>0. 0 <= Retries /\ 0 \in 0 .. Retries + 1 /\ 0 \in 0 .. MaxFaults /\ 0 \in 0 .. MaxCopies
    BY RetriesAssumption, FaultsAssumption, CopiesAssumption
  <1>1. TypeOK
    BY <1>0 DEF TypeOK, Outcome
  <1>2. RowsOK /\ NoSharedRow
    BY DEF RowsOK, NoSharedRow, LockedBy
  <1>3. SendingOK /\ LateOK /\ LiveIsUnlinked
    BY DEF SendingOK, LateOK, LiveIsUnlinked, Live
  <1>4. SentWasReceived /\ CopiesAreAccounted /\ GivenUpForCause
    BY DEF SentWasReceived, CopiesAreAccounted, GivenUpForCause, Attempted
  <1> QED BY <1>1, <1>2, <1>3, <1>4 DEF IInv

-----------------------------------------------------------------------------
(* A change of the link. *)
LEMMA SetLinkStep ==
    ASSUME IInv, NEW c \in Chat \cup {NoChat}, NEW on \in BOOLEAN,
           on => c # NoChat, SetLink(c, on)
    PROVE  IInv'
  <1> USE DEF IInv, SetLink, rows, tx, undone
  <1>0. Live' = Live /\ unlinked \subseteq unlinked'
    BY DEF Live
  <1>1. TypeOK'
    BY <1>0 DEF TypeOK, Live
  <1>2. RowsOK' /\ NoSharedRow'
    BY <1>0 DEF RowsOK, NoSharedRow, LockedBy
  <1>3. SendingOK' /\ LateOK'
    BY DEF SendingOK, LateOK
  <1>4. LiveIsUnlinked'
    BY <1>0 DEF LiveIsUnlinked, Usable
  <1>5. SentWasReceived' /\ GivenUpForCause'
    BY <1>0 DEF SentWasReceived, GivenUpForCause
  <1>6. CopiesAreAccounted'
    BY AttemptedFact DEF CopiesAreAccounted, Attempted, Written, Counted
  <1> QED BY <1>1, <1>2, <1>3, <1>4, <1>5, <1>6

LEMMA LinkRequestStep ==
    ASSUME IInv, LinkRequest
    PROVE  IInv'
  <1>1. ASSUME NEW c \in Chat, UpsertLink(c) PROVE IInv'
    BY <1>1, SetLinkStep, NoChatAssumption DEF UpsertLink
  <1>2. ASSUME SetTelegramEnabled PROVE IInv'
    BY <1>2, SetLinkStep DEF SetTelegramEnabled, IInv, TypeOK
  <1>3. ASSUME DeleteTelegramLink PROVE IInv'
    BY <1>3, SetLinkStep DEF DeleteTelegramLink
  <1> QED BY <1>1, <1>2, <1>3 DEF LinkRequest

(* The row of a delivery appears or becomes due, or its notification cannot *)
(* be loaded any more.                                                     *)
LEMMA RowStep ==
    ASSUME IInv, NEW d \in Delivery, Insert(d) \/ BecomesDue(d) \/ MarkAllReadEarly(d)
    PROVE  IInv'
  <1> USE DEF IInv
  <1>0. /\ UNCHANGED <<linkVars, attempts, tx, received, late, unlinked, undone>>
        /\ status' \in [Delivery -> {"none", "inserting", "pending", "sent", "failed"}]
        /\ waiting' \subseteq Delivery /\ unreadable' \subseteq Delivery
        /\ \A e \in Delivery :
              \/ status'[e] = status[e]
              \/ status[e] = "none" /\ status'[e] = "inserting" /\ Usable # NoChat
              \/ status[e] = "inserting" /\ status'[e] = "pending"
    BY DEF Insert, ReadLinkForDelivery, CreateDelivery, BecomesDue, MarkAllReadEarly, rows, TypeOK
  <1> USE <1>0 DEF linkVars, tx, undone
  <1>1. TypeOK'
    BY DEF TypeOK
  <1>2. RowsOK' /\ NoSharedRow' /\ SendingOK'
    BY DEF RowsOK, NoSharedRow, LockedBy, SendingOK
  <1>3. LateOK' /\ LiveIsUnlinked'
    BY DEF LateOK, Usable, LiveIsUnlinked, Live
  <1>4. SentWasReceived' /\ GivenUpForCause'
    BY DEF SentWasReceived, GivenUpForCause
  <1>5. CopiesAreAccounted'
    BY AttemptedFact DEF CopiesAreAccounted, Attempted, Written
  <1> QED BY <1>1, <1>2, <1>3, <1>4, <1>5

-----------------------------------------------------------------------------
LEMMA ClaimStep ==
    ASSUME IInv, NEW r \in Runner, ClaimDue(r)
    PROVE  IInv'
  <1> USE DEF IInv, ClaimDue, linkVars, rows, undone
  <1>1. PICK S \in SUBSET Due : batch' = [batch EXCEPT ![r] = S]
    OBVIOUS
  <1>2. TypeOK'
    BY <1>1 DEF TypeOK, Due
  <1>3. \A d \in S : status[d] = "pending" /\ \A s \in Runner : ~LockedBy(s, d)
    BY LockedIsLockedBy DEF Due
  <1>4. \A d \in Delivery : ~LockedBy(r, d)
    BY LockedIsLockedBy
  <1>5. \A s \in Runner, d \in Delivery :
           LockedBy(s, d)' <=> LockedBy(s, d) \/ (s = r /\ d \in S)
    BY <1>1, <1>4 DEF LockedBy, TypeOK
  <1>6. RowsOK'
    BY <1>1, <1>3, <1>4, <1>5 DEF RowsOK, LockedBy, TypeOK
  <1>7. NoSharedRow'
    BY <1>3, <1>5 DEF NoSharedRow
  <1>8. SendingOK' /\ LateOK' /\ LiveIsUnlinked'
    BY <1>1, <1>4 DEF SendingOK, LateOK, LiveIsUnlinked, Usable, Live, LockedBy, TypeOK
  <1>9. SentWasReceived' /\ GivenUpForCause' /\ CopiesAreAccounted'
    BY AttemptedFact
       DEF SentWasReceived, GivenUpForCause, CopiesAreAccounted, Attempted, Written
  <1> QED BY <1>2, <1>6, <1>7, <1>8, <1>9

LEMMA FindLinkStep ==
    ASSUME IInv, NEW r \in Runner, FindLink(r)
    PROVE  IInv'
  <1> USE DEF IInv, FindLink, linkVars, rows, undone
  <1>1. PICK d \in batch[r] : sending' = [sending EXCEPT ![r] = d]
    OBVIOUS
  <1>2. TypeOK'
    BY <1>1 DEF TypeOK, Usable
  <1>3. RowsOK' /\ NoSharedRow'
    BY DEF RowsOK, NoSharedRow, LockedBy
  <1>4. SendingOK' /\ LateOK' /\ LiveIsUnlinked'
    BY <1>1 DEF SendingOK, LateOK, LiveIsUnlinked, Usable, Live, TypeOK
  <1>5. SentWasReceived' /\ GivenUpForCause' /\ CopiesAreAccounted'
    BY AttemptedFact
       DEF SentWasReceived, GivenUpForCause, CopiesAreAccounted, Attempted, Written
  <1> QED BY <1>2, <1>3, <1>4, <1>5

(* The three ways to end the handling of a claimed row. *)
LEMMA WriteStep ==
    ASSUME IInv, NEW r \in Runner, NEW d \in batch[r], NEW result \in Outcome \ {"none"},
           Write(r, d, result), chat' = chat,
           \/ UNCHANGED <<received, late>> /\ result # "sent"
           \/ sending[r] = d /\ Receive(r) /\ result # "unlinked",
           result = "retry" => attempts[d] < Retries,
           result = "exhausted" => attempts[d] = Retries,
           result = "unlinked" => Usable = NoChat
    PROVE  IInv'
  <1> USE DEF IInv
  <1>a. /\ link' = link /\ enabled' = enabled /\ Usable' = Usable
        /\ status' = status /\ attempts' = attempts /\ waiting' = waiting
        /\ unreadable' = unreadable /\ unlinked' = unlinked
        /\ forgotten' = forgotten /\ rollbacks' = rollbacks
    BY DEF Write, linkVars, rows, undone, Usable
  <1>b. /\ sending' \in [Runner -> Delivery \cup {NoDelivery}]
        /\ sending'[r] = NoDelivery
        /\ \A s \in Runner : s # r => sending'[s] = sending[s]
    BY DEF Write, TypeOK
  <1>0. /\ d \in Delivery /\ status[d] = "pending" /\ outcome[r][d] = "none"
        /\ outcome' \in [Runner -> [Delivery -> Outcome]]
        /\ \A s \in Runner, e \in Delivery :
              outcome'[s][e] = IF s = r /\ e = d THEN result ELSE outcome[s][e]
        /\ batch' \in [Runner -> SUBSET Delivery]
        /\ \A s \in Runner, e \in Delivery :
              e \in batch'[s] <=> e \in batch[s] /\ ~(s = r /\ e = d)
    BY DEF Write, TypeOK, RowsOK, LockedBy
  <1>1. /\ received' \in [Delivery -> 0 .. MaxCopies]
        /\ \A e \in Delivery :
              \/ received'[e] = received[e]
              \/ e = d /\ received'[e] = received[e] + 1 /\ result # "unlinked"
        /\ result = "sent" => received'[d] > 0
    <2>1. received \in [Delivery -> 0 .. MaxCopies]
      BY DEF TypeOK
    <2>2. CASE received' = received /\ result # "sent"
      BY <2>1, <2>2
    <2>3. CASE received' = [received EXCEPT ![d] = OneMore(received[d])] /\ result # "unlinked"
      <3>1. /\ OneMore(received[d]) \in 0 .. MaxCopies /\ OneMore(received[d]) > 0
            /\ OneMore(received[d]) \in {received[d], received[d] + 1}
        BY <1>0, <2>1, OneMoreFact
      <3> QED BY <1>0, <2>1, <2>3, <3>1
    <2> QED BY <2>2, <2>3 DEF Receive
  <1>2. /\ late' \in [Runner -> Nat]
        /\ \A s \in Runner : late'[s] <= 1
        /\ \A s \in Runner : s # r => late'[s] = late[s]
    <2>1. late[r] <= 1 /\ late[r] \in Nat
      BY DEF LateOK, TypeOK
    <2>2. CASE late' = late
      BY <2>2 DEF TypeOK, LateOK
    <2>3. CASE late' = [late EXCEPT ![r] = late[r] + 1] /\ late[r] = 0
      BY <2>3 DEF TypeOK, LateOK
    <2>4. sending[r] = d => sending[r] # NoDelivery
      BY <1>0, NoDeliveryAssumption
    <2>5. Receive(r) /\ sending[r] = d =>
             late' = late \/ (late' = [late EXCEPT ![r] = late[r] + 1] /\ late[r] = 0)
      BY <2>4 DEF Receive, LateOK
    <2> QED BY <2>2, <2>3, <2>5
  <1>3. TypeOK'
    BY <1>a, <1>b, <1>0, <1>1, <1>2 DEF TypeOK
  <1>4. \A s \in Runner, e \in Delivery : LockedBy(s, e)' <=> LockedBy(s, e)
    BY <1>0 DEF LockedBy, Outcome
  <1>5. NoSharedRow'
    BY <1>4 DEF NoSharedRow
  <1>6. result = "unlinked" => d \in unlinked
    BY <1>0 DEF LiveIsUnlinked, Live
  <1>7. RowsOK'
    <2> SUFFICES ASSUME NEW s \in Runner, NEW e \in Delivery
                 PROVE  /\ LockedBy(s, e)' => status[e] = "pending"
                        /\ e \in batch'[s] => outcome'[s][e] = "none"
                        /\ outcome'[s][e] = "sent" => received'[e] > 0
                        /\ outcome'[s][e] = "retry" => attempts[e] < Retries
                        /\ outcome'[s][e] = "exhausted" => attempts[e] = Retries
                        /\ outcome'[s][e] = "unlinked" => e \in unlinked
      BY <1>a DEF RowsOK, LockedBy
    <2>1. CASE s = r /\ e = d
      BY <2>1, <1>0, <1>1, <1>4, <1>6 DEF RowsOK
    <2>2. CASE ~(s = r /\ e = d)
      <3>1. received'[e] >= received[e]
        BY <1>1 DEF TypeOK
      <3> QED BY <3>1, <2>2, <1>0, <1>1, <1>4 DEF RowsOK, TypeOK
    <2> QED BY <2>1, <2>2
  <1>8. SendingOK'
    BY <1>b, <1>0 DEF SendingOK
  <1>9. LateOK'
    <2> SUFFICES ASSUME NEW s \in Runner, sending'[s] # NoDelivery, chat'[s] # Usable'
                 PROVE  late'[s] = 0
      BY <1>2 DEF LateOK
    <2>1. s # r /\ sending[s] # NoDelivery /\ chat[s] # Usable
      BY <1>a, <1>b
    <2>2. late[s] = 0 /\ late'[s] = late[s]
      BY <2>1, <1>2 DEF LateOK
    <2> QED BY <2>2
  <1>10. LiveIsUnlinked'
    BY <1>a DEF LiveIsUnlinked, Live
  <1>11. SentWasReceived' /\ GivenUpForCause'
    BY <1>a, <1>1 DEF SentWasReceived, GivenUpForCause, TypeOK
  <1>12. CopiesAreAccounted'
    <2> SUFFICES ASSUME NEW e \in Delivery
                 PROVE  received'[e] <= attempts[e] + forgotten[e] + (IF Attempted(e)' THEN 1 ELSE 0)
      BY <1>a DEF CopiesAreAccounted
    <2>1. Attempted(e) => Attempted(e)'
      BY <1>0 DEF Attempted, Written, Counted
    <2>2. CASE received'[e] = received[e]
      BY <2>1, <2>2 DEF CopiesAreAccounted, TypeOK
    <2>3. CASE e = d /\ received'[e] = received[e] + 1 /\ result # "unlinked"
      <3>1. ~Attempted(e)
        BY <2>3, <1>0 DEF Attempted, Written, NoSharedRow, LockedBy
      <3>2. Attempted(e)'
        BY <2>3, <1>0 DEF Attempted, Written, Counted
      <3> QED BY <2>3, <3>1, <3>2 DEF CopiesAreAccounted, TypeOK
    <2> QED BY <1>1, <2>2, <2>3
  <1> QED BY <1>3, <1>5, <1>7, <1>8, <1>9, <1>10, <1>11, <1>12

LEMMA FailUnlinkedStep ==
    ASSUME IInv, NEW r \in Runner, FailUnlinked(r)
    PROVE  IInv'
  <1>1. PICK d \in batch[r] : Write(r, d, "unlinked")
    BY DEF FailUnlinked
  <1>2. "unlinked" \in Outcome \ {"none"}
    BY DEF Outcome
  <1>3. chat' = chat /\ UNCHANGED <<received, late>> /\ Usable = NoChat
    BY DEF FailUnlinked
  <1> QED BY <1>1, <1>2, <1>3, WriteStep

LEMMA SendStep ==
    ASSUME IInv, NEW r \in Runner, SendSucceeds(r) \/ SendFails(r)
    PROVE  IInv'
  <1>1. sending[r] \in batch[r] /\ sending[r] \in Delivery
    BY DEF SendSucceeds, SendFails, IInv, SendingOK, TypeOK
  <1>2. chat' = chat
    BY DEF SendSucceeds, SendFails
  <1>3. CASE SendSucceeds(r)
    <2>1. "sent" \in Outcome \ {"none"}
      BY DEF Outcome
    <2>2. Write(r, sending[r], "sent") /\ Receive(r)
      BY <1>3 DEF SendSucceeds
    <2> QED BY <1>1, <1>2, <2>1, <2>2, WriteStep
  <1>4. CASE SendFails(r)
    <2> DEFINE result == AfterFailure(sending[r])
    <2>1. /\ result \in {"retry", "exhausted"}
          /\ result = "retry" => attempts[sending[r]] < Retries
          /\ result = "exhausted" => ~(attempts[sending[r]] < Retries)
      BY DEF AfterFailure
    <2>2. attempts[sending[r]] \in Nat /\ attempts[sending[r]] <= Retries
      BY <1>1, RetriesAssumption DEF IInv, TypeOK, RowsOK, LockedBy
    <2>3. result = "exhausted" => attempts[sending[r]] = Retries
      BY <2>1, <2>2, RetriesAssumption
    <2>4. result \in Outcome \ {"none"} /\ result \notin {"sent", "unlinked"}
      BY <2>1 DEF Outcome
    <2>5. Write(r, sending[r], result) /\ (Receive(r) \/ UNCHANGED <<received, late>>)
      BY <1>4 DEF SendFails
    <2> HIDE DEF result
    <2> QED BY <1>1, <1>2, <2>1, <2>3, <2>4, <2>5, WriteStep
  <1> QED BY <1>3, <1>4

-----------------------------------------------------------------------------
(* The end of a transaction, with the rows as r leaves them. *)
LEMMA EndFacts ==
    ASSUME TypeOK, NEW r \in Runner, EndTransaction(r)
    PROVE  /\ batch' \in [Runner -> SUBSET Delivery]
           /\ sending' \in [Runner -> Delivery \cup {NoDelivery}]
           /\ chat' \in [Runner -> Chat \cup {NoChat}]
           /\ outcome' \in [Runner -> [Delivery -> Outcome]]
           /\ \A d \in Delivery : ~LockedBy(r, d)'
           /\ sending'[r] = NoDelivery
           /\ \A s \in Runner \ {r} :
                 /\ batch'[s] = batch[s] /\ sending'[s] = sending[s]
                 /\ chat'[s] = chat[s] /\ outcome'[s] = outcome[s]
  <1>1. [d \in Delivery |-> "none"] \in [Delivery -> Outcome]
    BY DEF Outcome
  <1> QED BY <1>1 DEF TypeOK, EndTransaction, LockedBy

(* A rollback, whatever its cause: for each attempt it undoes it forgets   *)
(* one.                                                                    *)
LEMMA UndoStep ==
    ASSUME IInv, NEW r \in Runner, Undo(r), rollbacks' \in 0 .. MaxFaults
    PROVE  IInv'
  <1> USE DEF IInv, linkVars, rows
  <1>0. UNCHANGED <<linkVars, rows, unreadable, received, late, unlinked>> /\ EndTransaction(r)
    BY DEF Undo
  <1>1. /\ forgotten' \in [Delivery -> 0 .. MaxCopies]
        /\ \A d \in Delivery :
              forgotten'[d] = IF d \in Written(r) /\ Counted(outcome[r][d])
                              THEN OneMore(forgotten[d]) ELSE forgotten[d]
    BY OneMoreFact DEF Undo, TypeOK
  <1>2. TypeOK'
    BY <1>0, <1>1, EndFacts DEF TypeOK
  <1>3. RowsOK'
    <2>1. \A s \in Runner, d \in Delivery :
             /\ LockedBy(s, d)' => s # r
             /\ s # r => batch'[s] = batch[s] /\ outcome'[s] = outcome[s]
             /\ s = r => outcome'[s][d] = "none" /\ d \notin batch'[s]
      BY <1>0, EndFacts DEF LockedBy
    <2>2. status' = status /\ attempts' = attempts /\ received' = received /\ unlinked' = unlinked
      BY <1>0
    <2> QED BY <2>1, <2>2 DEF RowsOK, LockedBy
  <1>4. NoSharedRow' /\ SendingOK' /\ LateOK' /\ LiveIsUnlinked'
    <2>1. NoSharedRow'
      BY <1>0, EndFacts DEF NoSharedRow, LockedBy
    <2>2. SendingOK' /\ LateOK'
      BY <1>0, EndFacts DEF SendingOK, LateOK, Usable
    <2>3. LiveIsUnlinked'
      BY <1>0 DEF LiveIsUnlinked, Live, Usable
    <2> QED BY <2>1, <2>2, <2>3
  <1>5. SentWasReceived' /\ GivenUpForCause'
    BY <1>0 DEF SentWasReceived, GivenUpForCause
  <1>6. CopiesAreAccounted'
    <2> SUFFICES ASSUME NEW d \in Delivery
                 PROVE  received[d] <= attempts[d] + forgotten'[d] + (IF Attempted(d)' THEN 1 ELSE 0)
      BY <1>0 DEF CopiesAreAccounted
    <2>0. /\ received[d] \in 0 .. MaxCopies /\ attempts[d] \in Nat /\ forgotten[d] \in 0 .. MaxCopies
          /\ forgotten'[d] \in 0 .. MaxCopies
          /\ received[d] <= attempts[d] + forgotten[d] + (IF Attempted(d) THEN 1 ELSE 0)
      BY <1>1 DEF CopiesAreAccounted, TypeOK
    <2>1. CASE d \in Written(r) /\ Counted(outcome[r][d])
      <3>1. forgotten'[d] = OneMore(forgotten[d])
        BY <1>1, <2>1
      <3>2. forgotten'[d] = forgotten[d] + 1 \/ forgotten'[d] >= MaxCopies
        BY <2>0, <3>1, CopiesAssumption DEF OneMore
      <3> QED BY <2>0, <3>2, CopiesAssumption
    <2>2. CASE ~(d \in Written(r) /\ Counted(outcome[r][d]))
      <3>1. forgotten'[d] = forgotten[d]
        BY <1>1, <2>2
      <3>2. Attempted(d) => Attempted(d)'
        BY <1>0, <2>2, EndFacts DEF Attempted, Written, Counted
      <3> QED BY <2>0, <3>1, <3>2
    <2> QED BY <2>1, <2>2
  <1> QED BY <1>2, <1>3, <1>4, <1>5, <1>6

LEMMA RollbackStep ==
    ASSUME IInv, NEW r \in Runner, FindNotificationFails(r) \/ Rollback(r)
    PROVE  IInv'
  <1>1. Undo(r) /\ rollbacks' \in 0 .. MaxFaults
    BY FaultsAssumption DEF FindNotificationFails, Rollback, IInv, TypeOK
  <1> QED BY <1>1, UndoStep

LEMMA CommitStep ==
    ASSUME IInv, NEW r \in Runner, Commit(r)
    PROVE  IInv'
  <1> USE DEF IInv
  <1>0. /\ UNCHANGED <<linkVars, unreadable, received, late, unlinked, undone>> /\ EndTransaction(r)
        /\ batch[r] = {}
        /\ \A d \in Delivery : d \in Written(r) <=> outcome[r][d] # "none"
    BY DEF Commit, Written
  <1>a. link' = link /\ enabled' = enabled /\ Usable' = Usable
        /\ received' = received /\ late' = late /\ unlinked' = unlinked
        /\ unreadable' = unreadable /\ forgotten' = forgotten /\ rollbacks' = rollbacks
    BY <1>0 DEF linkVars, undone, Usable
  <1>1. /\ status' \in [Delivery -> {"none", "inserting", "pending", "sent", "failed"}]
        /\ \A d \in Delivery :
              /\ outcome[r][d] = "none" => status'[d] = status[d]
              /\ outcome[r][d] = "sent" => status'[d] = "sent"
              /\ outcome[r][d] = "retry" => status'[d] = "pending"
              /\ outcome[r][d] \in {"exhausted", "unlinked"} => status'[d] = "failed"
    BY <1>0 DEF Commit, StatusAfter, TypeOK, Outcome
  <1>2. \A d \in Delivery :
           attempts'[d] = IF outcome[r][d] \in {"none", "unlinked"} THEN attempts[d]
                                                                   ELSE attempts[d] + 1
    BY <1>0 DEF Commit, Counted
  <1>3. \A d \in Delivery : outcome[r][d] \in Outcome /\ attempts[d] \in 0 .. Retries + 1
    BY DEF TypeOK
  <1>4. \A d \in Delivery : outcome[r][d] # "none" => status[d] = "pending" /\ attempts[d] <= Retries
    BY DEF RowsOK, LockedBy, TypeOK
  <1>5. /\ attempts' \in [Delivery -> 0 .. Retries + 1]
        /\ \A d \in Delivery : status'[d] \notin {"sent", "failed"} => attempts'[d] <= Retries
    <2>1. attempts' = [d \in Delivery |-> attempts'[d]]
      BY DEF Commit
    <2>2. \A d \in Delivery : attempts'[d] \in 0 .. Retries + 1
      BY <1>2, <1>3, <1>4, RetriesAssumption
    <2>3. ASSUME NEW d \in Delivery, status'[d] \notin {"sent", "failed"}
          PROVE  attempts'[d] <= Retries
      <3>1. CASE outcome[r][d] = "none"
        BY <2>3, <3>1, <1>1, <1>2 DEF TypeOK
      <3>2. CASE outcome[r][d] = "retry"
        BY <3>2, <1>2, <1>3, RetriesAssumption DEF RowsOK
      <3> QED BY <2>3, <3>1, <3>2, <1>1, <1>3 DEF Outcome
    <2> QED BY <2>1, <2>2, <2>3
  <1>6. waiting' \subseteq Delivery
    BY DEF Commit, Written, TypeOK
  <1>7. TypeOK'
    BY <1>0, <1>a, <1>1, <1>5, <1>6, EndFacts DEF TypeOK
  <1>8. RowsOK'
    <2> SUFFICES ASSUME NEW s \in Runner \ {r}, NEW d \in Delivery
                 PROVE  /\ LockedBy(s, d) => status'[d] = "pending"
                        /\ d \in batch[s] => outcome[s][d] = "none"
                        /\ outcome[s][d] = "sent" => received[d] > 0
                        /\ outcome[s][d] = "retry" => attempts'[d] < Retries
                        /\ outcome[s][d] = "exhausted" => attempts'[d] = Retries
                        /\ outcome[s][d] = "unlinked" => d \in unlinked
      BY <1>0, <1>a, EndFacts DEF RowsOK, LockedBy
    <2>1. LockedBy(s, d) => outcome[r][d] = "none"
      BY DEF NoSharedRow, LockedBy
    <2>2. LockedBy(s, d) => status'[d] = status[d] /\ attempts'[d] = attempts[d]
      BY <2>1, <1>1, <1>2
    <2> QED BY <2>2 DEF RowsOK, LockedBy
  <1>9. NoSharedRow'
    BY <1>0, EndFacts DEF NoSharedRow, LockedBy
  <1>10. SendingOK' /\ LateOK'
    BY <1>0, <1>a, EndFacts DEF SendingOK, LateOK
  <1>11. LiveIsUnlinked'
    <2>1. Live' \subseteq Live
      BY <1>1, <1>3, <1>4 DEF Live, Outcome
    <2> QED BY <2>1, <1>a DEF LiveIsUnlinked
  <1>12. SentWasReceived'
    BY <1>a, <1>1, <1>3 DEF SentWasReceived, RowsOK, Outcome
  <1>13. GivenUpForCause'
    <2> SUFFICES ASSUME NEW d \in Delivery, status'[d] = "failed"
                 PROVE  attempts'[d] = Retries + 1 \/ d \in unlinked
      BY <1>a DEF GivenUpForCause
    <2>1. CASE outcome[r][d] = "none"
      BY <2>1, <1>1, <1>2 DEF GivenUpForCause
    <2>2. CASE outcome[r][d] = "exhausted"
      BY <2>2, <1>2 DEF RowsOK
    <2>3. CASE outcome[r][d] = "unlinked"
      BY <2>3 DEF RowsOK
    <2> QED BY <2>1, <2>2, <2>3, <1>1, <1>3 DEF Outcome
  <1>14. CopiesAreAccounted'
    <2> SUFFICES ASSUME NEW d \in Delivery
                 PROVE  received[d] <= attempts'[d] + forgotten[d] + (IF Attempted(d)' THEN 1 ELSE 0)
      BY <1>a DEF CopiesAreAccounted
    <2>0. received[d] \in Nat /\ forgotten[d] \in Nat /\ attempts[d] \in Nat
      BY DEF TypeOK
    <2>1. CASE outcome[r][d] \notin {"none", "unlinked"}
      BY <2>0, <2>1, <1>2 DEF CopiesAreAccounted
    <2>2. CASE outcome[r][d] \in {"none", "unlinked"}
      <3>1. Attempted(d) => Attempted(d)'
        BY <2>2, <1>0, EndFacts DEF Attempted, Written, Counted
      <3> QED BY <2>0, <2>2, <3>1, <1>2 DEF CopiesAreAccounted
    <2> QED BY <2>1, <2>2
  <1> QED BY <1>7, <1>8, <1>9, <1>10, <1>11, <1>12, <1>13, <1>14

LEMMA StutterStep ==
    ASSUME IInv, UNCHANGED vars
    PROVE  IInv'
  <1> USE DEF IInv, vars, linkVars, rows, tx, undone
  <1>1. TypeOK'
    BY DEF TypeOK
  <1>2. RowsOK' /\ NoSharedRow' /\ SendingOK'
    BY DEF RowsOK, NoSharedRow, LockedBy, SendingOK
  <1>3. LateOK' /\ LiveIsUnlinked'
    BY DEF LateOK, Usable, LiveIsUnlinked, Live
  <1>4. SentWasReceived' /\ GivenUpForCause'
    BY DEF SentWasReceived, GivenUpForCause
  <1>5. CopiesAreAccounted'
    BY AttemptedFact DEF CopiesAreAccounted, Attempted, Written
  <1> QED BY <1>1, <1>2, <1>3, <1>4, <1>5

LEMMA InvStep ==
    ASSUME IInv, [Next]_vars
    PROVE  IInv'
  <1>1. CASE LinkRequest
    BY <1>1, LinkRequestStep
  <1>2. ASSUME NEW d \in Delivery, Insert(d) \/ BecomesDue(d) \/ MarkAllReadEarly(d) PROVE IInv'
    BY <1>2, RowStep
  <1>3. ASSUME NEW r \in Runner, Progress(r) PROVE IInv'
    BY <1>3, ClaimStep, FindLinkStep, FailUnlinkedStep, SendStep, CommitStep, RollbackStep
       DEF Progress
  <1>4. ASSUME NEW r \in Runner, Rollback(r) PROVE IInv'
    BY <1>4, RollbackStep
  <1>5. CASE UNCHANGED vars
    BY <1>5, StutterStep
  <1> QED BY <1>1, <1>2, <1>3, <1>4, <1>5 DEF Next

THEOREM Invariance == Spec => []IInv
  BY InitInv, InvStep, PTL DEF Spec

-----------------------------------------------------------------------------
(* Every variable keeps its type, a row is tried Retries + 1 times at most *)
(* and a row not yet settled has an attempt left.                          *)
THEOREM TypeCorrect == Spec => []TypeOK
  <1>1. IInv => TypeOK
    BY DEF IInv
  <1> QED BY <1>1, Invariance, PTL

(* A row marked SENT has its message in the chat. *)
THEOREM SentIsReceived == Spec => []SentWasReceived
  <1>1. IInv => SentWasReceived
    BY DEF IInv
  <1> QED BY <1>1, Invariance, PTL

(* Copies of a message are bounded by the attempts that count and those    *)
(* that were undone.                                                       *)
THEOREM CopiesAreBounded == Spec => []CopiesAreAccounted
  <1>1. IInv => CopiesAreAccounted
    BY DEF IInv
  <1> QED BY <1>1, Invariance, PTL

(* No delivery is given up early unless the user's link was unusable. *)
THEOREM GivingUpIsJustified == Spec => []GivenUpForCause
  <1>1. IInv => GivenUpForCause
    BY DEF IInv
  <1> QED BY <1>1, Invariance, PTL

(* A runner sends at most one message against a change of the link. *)
THEOREM LateMessagesAreBounded == Spec => []OneLateMessagePerRunner
  <1>1. IInv => OneLateMessagePerRunner
    BY DEF IInv, LateOK, OneLateMessagePerRunner
  <1> QED BY <1>1, Invariance, PTL

-----------------------------------------------------------------------------
(* Only the transaction that has locked a pending row settles it. *)
LEMMA SettledStep ==
    ASSUME IInv, IInv', [Next]_vars, NEW d \in Delivery, status[d] \in {"sent", "failed"}
    PROVE  /\ status'[d] = status[d]
           /\ attempts'[d] = attempts[d]
           /\ \A r \in Runner : d \notin Locked(r)'
  <1>1. status'[d] = status[d] /\ attempts'[d] = attempts[d]
    <2>1. CASE UNCHANGED <<status, attempts>>
      BY <2>1
    <2>2. ASSUME NEW e \in Delivery, Insert(e)
          PROVE  status'[d] = status[d] /\ attempts'[d] = attempts[d]
      BY <2>2 DEF Insert, ReadLinkForDelivery, CreateDelivery, IInv, TypeOK
    <2>3. ASSUME NEW r \in Runner, Commit(r)
          PROVE  status'[d] = status[d] /\ attempts'[d] = attempts[d]
      <3>1. d \notin Written(r)
        BY DEF IInv, RowsOK, LockedBy, Written
      <3> QED BY <2>3, <3>1 DEF Commit
    <2> QED
      BY <2>1, <2>2, <2>3
         DEF Next, LinkRequest, UpsertLink, SetTelegramEnabled, DeleteTelegramLink, SetLink,
             BecomesDue, MarkAllReadEarly, Progress, ClaimDue, FindLink, FailUnlinked, SendSucceeds, SendFails,
             Write, FindNotificationFails, Rollback, Undo, vars, rows
  <1>2. ASSUME NEW r \in Runner PROVE ~LockedBy(r, d)'
    BY <1>1 DEF IInv, RowsOK
  <1>3. ASSUME NEW r \in Runner PROVE d \notin Locked(r)'
    BY <1>2 DEF Locked, Written, LockedBy
  <1> QED BY <1>1, <1>3

(* A delivery that was sent or given up is never touched again. *)
THEOREM SettledStaysSettled == Spec => SettledIsFinal
  <1> DEFINE Kept == \A d \in Delivery : status[d] \in {"sent", "failed"} =>
                        /\ status'[d] = status[d]
                        /\ attempts'[d] = attempts[d]
                        /\ \A r \in Runner : d \notin Locked(r)'
  <1>1. IInv /\ IInv' /\ [Next]_vars => [Kept]_vars
    BY SettledStep
  <1>2. Spec => [][Kept]_vars
    BY <1>1, Invariance, PTL DEF Spec
  <1> QED BY <1>2 DEF SettledIsFinal
=============================================================================
