-------------------------- MODULE TelegramDelivery --------------------------
(***************************************************************************)
(* Telegram deliveries of one user's notifications: the delivery rows, the *)
(* delivery runners of the notifier processes, the user's Telegram link    *)
(* and the requests that change it meanwhile.                              *)
(*                                                                         *)
(* ProcessDue is ONE transaction.  It locks a batch of due rows, sends the *)
(* messages one by one and writes each row's outcome; nothing of it shows  *)
(* before Commit and nothing is left of it after a rollback, except for    *)
(* the messages Telegram accepted.  The link is read without a lock, and   *)
(* so is the notification, which fails for good when its read_at is before *)
(* its created_at: then the whole batch is rolled back, at every poll.     *)
(***************************************************************************)
EXTENDS Naturals, FiniteSets

CONSTANTS Delivery,   \* notifications, each with at most one delivery row
          Runner,     \* delivery runners: one per notifier process
          Chat,       \* Telegram chats
          NoChat,     \* no link
          NoDelivery, \* a runner is not sending
          BatchSize,  \* the runner's batchSize
          Retries,    \* len(retryDelays)
          MaxFaults,  \* bound: transactions rolled back by a passing fault
          MaxCopies   \* bound: the histories of copies count no further

ASSUME NoChatAssumption     == NoChat \notin Chat
ASSUME NoDeliveryAssumption == NoDelivery \notin Delivery
ASSUME BatchAssumption      == BatchSize \in Nat \ {0}
ASSUME RetriesAssumption    == Retries \in Nat \ {0}
ASSUME FaultsAssumption     == MaxFaults \in Nat
ASSUME CopiesAssumption     == MaxCopies \in Nat \ {0}

VARIABLES link, enabled,  \* the row of telegram_links
          status,         \* delivery rows; "none" and "inserting" have none yet
          attempts,       \* the committed attempts column
          waiting,        \* pending rows whose next_attempt_at lies ahead
          unreadable,     \* deliveries whose notification cannot be loaded
          batch,          \* rows claimed by a runner and not handled yet
          sending,        \* the delivery whose message a runner is about to send
          chat,           \* the chat of the link it has read last
          outcome,        \* what the open transaction has written of each row
          received,       \* history: messages Telegram accepted per delivery
          forgotten,      \* history: attempts per delivery that were undone
          late,           \* history: messages a runner sent to another chat
                          \* than the usable one, since the link last changed
          unlinked,       \* history: deliveries that met an unusable link
          rollbacks       \* passing faults so far

linkVars == <<link, enabled>>
rows     == <<status, attempts, waiting>>
tx       == <<batch, sending, chat, outcome>>
undone   == <<forgotten, rollbacks>>
vars     == <<linkVars, rows, unreadable, tx, received, late, unlinked, undone>>

Init ==
    /\ link = NoChat
    /\ enabled = FALSE
    /\ status = [d \in Delivery |-> "none"]
    /\ attempts = [d \in Delivery |-> 0]
    /\ waiting = {}
    /\ unreadable = {}
    /\ batch = [r \in Runner |-> {}]
    /\ sending = [r \in Runner |-> NoDelivery]
    /\ chat = [r \in Runner |-> NoChat]
    /\ outcome = [r \in Runner |-> [d \in Delivery |-> "none"]]
    /\ received = [d \in Delivery |-> 0]
    /\ forgotten = [d \in Delivery |-> 0]
    /\ late = [r \in Runner |-> 0]
    /\ unlinked = {}
    /\ rollbacks = 0

Live == {d \in Delivery : status[d] \in {"inserting", "pending"}}

(* The chat messages may be sent to now. *)
Usable == IF enabled THEN link ELSE NoChat

-----------------------------------------------------------------------------
(* Requests about the link.  Each ends in one statement on its row. *)

SetLink(c, on) ==
    /\ link' = c
    /\ enabled' = on
    /\ late' = [r \in Runner |-> 0]
    /\ unlinked' = IF on THEN unlinked ELSE unlinked \cup Live
    /\ UNCHANGED <<rows, unreadable, tx, received, undone>>

(* The upsert of a /start whose token was accepted: a new chat, enabled. *)
UpsertLink(c) == <<link, enabled>> # <<c, TRUE>> /\ SetLink(c, TRUE)

(* SetEnabled finds no row to update when there is no link. *)
SetTelegramEnabled == link # NoChat /\ SetLink(link, ~enabled)

DeleteTelegramLink == link # NoChat /\ SetLink(NoChat, FALSE)

-----------------------------------------------------------------------------
(* createTelegramDeliveryIfLinked, in the transaction that stores the      *)
(* notification: the link is read, and the row appears when that commits.  *)
ReadLinkForDelivery(d) ==
    /\ status[d] = "none"
    /\ Usable # NoChat
    /\ status' = [status EXCEPT ![d] = "inserting"]
    /\ UNCHANGED <<linkVars, attempts, waiting, unreadable, tx, received, late, unlinked, undone>>

CreateDelivery(d) ==
    /\ status[d] = "inserting"
    /\ status' = [status EXCEPT ![d] = "pending"]
    /\ UNCHANGED <<linkVars, attempts, waiting, unreadable, tx, received, late, unlinked, undone>>

(* next_attempt_at is reached. *)
BecomesDue(d) ==
    /\ d \in waiting
    /\ waiting' = waiting \ {d}
    /\ UNCHANGED <<linkVars, status, attempts, unreadable, tx, received, late, unlinked, undone>>

(* NotificationService.MarkAllRead takes its read_at from the clock of the *)
(* API before it updates: a notification stored meanwhile is read before   *)
(* it was created, and RestoreNotification refuses it from then on.  That  *)
(* of a settled delivery is not loaded again.                              *)
MarkAllReadEarly(d) ==
    /\ status[d] = "pending"
    /\ unreadable' = unreadable \cup {d}
    /\ UNCHANGED <<linkVars, rows, tx, received, late, unlinked, undone>>

-----------------------------------------------------------------------------
Written(r) == {d \in Delivery : outcome[r][d] # "none"}

(* Rows locked by SELECT ... FOR UPDATE until r's transaction ends. *)
Locked(r) == batch[r] \cup Written(r)

(* Rows the claiming SELECT sees: pending, due and not locked. *)
Due == {d \in Delivery \ waiting : /\ status[d] = "pending"
                                   /\ \A r \in Runner : d \notin Locked(r)}

(* A batch of due rows, as many as the limit allows.  The times are not    *)
(* modelled, so which rows come first (ORDER BY next_attempt_at) is open.  *)
ClaimDue(r) ==
    /\ Locked(r) = {}
    /\ \E S \in SUBSET Due :
          /\ S # {}
          /\ Cardinality(S) <= BatchSize
          /\ S # Due => Cardinality(S) = BatchSize
          /\ batch' = [batch EXCEPT ![r] = S]
    /\ UNCHANGED <<linkVars, rows, unreadable, sending, chat, outcome, received, late, unlinked,
                   undone>>

(* Writing the outcome of d inside r's transaction ends the handling of d. *)
Write(r, d, result) ==
    /\ outcome' = [outcome EXCEPT ![r][d] = result]
    /\ batch' = [batch EXCEPT ![r] = @ \ {d}]
    /\ sending' = [sending EXCEPT ![r] = NoDelivery]
    /\ UNCHANGED <<linkVars, rows, unreadable, unlinked, undone>>

(* Mutant of FindLink: the link is read once per transaction. *)
FindLinkOnce(r) ==
    /\ sending[r] = NoDelivery
    /\ (Written(r) # {} /\ chat[r] # NoChat) \/ Usable # NoChat
    /\ \E d \in batch[r] \ unreadable : sending' = [sending EXCEPT ![r] = d]
    /\ chat' = [chat EXCEPT ![r] = IF Written(r) # {} /\ @ # NoChat THEN @ ELSE Usable]
    /\ UNCHANGED <<linkVars, rows, unreadable, batch, outcome, received, late, unlinked, undone>>

(* processDelivery up to Send: the notification can be loaded and the link *)
(* is usable now.                                                          *)
FindLink(r) ==
    /\ sending[r] = NoDelivery
    /\ Usable # NoChat
    /\ \E d \in batch[r] \ unreadable : sending' = [sending EXCEPT ![r] = d]
    /\ chat' = [chat EXCEPT ![r] = Usable]
    /\ UNCHANGED <<linkVars, rows, unreadable, batch, outcome, received, late, unlinked, undone>>

(* processDelivery without a usable link: markFailed, no attempt counted. *)
FailUnlinked(r) ==
    /\ sending[r] = NoDelivery
    /\ Usable = NoChat
    /\ \E d \in batch[r] \ unreadable : Write(r, d, "unlinked")
    /\ UNCHANGED <<chat, received, late>>

OneMore(n) == IF n < MaxCopies THEN n + 1 ELSE n

(* Telegram accepts the message r is sending. *)
Receive(r) ==
    /\ received' = [received EXCEPT ![sending[r]] = OneMore(@)]
    /\ late' = IF chat[r] = Usable THEN late ELSE [late EXCEPT ![r] = @ + 1]

SendSucceeds(r) ==
    /\ sending[r] # NoDelivery
    /\ Receive(r)
    /\ Write(r, sending[r], "sent")
    /\ UNCHANGED chat

(* Mutant of AfterFailure: an attempt too few. *)
AfterFailureTooEarly(d) == IF attempts[d] + 1 < Retries THEN "retry" ELSE "exhausted"

(* handleSendFailure: attempts - 1 < len(retryDelays), with the attempt    *)
(* that failed counted.  The row is locked since its claim, so attempts[d] *)
(* is what the claim read.                                                 *)
AfterFailure(d) == IF attempts[d] < Retries THEN "retry" ELSE "exhausted"

(* Send returned an error: the request or its answer was lost, or Telegram *)
(* refused it.                                                             *)
SendFails(r) ==
    /\ sending[r] # NoDelivery
    /\ \/ Receive(r)
       \/ UNCHANGED <<received, late>>
    /\ Write(r, sending[r], AfterFailure(sending[r]))
    /\ UNCHANGED chat

EndTransaction(r) ==
    /\ batch' = [batch EXCEPT ![r] = {}]
    /\ sending' = [sending EXCEPT ![r] = NoDelivery]
    /\ chat' = [chat EXCEPT ![r] = NoChat]
    /\ outcome' = [outcome EXCEPT ![r] = [d \in Delivery |-> "none"]]

(* Mutant of StatusAfter: the row keeps its status when Send fails. *)
StatusUnlessFailed(result) == IF result = "sent" THEN "sent" ELSE "pending"

(* The status MarkSent, ScheduleRetry and MarkFailed write. *)
StatusAfter(result) ==
    CASE result = "sent" -> "sent"
      [] result = "retry" -> "pending"
      [] OTHER -> "failed"

(* Mutant of Counted: a failed attempt is not written. *)
CountedIfSent(result) == result = "sent"

(* Whether the attempts written include this one. *)
Counted(result) == result # "unlinked"

Commit(r) ==
    /\ batch[r] = {}
    /\ Written(r) # {}
    /\ status' = [d \in Delivery |-> IF d \in Written(r) THEN StatusAfter(outcome[r][d])
                                                         ELSE status[d]]
    /\ attempts' = [d \in Delivery |-> IF d \in Written(r) /\ Counted(outcome[r][d])
                                         THEN attempts[d] + 1 ELSE attempts[d]]
    /\ waiting' = waiting \cup {d \in Written(r) : outcome[r][d] = "retry"}
    /\ EndTransaction(r)
    /\ UNCHANGED <<linkVars, unreadable, received, late, unlinked, undone>>

(* The attempts of the open transaction are undone, not the messages. *)
Undo(r) ==
    /\ forgotten' = [d \in Delivery |-> IF d \in Written(r) /\ Counted(outcome[r][d])
                                          THEN OneMore(forgotten[d]) ELSE forgotten[d]]
    /\ EndTransaction(r)
    /\ UNCHANGED <<linkVars, rows, unreadable, received, late, unlinked>>

(* processDelivery cannot load the notification: its error ends the        *)
(* transaction.  Nothing about the row changes, so the next poll finds it  *)
(* again.                                                                  *)
FindNotificationFails(r) ==
    /\ sending[r] = NoDelivery
    /\ batch[r] \cap unreadable # {}
    /\ Undo(r)
    /\ UNCHANGED rollbacks

(* Any other error of a query, a cancelled context, a crash or a failed    *)
(* COMMIT: Run logs it and tries again, or the process is started again.   *)
Rollback(r) ==
    /\ Locked(r) # {}
    /\ rollbacks < MaxFaults
    /\ rollbacks' = rollbacks + 1
    /\ Undo(r)

-----------------------------------------------------------------------------
LinkRequest ==
    \/ \E c \in Chat : UpsertLink(c)
    \/ SetTelegramEnabled
    \/ DeleteTelegramLink

(* An insert that fails leaves no row; then nothing is promised of it. *)
Insert(d) == ReadLinkForDelivery(d) \/ CreateDelivery(d)

Progress(r) ==
    \/ ClaimDue(r)
    \/ FindNotificationFails(r)
    \/ FindLink(r)
    \/ FailUnlinked(r)
    \/ SendSucceeds(r)
    \/ SendFails(r)
    \/ Commit(r)

Next ==
    \/ LinkRequest
    \/ \E d \in Delivery : Insert(d) \/ BecomesDue(d) \/ MarkAllReadEarly(d)
    \/ \E r \in Runner : Progress(r) \/ Rollback(r)

Spec == Init /\ [][Next]_vars

(* Run polls on a ticker whatever ProcessDue returns, every call it makes  *)
(* ends (the HTTP client has a timeout), and time passes.  Whether Send    *)
(* ever succeeds is left open.                                             *)
Fairness ==
    /\ \A r \in Runner : WF_vars(Progress(r))
    /\ \A d \in Delivery : WF_vars(BecomesDue(d))

FairSpec == Spec /\ Fairness

-----------------------------------------------------------------------------
Outcome == {"none", "sent", "retry", "exhausted", "unlinked"}

(* A row is tried at most once more than there are retry delays, and a row *)
(* still pending has an attempt left.                                      *)
TypeOK ==
    /\ link \in Chat \cup {NoChat}
    /\ enabled \in BOOLEAN
    /\ status \in [Delivery -> {"none", "inserting", "pending", "sent", "failed"}]
    /\ attempts \in [Delivery -> 0 .. Retries + 1]
    /\ \A d \in Delivery : status[d] \notin {"sent", "failed"} => attempts[d] <= Retries
    /\ waiting \subseteq Delivery
    /\ unreadable \subseteq Delivery
    /\ batch \in [Runner -> SUBSET Delivery]
    /\ sending \in [Runner -> Delivery \cup {NoDelivery}]
    /\ chat \in [Runner -> Chat \cup {NoChat}]
    /\ outcome \in [Runner -> [Delivery -> Outcome]]
    /\ received \in [Delivery -> 0 .. MaxCopies]
    /\ forgotten \in [Delivery -> 0 .. MaxCopies]
    /\ late \in [Runner -> Nat]
    /\ unlinked \subseteq Delivery
    /\ rollbacks \in 0 .. MaxFaults

(* A row marked SENT has its message in the chat, whatever was rolled back *)
(* or repeated before (processDelivery: Send, then MarkSent).              *)
SentWasReceived == \A d \in Delivery : status[d] = "sent" => received[d] > 0

Attempted(d) == \E r \in Runner : d \in Written(r) /\ Counted(outcome[r][d])

(* Every copy the user gets is an attempt counted in the row, the attempt  *)
(* of a transaction still open, or one forgotten by a rollback: row locks  *)
(* keep runners off each other's rows, and every outcome of Send counts.   *)
(* With TypeOK a user gets at most Retries + 1 copies and one for each time *)
(* a batch was undone after the message was sent.                          *)
CopiesAreAccounted ==
    \A d \in Delivery :
        received[d] <= attempts[d] + forgotten[d] + (IF Attempted(d) THEN 1 ELSE 0)

(* A delivery is given up only after every retry, or because the user      *)
(* unlinked or disabled Telegram while it was pending                      *)
(* (handleSendFailure, markFailed; TestDeliveryRunnerRetryPolicy).         *)
GivenUpForCause ==
    \A d \in Delivery :
        status[d] = "failed" => attempts[d] = Retries + 1 \/ d \in unlinked

(* After the user unlinks, disables or moves Telegram each runner may      *)
(* finish the one message it is sending, and sends nothing more to the old *)
(* chat: the link is read again for every delivery of a batch.             *)
OneLateMessagePerRunner == \A r \in Runner : late[r] <= 1

(* A delivery that was sent or given up is never claimed or written again. *)
SettledIsFinal ==
    [][\A d \in Delivery : status[d] \in {"sent", "failed"} =>
          /\ status'[d] = status[d]
          /\ attempts'[d] = attempts[d]
          /\ \A r \in Runner : d \notin Locked(r)']_vars

Blocked == \E d \in unreadable : status[d] = "pending"

(* A pending delivery is eventually sent or given up, even if Telegram     *)
(* never answers and whatever was rolled back before, unless a pending     *)
(* delivery has a notification that cannot be loaded: that one never is,   *)
(* and every batch it is claimed with goes back with it.                   *)
EventuallySettled ==
    \A d \in Delivery : status[d] = "pending" ~> status[d] \in {"sent", "failed"} \/ Blocked
=============================================================================
