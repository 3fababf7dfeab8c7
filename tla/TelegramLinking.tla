-------------------------- MODULE TelegramLinking ---------------------------
(***************************************************************************)
(* Linking a Telegram chat: the API issues a token, the user sends it to   *)
(* the bot, and the pollers of the notifier processes handle the messages. *)
(*                                                                         *)
(* Telegram keeps updates until a getUpdates with a higher offset confirms *)
(* them.  A poller keeps its offset in memory, advances it before it       *)
(* handles an update and starts from nothing after a crash; so an update   *)
(* may be handled again, and one whose handling failed is not retried.     *)
(* HandleTelegramStart is one transaction: the token's row is locked when  *)
(* it is consumed, and the link appears with the commit.  The instant it   *)
(* compares with the token's expiry is taken to be the one at which it     *)
(* gets that lock.                                                         *)
(***************************************************************************)
EXTENDS Naturals, Sequences

CONSTANTS User, NoUser,
          Chat, NoLink,
          Token,
          Sent,        \* the updates this instance's chats may cause
          Poller,      \* one per notifier process
          Lifetime,    \* telegramLinkTokenTTL
          MaxTime,     \* bound on the clock
          MaxUpdates,  \* bound on the messages sent
          MaxFaults    \* bound on crashes and failed calls

(* /start with an unknown token, any other text, no message at all *)
Other  == {"junk", "chatter", "none"}
Update == [chat : Chat, text : Token \cup Other]

ASSUME UserAssumption  == NoUser \notin User
ASSUME LinkAssumption  == NoLink \notin [chat : Chat, enabled : BOOLEAN]
ASSUME SentAssumption  == Sent \subseteq Update /\ Token \cap Other = {}
ASSUME BoundAssumption == {MaxTime, MaxUpdates, MaxFaults} \subseteq Nat
ASSUME TTLAssumption   == Lifetime \in Nat \ {0}

VARIABLES clock,
          owner, expires, usedBy,  \* telegram_link_tokens; usedBy is the
                                   \* update that consumed the token, or 0
          link,                    \* telegram_links
          updates,                 \* sent to the bot; ids are positions
          confirmed,               \* the last update Telegram has dropped
          offset,                  \* a poller's offset, 0 before the first
          next, last,              \* the updates it has still to handle
          stage,                   \* how far it is with updates[next]
          replies,                 \* history: answers sent to an update
          failed,                  \* history: updates whose handling failed
          faults

tokenRows == <<owner, expires, usedBy>>
telegram  == <<updates, confirmed>>
poller    == <<offset, next, last, stage>>
history   == <<replies, failed, faults>>
vars      == <<clock, tokenRows, link, telegram, poller, history>>

Link == [chat : Chat, enabled : BOOLEAN]

Init ==
    /\ clock = 0
    /\ owner = [t \in Token |-> NoUser]
    /\ expires = [t \in Token |-> 0]
    /\ usedBy = [t \in Token |-> 0]
    /\ link = [u \in User |-> NoLink]
    /\ updates = << >>
    /\ confirmed = 0
    /\ offset = [p \in Poller |-> 0]
    /\ next = [p \in Poller |-> 1]
    /\ last = [p \in Poller |-> 0]
    /\ stage = [p \in Poller |-> "idle"]
    /\ replies = [i \in 1 .. MaxUpdates |-> {}]
    /\ failed = {}
    /\ faults = 0

-----------------------------------------------------------------------------
(* The API: each request ends in one statement. *)

CreateTelegramLinkToken(u, t) ==
    /\ owner[t] = NoUser
    /\ owner' = [owner EXCEPT ![t] = u]
    /\ expires' = [expires EXCEPT ![t] = clock + Lifetime]
    /\ UNCHANGED <<clock, usedBy, link, telegram, poller, history>>

SetTelegramEnabled(u, on) ==
    /\ link[u] # NoLink
    /\ link' = [link EXCEPT ![u].enabled = on]
    /\ UNCHANGED <<clock, tokenRows, telegram, poller, history>>

DeleteTelegramLink(u) ==
    /\ link' = [link EXCEPT ![u] = NoLink]
    /\ UNCHANGED <<clock, tokenRows, telegram, poller, history>>

-----------------------------------------------------------------------------
(* Telegram.  A token is random: nobody sends it before it is issued. *)

Send(update) ==
    /\ Len(updates) < MaxUpdates
    /\ update.text \in Token => owner[update.text] # NoUser
    /\ updates' = Append(updates, update)
    /\ UNCHANGED <<clock, tokenRows, link, confirmed, poller, history>>

Larger(m, n) == IF m > n THEN m ELSE n

(* What a getUpdates of p confirms. *)
Confirmed(p) == Larger(confirmed, offset[p] - 1)

Polls(p) == stage[p] = "idle" /\ next[p] > last[p]

(* An offset of 0 is not sent: every update not confirmed is returned. *)
GetUpdates(p) ==
    /\ Polls(p)
    /\ confirmed' = Confirmed(p)
    /\ next' = [next EXCEPT ![p] = Confirmed(p) + 1]
    /\ last' = [last EXCEPT ![p] = Len(updates)]
    /\ UNCHANGED <<clock, tokenRows, link, updates, offset, stage, history>>

(* The answer is lost; the poller logs it and tries again. *)
GetUpdatesFails(p) ==
    /\ Polls(p)
    /\ confirmed' = Confirmed(p)
    /\ UNCHANGED <<clock, tokenRows, link, updates, poller, history>>

-----------------------------------------------------------------------------
(* The loop over the updates and handleUpdate *)

Message(p) == updates[next[p]]

(* An update is at hand and nothing has been done about it. *)
Takes(p) == stage[p] = "idle" /\ next[p] <= last[p]

Advance(p) == offset' = [offset EXCEPT ![p] = Larger(@, next[p] + 1)]

(* The token's row is locked by a transaction that has consumed it. *)
Consumed(t) == \E p \in Poller : stage[p] = "consumed" /\ Message(p).text = t

(* Mutant of Valid: a used token is as good as a new one. *)
ValidAgain(t) == owner[t] # NoUser /\ expires[t] > clock

(* used_at IS NULL AND expires_at > now *)
Valid(t) == owner[t] # NoUser /\ usedBy[t] = 0 /\ expires[t] > clock

ConsumeByHash(p) ==
    /\ Takes(p)
    /\ Message(p).text \in Token
    /\ Valid(Message(p).text)
    /\ ~Consumed(Message(p).text)
    /\ Advance(p)
    /\ stage' = [stage EXCEPT ![p] = "consumed"]
    /\ UNCHANGED <<clock, tokenRows, link, telegram, next, last, history>>

(* The user's link is replaced, and enabled. *)
Upsert(p) ==
    link' = [link EXCEPT ![owner[Message(p).text]] =
                [chat |-> Message(p).chat, enabled |-> TRUE]]

CommitLink(p) ==
    /\ stage[p] = "consumed"
    /\ usedBy' = [usedBy EXCEPT ![Message(p).text] = next[p]]
    /\ Upsert(p)
    /\ stage' = [stage EXCEPT ![p] = "linked"]
    /\ UNCHANGED <<clock, owner, expires, telegram, offset, next, last, history>>

(* Mutant of Refuses: a token being consumed is refused at once. *)
RefusesLocked(text) ==
    text = "junk" \/ (text \in Token /\ (~Valid(text) \/ Consumed(text)))

(* No row was updated.  A locked row is waited for. *)
Refuses(text) == text = "junk" \/ (text \in Token /\ ~Valid(text) /\ ~Consumed(text))

Refuse(p) ==
    /\ Takes(p)
    /\ Refuses(Message(p).text)
    /\ Advance(p)
    /\ stage' = [stage EXCEPT ![p] = "invalid"]
    /\ UNCHANGED <<clock, tokenRows, link, telegram, next, last, history>>

Explain(p) ==
    /\ Takes(p)
    /\ Message(p).text = "chatter"
    /\ Advance(p)
    /\ stage' = [stage EXCEPT ![p] = "usage"]
    /\ UNCHANGED <<clock, tokenRows, link, telegram, next, last, history>>

(* Mutant of Ignore: the offset is advanced for messages only. *)
IgnoreInPlace(p) ==
    /\ Takes(p)
    /\ Message(p).text = "none"
    /\ next' = [next EXCEPT ![p] = @ + 1]
    /\ UNCHANGED <<clock, tokenRows, link, telegram, offset, last, stage, history>>

(* An update without a message is done at once. *)
Ignore(p) ==
    /\ Takes(p)
    /\ Message(p).text = "none"
    /\ Advance(p)
    /\ next' = [next EXCEPT ![p] = @ + 1]
    /\ UNCHANGED <<clock, tokenRows, link, telegram, last, stage, history>>

Answer(p) == replies' = [replies EXCEPT ![next[p]] = @ \cup {stage[p]}]

Answers(p) == stage[p] \in {"linked", "invalid", "usage"}

Done(p) ==
    /\ next' = [next EXCEPT ![p] = @ + 1]
    /\ stage' = [stage EXCEPT ![p] = "idle"]
    /\ UNCHANGED <<clock, tokenRows, link, telegram, last>>

Reply(p) ==
    /\ Answers(p)
    /\ Answer(p)
    /\ Done(p)
    /\ UNCHANGED <<offset, failed, faults>>

(* A statement or a message fails: the transaction is rolled back, the     *)
(* error logged and the update given up.                                   *)
HandlingFails(p) ==
    /\ faults < MaxFaults
    /\ faults' = faults + 1
    /\ Takes(p) \/ stage[p] # "idle"
    /\ Advance(p)
    /\ failed' = failed \cup {next[p]}
    /\ \/ UNCHANGED replies
       \/ Answers(p) /\ Answer(p)
    /\ Done(p)

(* Mutant of Restart: the offset survives. *)
RestartWithOffset(p) == UNCHANGED offset

Restart(p) == offset' = [offset EXCEPT ![p] = 0]

Crash(p) ==
    /\ faults < MaxFaults
    /\ faults' = faults + 1
    /\ Restart(p)
    /\ next' = [next EXCEPT ![p] = 1]
    /\ last' = [last EXCEPT ![p] = 0]
    /\ stage' = [stage EXCEPT ![p] = "idle"]
    /\ UNCHANGED <<clock, tokenRows, link, telegram, replies, failed>>

Tick ==
    /\ clock < MaxTime
    /\ clock' = clock + 1
    /\ UNCHANGED <<tokenRows, link, telegram, poller, history>>

-----------------------------------------------------------------------------
Handle(p) ==
    \/ ConsumeByHash(p) \/ CommitLink(p) \/ Refuse(p) \/ Explain(p) \/ Ignore(p) \/ Reply(p)

Next ==
    \/ \E u \in User :
          \/ \E t \in Token : CreateTelegramLinkToken(u, t)
          \/ \E on \in BOOLEAN : SetTelegramEnabled(u, on)
          \/ DeleteTelegramLink(u)
    \/ \E update \in Sent : Send(update)
    \/ \E p \in Poller :
          GetUpdates(p) \/ GetUpdatesFails(p) \/ Handle(p) \/ HandlingFails(p) \/ Crash(p)
    \/ Tick

Spec == Init /\ [][Next]_vars

(* Run polls again whatever happened, every call it makes ends, and a      *)
(* crashed notifier is started again.                                      *)
FairSpec == Spec /\ \A p \in Poller : WF_vars(GetUpdates(p)) /\ WF_vars(Handle(p))

-----------------------------------------------------------------------------
(* Properties *)

Stage  == {"idle", "consumed", "linked", "invalid", "usage"}
Number == 0 .. MaxUpdates

TypeOK ==
    /\ clock \in 0 .. MaxTime
    /\ owner \in [Token -> User \cup {NoUser}]
    /\ expires \in [Token -> Nat]
    /\ usedBy \in [Token -> Number]
    /\ link \in [User -> Link \cup {NoLink}]
    /\ updates \in Seq(Sent)
    /\ Len(updates) <= MaxUpdates
    /\ confirmed \in 0 .. Len(updates)
    /\ offset \in [Poller -> 0 .. Len(updates) + 1]
    /\ next \in [Poller -> 1 .. Len(updates) + 1]
    /\ last \in [Poller -> 0 .. Len(updates)]
    /\ stage \in [Poller -> Stage]
    /\ \A p \in Poller : stage[p] # "idle" => next[p] <= last[p]
    /\ replies \in [1 .. MaxUpdates -> SUBSET Stage]
    /\ failed \subseteq 1 .. MaxUpdates
    /\ faults \in 0 .. MaxFaults

(* What a chat is told is so, over crashes, redelivery and several pollers:*)
(* "linked" only to the message that consumed the token and has been       *)
(* committed, "invalid" only for a token that is unknown, expired or used. *)
RepliesAreTrue ==
    \A i \in 1 .. Len(updates) :
        LET t == updates[i].text IN
        /\ "linked" \in replies[i] => t \in Token /\ usedBy[t] = i
        /\ "invalid" \in replies[i] /\ t \in Token => usedBy[t] # 0 \/ expires[t] <= clock

Handled(i) == replies[i] # {} \/ i \in failed \/ updates[i].text = "none"

(* Although the offset runs ahead of the handling, an update that Telegram *)
(* has dropped was answered, unless its handling failed and was logged: a  *)
(* crash alone loses no /start.                                            *)
DroppedIsAnswered == \A i \in 1 .. confirmed : Handled(i)

(* The tokens that may still link a chat: also one that has expired since  *)
(* the open transaction consumed it.                                       *)
Open == {t \in Token : Consumed(t) \/ Valid(t)}

Shown == {<<updates[i].text, updates[i].chat>> :
             i \in {j \in 1 .. Len(updates) : updates[j].text \in Token}}

Book == INSTANCE LinkBook WITH open <- Open, shown <- Shown

(* A token links once, in time, its own user with a chat that sent it,     *)
(* whichever pollers handle the message how often.                         *)
ImplementsLinkBook == Book!Spec

(* Every message is handled or given up, and dropped by Telegram. *)
EveryUpdateIsHandled == \A i \in 1 .. MaxUpdates : Len(updates) >= i ~> confirmed >= i
=============================================================================
