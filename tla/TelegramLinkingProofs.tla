----------------------- MODULE TelegramLinkingProofs ------------------------
(***************************************************************************)
(* TelegramLinking for every set of users, chats, tokens and pollers, and  *)
(* every number of messages and faults: it implements LinkBook.            *)
(***************************************************************************)
EXTENDS TelegramLinking, TLAPS

(* What a poller has behind it, and what it knows of the update at hand. *)
PollerOK(p) ==
    /\ offset[p] <= next[p] + (IF stage[p] = "idle" THEN 0 ELSE 1)
    /\ \A i \in 1 .. next[p] - 1 : Handled(i)
    /\ stage[p] = "consumed" => /\ Message(p).text \in Token
                                /\ owner[Message(p).text] # NoUser
                                /\ usedBy[Message(p).text] = 0
    /\ stage[p] = "linked" => /\ Message(p).text \in Token
                              /\ usedBy[Message(p).text] = next[p]
    /\ stage[p] = "invalid" /\ Message(p).text \in Token =>
          \/ usedBy[Message(p).text] # 0
          \/ expires[Message(p).text] <= clock

(* The lock on a token's row. *)
OneConsumer ==
    \A p, q \in Poller :
        stage[p] = "consumed" /\ stage[q] = "consumed" /\ Message(p).text = Message(q).text
            => p = q

(* Tokens are issued before they are sent and used, answers given later. *)
SentIsIssued ==
    /\ \A i \in 1 .. Len(updates) :
          updates[i].text \in Token => owner[updates[i].text] # NoUser
    /\ \A i \in 1 .. MaxUpdates : replies[i] # {} => i <= Len(updates)
    /\ \A t \in Token : usedBy[t] # 0 => owner[t] # NoUser

IInv ==
    /\ TypeOK
    /\ \A p \in Poller : PollerOK(p)
    /\ OneConsumer
    /\ SentIsIssued
    /\ RepliesAreTrue
    /\ DroppedIsAnswered

-----------------------------------------------------------------------------
LEMMA Bounds == MaxTime \in Nat /\ MaxUpdates \in Nat /\ MaxFaults \in Nat
  BY BoundAssumption

LEMMA AppendFacts ==
    ASSUME NEW S, NEW s \in Seq(S), NEW e \in S
    PROVE  /\ Append(s, e) \in Seq(S)
           /\ Len(Append(s, e)) = Len(s) + 1
           /\ \A i \in 1 .. Len(s) : Append(s, e)[i] = s[i]
           /\ Append(s, e)[Len(s) + 1] = e
  OBVIOUS

(* The types, with the message a poller is about. *)
LEMMA Facts ==
    ASSUME TypeOK
    PROVE  /\ Len(updates) \in Nat
           /\ clock \in Nat /\ confirmed \in Nat
           /\ \A i \in 1 .. Len(updates) : updates[i] \in Update
           /\ \A p \in Poller : next[p] \in Nat /\ last[p] \in Nat /\ offset[p] \in Nat
           /\ \A p \in Poller : Takes(p) \/ stage[p] # "idle"
                => /\ next[p] \in 1 .. Len(updates) /\ next[p] \in 1 .. MaxUpdates
                   /\ Message(p) \in Update
  BY SentAssumption, Bounds DEF TypeOK, Takes, Message

LEMMA InitInv == Init => IInv
  <1> SUFFICES ASSUME Init PROVE IInv
    OBVIOUS
  <1>1. updates \in Seq(Sent) /\ Len(updates) = 0
    BY DEF Init
  <1>2. TypeOK
    BY <1>1, Bounds DEF Init, TypeOK, Number, Stage
  <1>3. \A p \in Poller : PollerOK(p)
    BY DEF Init, PollerOK
  <1>4. OneConsumer /\ SentIsIssued /\ RepliesAreTrue /\ DroppedIsAnswered
    BY <1>1 DEF Init, OneConsumer, SentIsIssued, RepliesAreTrue, DroppedIsAnswered
  <1> QED BY <1>2, <1>3, <1>4 DEF IInv

(* Requests write rows that no poller relies on. *)
LEMMA RequestStep ==
    ASSUME IInv, NEW u \in User,
           \/ \E t \in Token : CreateTelegramLinkToken(u, t)
           \/ \E on \in BOOLEAN : SetTelegramEnabled(u, on)
           \/ DeleteTelegramLink(u)
    PROVE  IInv'
  <1> USE DEF IInv, telegram, poller, history, tokenRows
  <1>1. ASSUME NEW t \in Token, CreateTelegramLinkToken(u, t) PROVE IInv'
    <2> USE <1>1, Facts DEF CreateTelegramLinkToken
    <2>1. TypeOK'
      <3>1. clock + Lifetime \in Nat
        BY Bounds, TTLAssumption DEF TypeOK
      <3>2. owner' \in [Token -> User \cup {NoUser}] /\ expires' \in [Token -> Nat]
        BY <3>1 DEF TypeOK
      <3> QED BY <3>2 DEF TypeOK
    <2>2. \A s \in Token : owner[s] # NoUser => owner'[s] = owner[s] /\ expires'[s] = expires[s]
      BY DEF TypeOK
    <2>3. ASSUME NEW p \in Poller PROVE PollerOK(p)'
      <3>1. stage[p] # "idle" /\ Message(p).text \in Token => owner[Message(p).text] # NoUser
        BY DEF SentIsIssued, Message
      <3>2. PollerOK(p) /\ Message(p)' = Message(p)
        BY DEF Message
      <3> QED BY <2>2, <3>1, <3>2 DEF PollerOK, Handled
    <2>4. OneConsumer' /\ DroppedIsAnswered'
      BY DEF OneConsumer, DroppedIsAnswered, Handled, Message
    <2>5. SentIsIssued' /\ RepliesAreTrue'
      BY <2>2 DEF SentIsIssued, RepliesAreTrue
    <2> QED BY <2>1, <2>3, <2>4, <2>5
  <1>2. ASSUME NEW on \in BOOLEAN, SetTelegramEnabled(u, on) PROVE IInv'
    <2>1. TypeOK'
      <3>1. link' \in [User -> Link \cup {NoLink}]
        BY <1>2 DEF SetTelegramEnabled, TypeOK, Link
      <3> QED BY <1>2, <3>1 DEF SetTelegramEnabled, TypeOK
    <2> QED BY <1>2, <2>1
            DEF SetTelegramEnabled, PollerOK, OneConsumer, SentIsIssued, RepliesAreTrue,
                DroppedIsAnswered, Handled, Message
  <1>3. CASE DeleteTelegramLink(u)
    <2>1. TypeOK'
      BY <1>3 DEF DeleteTelegramLink, TypeOK
    <2> QED BY <1>3, <2>1
            DEF DeleteTelegramLink, PollerOK, OneConsumer, SentIsIssued, RepliesAreTrue,
                DroppedIsAnswered, Handled, Message
  <1> QED BY <1>1, <1>2, <1>3

LEMMA SendStep ==
    ASSUME IInv, NEW update \in Sent, Send(update)
    PROVE  IInv'
  <1> USE DEF IInv, Send, poller, history, tokenRows
  <1>0. /\ updates \in Seq(Sent) /\ Len(updates) \in Nat /\ Len(updates) < MaxUpdates
        /\ MaxUpdates \in Nat
        /\ \A p \in Poller : next[p] \in 1 .. Len(updates) + 1 /\ offset[p] \in Nat
    BY Facts, Bounds DEF TypeOK
  <1>1. /\ updates' \in Seq(Sent) /\ Len(updates') = Len(updates) + 1
        /\ \A i \in 1 .. Len(updates) : updates'[i] = updates[i]
        /\ updates'[Len(updates) + 1] = update
    BY <1>0, AppendFacts
  <1>2. TypeOK'
    BY <1>0, <1>1 DEF TypeOK
  <1>3. \A i \in 1 .. Len(updates) : Handled(i) => Handled(i)'
    BY <1>1 DEF Handled
  <1>4. \A p \in Poller : stage[p] # "idle" => Message(p)' = Message(p)
    BY <1>1, Facts DEF Message
  <1>5. ASSUME NEW p \in Poller PROVE PollerOK(p)'
    <2>1. \A i \in 1 .. next[p] - 1 : i \in 1 .. Len(updates)
      BY <1>0
    <2>2. PollerOK(p)
      OBVIOUS
    <2> QED BY <1>3, <1>4, <2>1, <2>2 DEF PollerOK
  <1>6. OneConsumer'
    BY <1>4 DEF OneConsumer
  <1>7. \A i \in 1 .. Len(updates) + 1 : i \in 1 .. Len(updates) \/ i = Len(updates) + 1
    BY <1>0
  <1>8. SentIsIssued'
    BY <1>0, <1>1, <1>7 DEF SentIsIssued
  <1>9. RepliesAreTrue'
    <2>1. Len(updates) + 1 \in 1 .. MaxUpdates /\ ~(Len(updates) + 1 <= Len(updates))
      BY <1>0
    <2>2. replies'[Len(updates) + 1] = {}
      BY <2>1 DEF SentIsIssued
    <2> QED BY <1>1, <1>7, <2>2 DEF RepliesAreTrue
  <1>10. DroppedIsAnswered'
    BY <1>0, <1>3 DEF DroppedIsAnswered, TypeOK
  <1> QED BY <1>2, <1>5, <1>6, <1>8, <1>9, <1>10

-----------------------------------------------------------------------------
(* A step of a poller leaves the others, the messages and the issued       *)
(* tokens alone; what it has to show is about itself.                      *)
LEMMA PollerStep ==
    ASSUME IInv, NEW p \in Poller,
           UNCHANGED <<clock, owner, expires, updates>>,
           TypeOK',
           \A q \in Poller \ {p} : /\ offset'[q] = offset[q] /\ next'[q] = next[q]
                                    /\ last'[q] = last[q] /\ stage'[q] = stage[q],
           \A t \in Token : usedBy[t] # 0 => usedBy'[t] = usedBy[t],
           \A t \in Token : usedBy'[t] # 0 => owner[t] # NoUser,
           \A q \in Poller \ {p} : stage[q] = "consumed"
              => usedBy'[Message(q).text] = usedBy[Message(q).text],
           \A i \in 1 .. Len(updates) : Handled(i) => Handled(i)',
           \A i \in 1 .. MaxUpdates : replies'[i] # {} => i <= Len(updates),
           PollerOK(p)',
           stage'[p] = "consumed" => ~Consumed(Message(p)'.text),
           RepliesAreTrue', DroppedIsAnswered'
    PROVE  IInv'
  <1> USE DEF IInv
  <1>1. ASSUME NEW q \in Poller \ {p} PROVE PollerOK(q)'
    <2>1. Message(q)' = Message(q)
      BY DEF Message
    <2>2. \A i \in 1 .. next[q] - 1 : i \in 1 .. Len(updates)
      <3>1. next[q] \in 1 .. Len(updates) + 1 /\ Len(updates) \in Nat
        BY Facts DEF TypeOK
      <3> QED BY <3>1
    <2>3. PollerOK(q)
      OBVIOUS
    <2>4. /\ offset'[q] = offset[q] /\ next'[q] = next[q] /\ stage'[q] = stage[q]
          /\ next[q] # 0
      BY DEF TypeOK
    <2>5. \A i \in 1 .. next[q] - 1 : Handled(i)'
      BY <2>2, <2>3 DEF PollerOK
    <2>6. stage[q] = "linked" => usedBy'[Message(q).text] = next[q]
      BY <2>3, <2>4 DEF PollerOK
    <2>7. stage[q] = "consumed" => usedBy'[Message(q).text] = 0
      BY <2>3 DEF PollerOK
    <2>8. stage[q] = "invalid" /\ Message(q).text \in Token =>
             usedBy'[Message(q).text] # 0 \/ expires[Message(q).text] <= clock
      BY <2>3 DEF PollerOK
    <2> QED BY <2>1, <2>3, <2>4, <2>5, <2>6, <2>7, <2>8 DEF PollerOK
  <1>2. OneConsumer'
    <2>1. \A q \in Poller \ {p} : Message(q)' = Message(q)
      BY DEF Message
    <2> QED BY <2>1 DEF OneConsumer, Consumed
  <1>3. SentIsIssued'
    BY DEF SentIsIssued
  <1> QED BY <1>1, <1>2, <1>3

(* The offset is advanced past the update at hand. *)
LEMMA AdvanceFacts ==
    ASSUME IInv, NEW p \in Poller, Advance(p), Takes(p) \/ stage[p] # "idle"
    PROVE  /\ offset' \in [Poller -> 0 .. Len(updates) + 1]
           /\ offset'[p] <= next[p] + 1
           /\ \A q \in Poller \ {p} : offset'[q] = offset[q]
  <1> DEFINE new == Larger(offset[p], next[p] + 1)
  <1>1. /\ offset \in [Poller -> 0 .. Len(updates) + 1] /\ Len(updates) \in Nat
        /\ next[p] \in 1 .. Len(updates) /\ offset[p] \in 0 .. Len(updates) + 1
        /\ offset[p] <= next[p] + 1
    BY Facts DEF IInv, TypeOK, PollerOK
  <1>2. new \in 0 .. Len(updates) + 1 /\ new <= next[p] + 1
    BY <1>1 DEF Larger
  <1>3. offset' = [offset EXCEPT ![p] = new]
    BY DEF Advance
  <1> HIDE DEF new
  <1> QED BY <1>1, <1>2, <1>3

LEMMA GetUpdatesStep ==
    ASSUME IInv, NEW p \in Poller, GetUpdates(p) \/ GetUpdatesFails(p)
    PROVE  IInv'
  <1> USE DEF IInv
  <1>0. /\ Len(updates) \in Nat /\ confirmed \in 0 .. Len(updates)
        /\ offset[p] \in 0 .. Len(updates) + 1 /\ next[p] \in 1 .. Len(updates) + 1
    BY Facts DEF TypeOK
  <1>1. /\ stage[p] = "idle" /\ offset[p] <= next[p]
        /\ confirmed' = Confirmed(p)
        /\ UNCHANGED <<clock, tokenRows, link, updates, offset, stage, history>>
    <2>1. stage[p] = "idle" /\ offset[p] <= next[p] + 0
      BY DEF GetUpdates, GetUpdatesFails, Polls, PollerOK
    <2>2. offset[p] <= next[p]
      BY <1>0, <2>1
    <2> QED BY <2>1, <2>2 DEF GetUpdates, GetUpdatesFails, poller
  <1>2. /\ Confirmed(p) \in 0 .. Len(updates)
        /\ offset[p] <= Confirmed(p) + 1
        /\ Confirmed(p) = confirmed \/ Confirmed(p) = offset[p] - 1
    BY <1>0 DEF Confirmed, Larger
  <1>3. \A i \in 1 .. Confirmed(p) : Handled(i)
    <2>1. CASE Confirmed(p) = confirmed
      BY <2>1 DEF DroppedIsAnswered
    <2>2. CASE Confirmed(p) = offset[p] - 1
      <3>1. \A i \in 1 .. Confirmed(p) : i \in 1 .. next[p] - 1
        BY <1>0, <1>1, <2>2
      <3> QED BY <3>1 DEF PollerOK
    <2> QED BY <1>2, <2>1, <2>2
  <1>4. DroppedIsAnswered' /\ RepliesAreTrue'
    BY <1>1, <1>3 DEF DroppedIsAnswered, Handled, RepliesAreTrue, tokenRows, history
  <1>5. /\ next' \in [Poller -> 1 .. Len(updates) + 1]
        /\ last' \in [Poller -> 0 .. Len(updates)]
        /\ \A q \in Poller \ {p} : next'[q] = next[q] /\ last'[q] = last[q]
        /\ next'[p] = next[p] \/ next'[p] = Confirmed(p) + 1
    <2>1. CASE GetUpdates(p)
      <3>1. Confirmed(p) + 1 \in 1 .. Len(updates) + 1 /\ Len(updates) \in 0 .. Len(updates)
        BY <1>0, <1>2
      <3> QED BY <2>1, <3>1 DEF GetUpdates, TypeOK
    <2>2. CASE GetUpdatesFails(p)
      BY <2>2 DEF GetUpdatesFails, TypeOK, poller
    <2> QED BY <2>1, <2>2
  <1>6. TypeOK'
    BY <1>1, <1>2, <1>5 DEF TypeOK, tokenRows, history
  <1>7. PollerOK(p)'
    <2>1. offset[p] <= next'[p]
      BY <1>0, <1>1, <1>2, <1>5
    <2>2. \A i \in 1 .. next'[p] - 1 : Handled(i)
      <3>1. CASE next'[p] = next[p]
        BY <3>1 DEF PollerOK
      <3>2. CASE next'[p] = Confirmed(p) + 1
        BY <1>0, <1>2, <1>3, <3>2
      <3> QED BY <1>5, <3>1, <3>2
    <2>3. \A i \in 1 .. next'[p] - 1 : Handled(i)'
      BY <1>1, <2>2 DEF Handled, history
    <2>4. offset'[p] <= next'[p] + 0
      BY <1>0, <1>1, <1>2, <1>5
    <2> QED BY <1>1, <2>3, <2>4 DEF PollerOK
  <1>8. SentIsIssued
    OBVIOUS
  <1>9. \A i \in 1 .. Len(updates) : Handled(i) => Handled(i)'
    BY <1>1 DEF Handled, history
  <1> QED BY <1>1, <1>4, <1>5, <1>6, <1>7, <1>8, <1>9, PollerStep
          DEF tokenRows, history, SentIsIssued

(* handleUpdate up to the commit or the reply. *)
LEMMA StageStep ==
    ASSUME IInv, NEW p \in Poller, NEW s \in Stage \ {"idle"},
           Takes(p), Advance(p),
           stage' = [stage EXCEPT ![p] = s],
           UNCHANGED <<clock, tokenRows, link, telegram, next, last, history>>,
           s = "consumed" => /\ Message(p).text \in Token
                             /\ Valid(Message(p).text) /\ ~Consumed(Message(p).text),
           s = "invalid" /\ Message(p).text \in Token => ~Valid(Message(p).text),
           s # "linked"
    PROVE  IInv'
  <1> USE DEF IInv, tokenRows, telegram, history
  <1>0. /\ offset' \in [Poller -> 0 .. Len(updates) + 1]
        /\ offset'[p] <= next[p] + 1
        /\ \A q \in Poller \ {p} : offset'[q] = offset[q]
        /\ next[p] \in 1 .. Len(updates) /\ Len(updates) \in Nat
    BY AdvanceFacts, Facts
  <1>1. stage' \in [Poller -> Stage] /\ stage'[p] = s
    BY DEF TypeOK
  <1>2. TypeOK'
    BY <1>0, <1>1 DEF TypeOK, Takes
  <1>3. Message(p)' = Message(p)
    BY DEF Message
  <1>4. PollerOK(p)'
    <2>1. Message(p).text \in Token => owner[Message(p).text] # NoUser
      BY <1>0 DEF SentIsIssued, Message
    <2>2. Message(p).text \in Token => expires[Message(p).text] \in Nat
      BY DEF TypeOK
    <2>3. \A i \in 1 .. next[p] - 1 : Handled(i)
      BY DEF PollerOK
    <2>4. \A i \in 1 .. next[p] - 1 : Handled(i)'
      BY <2>3 DEF Handled
    <2>5. s = "invalid" /\ Message(p).text \in Token =>
             usedBy[Message(p).text] # 0 \/ expires[Message(p).text] <= clock
      <3>1. clock \in Nat
        BY DEF TypeOK
      <3> QED BY <2>1, <2>2, <3>1 DEF Valid
    <2>6. offset'[p] <= next[p] + 1
      BY <1>0
    <2> QED BY <1>1, <1>3, <2>1, <2>4, <2>5, <2>6 DEF PollerOK, Valid
  <1>5. RepliesAreTrue' /\ DroppedIsAnswered'
    BY DEF RepliesAreTrue, DroppedIsAnswered, Handled
  <1>6. \A i \in 1 .. Len(updates) : Handled(i) => Handled(i)'
    BY DEF Handled
  <1>7. \A q \in Poller \ {p} : stage'[q] = stage[q]
    BY DEF TypeOK
  <1> QED BY <1>0, <1>1, <1>2, <1>3, <1>4, <1>5, <1>6, <1>7, PollerStep DEF SentIsIssued

LEMMA CommitStep ==
    ASSUME IInv, NEW p \in Poller, CommitLink(p)
    PROVE  IInv'
  <1> USE Facts DEF IInv, CommitLink, telegram, history
  <1> DEFINE t == Message(p).text
  <1>1. t \in Token /\ owner[t] # NoUser /\ usedBy[t] = 0
    BY DEF PollerOK
  <1>2. /\ usedBy' \in [Token -> Number] /\ usedBy'[t] = next[p]
        /\ \A u \in Token \ {t} : usedBy'[u] = usedBy[u]
        /\ stage' \in [Poller -> Stage] /\ stage'[p] = "linked"
        /\ \A q \in Poller \ {p} : stage'[q] = stage[q]
    <2>1. next[p] \in Number
      BY Facts, Bounds DEF Number
    <2> QED BY <1>1, <2>1 DEF TypeOK, Stage
  <1>3. link' \in [User -> Link \cup {NoLink}]
    <2>1. [chat |-> Message(p).chat, enabled |-> TRUE] \in Link
      BY DEF Link, Update
    <2> QED BY <2>1 DEF Upsert, TypeOK
  <1>4. TypeOK'
    BY <1>2, <1>3 DEF TypeOK
  <1>5. Message(p)' = Message(p)
    BY DEF Message
  <1>6. PollerOK(p)'
    <2>1. \A i \in 1 .. next[p] - 1 : Handled(i)
      BY DEF PollerOK
    <2>2. offset[p] <= next[p] + 1
      BY DEF PollerOK
    <2> QED BY <1>1, <1>2, <1>5, <2>1, <2>2 DEF PollerOK, Handled
  <1>7. RepliesAreTrue'
    BY <1>1, <1>2 DEF RepliesAreTrue, TypeOK
  <1>8. DroppedIsAnswered' /\ \A i \in 1 .. Len(updates) : Handled(i) => Handled(i)'
    BY DEF DroppedIsAnswered, Handled
  <1>9. \A q \in Poller \ {p} : stage[q] = "consumed" =>
           /\ Message(q).text \in Token \ {t}
           /\ usedBy'[Message(q).text] = usedBy[Message(q).text]
    BY <1>2 DEF OneConsumer, PollerOK
  <1>10. /\ \A u \in Token : usedBy[u] # 0 => usedBy'[u] = usedBy[u]
         /\ \A u \in Token : usedBy'[u] # 0 => owner[u] # NoUser
    BY <1>1, <1>2 DEF SentIsIssued
  <1> QED BY <1>2, <1>4, <1>6, <1>7, <1>8, <1>9, <1>10, PollerStep DEF SentIsIssued

(* The update at hand is done with. *)
LEMMA DoneStep ==
    ASSUME IInv, NEW p \in Poller, Takes(p) \/ stage[p] # "idle",
           UNCHANGED <<clock, tokenRows, link, telegram, last>>,
           next' = [next EXCEPT ![p] = @ + 1],
           stage' = [stage EXCEPT ![p] = "idle"],
           offset' \in [Poller -> 0 .. Len(updates) + 1], offset'[p] <= next[p] + 1,
           \A q \in Poller \ {p} : offset'[q] = offset[q],
           \/ UNCHANGED replies
           \/ stage[p] \in {"linked", "invalid", "usage"} /\ Answer(p),
           failed \subseteq failed', failed' \subseteq failed \cup {next[p]},
           faults' \in 0 .. MaxFaults,
           NEW i \in Nat, i = next[p], Handled(i)'
    PROVE  IInv'
  <1> USE DEF IInv, tokenRows, telegram
  <1>0. /\ Len(updates) \in Nat
        /\ i \in 1 .. Len(updates) /\ i \in 1 .. MaxUpdates
        /\ \A q \in Poller : next[q] \in Nat
    BY Facts
  <1>1. /\ next'[p] = next[p] + 1 /\ stage'[p] = "idle"
        /\ \A q \in Poller \ {p} : next'[q] = next[q] /\ stage'[q] = stage[q]
    BY DEF TypeOK
  <1>2. /\ replies' \in [1 .. MaxUpdates -> SUBSET Stage]
        /\ \A j \in 1 .. MaxUpdates : j # i => replies'[j] = replies[j]
        /\ \/ replies'[i] = replies[i]
           \/ /\ stage[p] \in {"linked", "invalid", "usage"}
              /\ replies'[i] = replies[i] \cup {stage[p]}
    <2>1. CASE UNCHANGED replies
      BY <2>1 DEF TypeOK
    <2>2. CASE stage[p] \in {"linked", "invalid", "usage"} /\ Answer(p)
      <3>1. replies' = [replies EXCEPT ![i] = replies[i] \cup {stage[p]}]
        BY <2>2 DEF Answer
      <3>2. replies[i] \cup {stage[p]} \in SUBSET Stage
        BY <1>0 DEF TypeOK
      <3> QED BY <1>0, <2>2, <3>1, <3>2 DEF TypeOK
    <2> QED BY <2>1, <2>2
  <1>3. TypeOK'
    <2>1. next' \in [Poller -> 1 .. Len(updates) + 1]
      <3>1. next[p] + 1 \in 1 .. Len(updates) + 1
        BY <1>0
      <3> QED BY <3>1 DEF TypeOK
    <2>2. stage' \in [Poller -> Stage]
      BY DEF TypeOK, Stage
    <2>3. failed' \subseteq 1 .. MaxUpdates
      BY <1>0 DEF TypeOK
    <2>4. \A q \in Poller : stage'[q] # "idle" => next'[q] <= last'[q]
      BY <1>1 DEF TypeOK
    <2> QED BY <1>2, <2>1, <2>2, <2>3, <2>4 DEF TypeOK
  <1>4. \A j \in 1 .. Len(updates) : Handled(j) => Handled(j)'
    <2>1. \A j \in 1 .. Len(updates) : j \in 1 .. MaxUpdates
      BY <1>0, Bounds DEF TypeOK
    <2> QED BY <1>2, <2>1 DEF Handled
  <1>5. PollerOK(p)'
    <2>1. \A j \in 1 .. next[p] : Handled(j)'
      <3>1. \A j \in 1 .. next[p] : j \in 1 .. Len(updates) /\ (j \in 1 .. next[p] - 1 \/ j = i)
        BY <1>0
      <3>2. \A j \in 1 .. next[p] - 1 : Handled(j)
        BY DEF PollerOK
      <3> QED BY <1>4, <3>1, <3>2
    <2>2. next'[p] - 1 = next[p]
      BY <1>0, <1>1
    <2> QED BY <1>1, <2>1, <2>2 DEF PollerOK
  <1>6. RepliesAreTrue'
    <2>1. \A j \in 1 .. Len(updates) : j \in 1 .. MaxUpdates
      BY <1>0, Bounds DEF TypeOK
    <2>2. PollerOK(p) /\ Message(p) = updates[i]
      BY DEF Message
    <2>3. RepliesAreTrue /\ UNCHANGED <<usedBy, expires, clock, updates>>
      OBVIOUS
    <2>4. ASSUME NEW j \in 1 .. Len(updates), j # i
          PROVE  /\ "linked" \in replies'[j] => "linked" \in replies[j]
                 /\ "invalid" \in replies'[j] => "invalid" \in replies[j]
      BY <1>2, <2>1, <2>4
    <2>5. /\ "linked" \in replies'[i] => "linked" \in replies[i] \/ stage[p] = "linked"
          /\ "invalid" \in replies'[i] => "invalid" \in replies[i] \/ stage[p] = "invalid"
      BY <1>2
    <2> QED BY <2>2, <2>3, <2>4, <2>5 DEF RepliesAreTrue, PollerOK
  <1>7. DroppedIsAnswered'
    <2>1. \A j \in 1 .. confirmed : j \in 1 .. Len(updates)
      BY <1>0 DEF TypeOK
    <2> QED BY <1>4, <2>1 DEF DroppedIsAnswered
  <1>8. ASSUME NEW j \in 1 .. MaxUpdates, replies'[j] # {} PROVE j <= Len(updates)
    <2>1. CASE j = i
      BY <1>0, <2>1
    <2>2. CASE j # i
      BY <1>2, <1>8, <2>2 DEF SentIsIssued
    <2> QED BY <2>1, <2>2
  <1> QED BY <1>1, <1>3, <1>4, <1>5, <1>6, <1>7, <1>8, PollerStep DEF SentIsIssued

LEMMA HandleStep ==
    ASSUME IInv, NEW p \in Poller, Handle(p) \/ HandlingFails(p) \/ Crash(p)
    PROVE  IInv'
  <1>0. PICK i \in Nat : i = next[p]
    BY Facts DEF IInv
  <1>1. CASE ConsumeByHash(p)
    BY <1>1, StageStep DEF ConsumeByHash, Stage
  <1>2. CASE CommitLink(p)
    BY <1>2, CommitStep
  <1>3. CASE Refuse(p)
    <2>1. Message(p).text \in Token => ~Valid(Message(p).text)
      BY <1>3, SentAssumption DEF Refuse, Refuses, Other
    <2> QED BY <1>3, <2>1, StageStep DEF Refuse, Stage
  <1>4. CASE Explain(p)
    BY <1>4, StageStep DEF Explain, Stage
  <1>5. CASE Ignore(p)
    <2>1. stage' = [stage EXCEPT ![p] = "idle"]
      BY <1>5 DEF Ignore, Takes, IInv, TypeOK
    <2>2. Handled(i)'
      BY <1>0, <1>5 DEF Ignore, Handled, Message, telegram
    <2>3. faults' \in 0 .. MaxFaults /\ failed' = failed /\ UNCHANGED replies
      BY <1>5 DEF Ignore, history, IInv, TypeOK
    <2> QED BY <1>5, <2>1, <2>2, <2>3, AdvanceFacts, DoneStep, <1>0 DEF Ignore
  <1>6. CASE Reply(p)
    <2>1. Handled(i)'
      <3>1. i \in 1 .. MaxUpdates
        BY <1>0, <1>6, Facts DEF Reply, Answers, IInv
      <3>2. replies'[i] = replies[i] \cup {stage[p]}
        BY <1>0, <1>6, <3>1 DEF Reply, Answer, IInv, TypeOK
      <3> QED BY <3>2 DEF Handled
    <2>2. /\ offset' \in [Poller -> 0 .. Len(updates) + 1] /\ offset'[p] <= next[p] + 1
          /\ faults' \in 0 .. MaxFaults /\ failed' = failed
      BY <1>6 DEF Reply, Answers, IInv, TypeOK, PollerOK
    <2> QED BY <1>6, <2>1, <2>2, DoneStep, <1>0 DEF Reply, Done, Answers
  <1>7. CASE HandlingFails(p)
    <2>1. Handled(i)'
      BY <1>0, <1>7 DEF HandlingFails, Handled
    <2>2. faults' \in 0 .. MaxFaults
      BY <1>7, Bounds DEF HandlingFails, IInv, TypeOK
    <2> QED BY <1>7, <2>1, <2>2, AdvanceFacts, DoneStep, <1>0 DEF HandlingFails, Done, Answers
  <1>8. CASE Crash(p)
    <2> USE <1>8 DEF Crash, Restart, IInv, tokenRows, telegram
    <2>1. /\ next'[p] = 1 /\ offset'[p] = 0 /\ stage'[p] = "idle"
          /\ \A q \in Poller \ {p} : /\ offset'[q] = offset[q] /\ next'[q] = next[q]
                                      /\ last'[q] = last[q] /\ stage'[q] = stage[q]
      BY DEF TypeOK
    <2>2. TypeOK'
      <3>1. faults' \in 0 .. MaxFaults
        BY Bounds DEF TypeOK
      <3>2. /\ offset' \in [Poller -> 0 .. Len(updates) + 1]
            /\ next' \in [Poller -> 1 .. Len(updates) + 1]
            /\ last' \in [Poller -> 0 .. Len(updates)]
            /\ stage' \in [Poller -> Stage]
        BY DEF TypeOK, Stage
      <3> QED BY <2>1, <3>1, <3>2 DEF TypeOK
    <2>3. PollerOK(p)'
      BY <2>1 DEF PollerOK
    <2>4. RepliesAreTrue' /\ DroppedIsAnswered'
      BY DEF RepliesAreTrue, DroppedIsAnswered, Handled
    <2>5. \A j \in 1 .. Len(updates) : Handled(j) => Handled(j)'
      BY DEF Handled
    <2> QED BY <2>1, <2>2, <2>3, <2>4, <2>5, PollerStep DEF SentIsIssued
  <1> QED BY <1>1, <1>2, <1>3, <1>4, <1>5, <1>6, <1>7, <1>8 DEF Handle

LEMMA NextInv == IInv /\ [Next]_vars => IInv'
  <1> SUFFICES ASSUME IInv, [Next]_vars PROVE IInv'
    OBVIOUS
  <1>1. CASE Tick
    <2> USE <1>1, Facts DEF Tick, IInv, tokenRows, telegram, poller, history
    <2>1. TypeOK'
      <3>1. clock + 1 \in 0 .. MaxTime
        BY Bounds DEF TypeOK
      <3> QED BY <3>1 DEF TypeOK
    <2>2. \A p \in Poller : PollerOK(p)'
      <3> SUFFICES ASSUME NEW p \in Poller PROVE PollerOK(p)'
        OBVIOUS
      <3>1. Message(p).text \in Token => expires[Message(p).text] \in Nat
        BY DEF TypeOK
      <3>2. PollerOK(p) /\ Message(p)' = Message(p)
        BY DEF Message
      <3> QED BY <3>1, <3>2 DEF PollerOK, Handled
    <2>3. RepliesAreTrue'
      BY DEF RepliesAreTrue, TypeOK
    <2> QED BY <2>1, <2>2, <2>3
            DEF OneConsumer, SentIsIssued, DroppedIsAnswered, Handled, Message
  <1>2. CASE UNCHANGED vars
    BY <1>2 DEF vars, tokenRows, telegram, poller, history, IInv, TypeOK, PollerOK,
                OneConsumer, SentIsIssued, RepliesAreTrue, DroppedIsAnswered, Handled, Message
  <1> QED BY <1>1, <1>2, RequestStep, SendStep, GetUpdatesStep, HandleStep DEF Next

(* The invariant holds in every reachable state. *)
THEOREM Invariance == Spec => []IInv
  BY InitInv, NextInv, PTL DEF Spec

-----------------------------------------------------------------------------
(* Every variable keeps its type. *)
THEOREM TypeCorrect == Spec => []TypeOK
  BY Invariance, PTL DEF IInv

(* What handleUpdate (poller.go) tells a chat about its /start is so. *)
THEOREM RepliesStayTrue == Spec => []RepliesAreTrue
  BY Invariance, PTL DEF IInv

(* Poller.Run confirms no update that it has not answered, failed on or    *)
(* had nothing to do for.                                                  *)
THEOREM NoStartIsLost == Spec => []DroppedIsAnswered
  BY Invariance, PTL DEF IInv

-----------------------------------------------------------------------------
(* Tokens may cease to be open at any time. *)
LEMMA Lapsing ==
    ASSUME UNCHANGED <<owner, link>>, Shown' = Shown, Open' \subseteq Open
    PROVE  Book!Next
  <1>1. Open \ Open' \in SUBSET Token /\ Open' = Open \ (Open \ Open')
    BY DEF Open
  <1>2. Book!Lapse(Open \ Open')
    BY <1>1 DEF Book!Lapse
  <1> QED BY <1>1, <1>2 DEF Book!Next

(* A step of pollers that stores nothing: only valid tokens are consumed. *)
LEMMA Polling ==
    ASSUME UNCHANGED <<clock, tokenRows, link, updates>>,
           \A q \in Poller : stage'[q] = "consumed" =>
              \/ stage[q] = "consumed" /\ next'[q] = next[q]
              \/ Valid(Message(q)'.text)
    PROVE  Book!Next
  <1>1. Shown' = Shown
    BY DEF Shown
  <1>2. \A t \in Token : Valid(t)' = Valid(t)
    BY DEF Valid, tokenRows
  <1>3. ASSUME NEW t \in Token, Consumed(t)' PROVE Consumed(t) \/ Valid(t)
    <2>1. PICK q \in Poller : stage'[q] = "consumed" /\ Message(q)'.text = t
      BY <1>3 DEF Consumed
    <2>2. CASE stage[q] = "consumed" /\ next'[q] = next[q]
      BY <2>1, <2>2 DEF Consumed, Message
    <2>3. CASE Valid(Message(q)'.text)
      BY <2>1, <2>3
    <2> QED BY <2>1, <2>2, <2>3
  <1>4. Open' \subseteq Open
    BY <1>2, <1>3 DEF Open
  <1> QED BY <1>1, <1>4, Lapsing DEF tokenRows

LEMMA RequestImplements ==
    ASSUME IInv, NEW u \in User,
           \/ \E t \in Token : CreateTelegramLinkToken(u, t)
           \/ \E on \in BOOLEAN : SetTelegramEnabled(u, on)
           \/ DeleteTelegramLink(u)
    PROVE  Book!Next
  <1> USE DEF telegram, poller, tokenRows
  <1>1. ASSUME NEW t \in Token, CreateTelegramLinkToken(u, t) PROVE Book!Next
    <2> USE <1>1 DEF CreateTelegramLinkToken
    <2>1. Shown' = Shown /\ \A s \in Token : Consumed(s)' = Consumed(s)
      BY DEF Shown, Consumed, Message
    <2>2. \A s \in Token \ {t} : Valid(s)' = Valid(s)
      BY DEF Valid, IInv, TypeOK
    <2>3. Valid(t)'
      <3>1. usedBy[t] = 0
        BY DEF IInv, SentIsIssued
      <3>2. owner'[t] = u /\ expires'[t] = clock + Lifetime
        BY DEF IInv, TypeOK
      <3>3. clock \in Nat /\ clock + Lifetime > clock
        BY TTLAssumption, Bounds DEF IInv, TypeOK
      <3> QED BY <3>1, <3>2, <3>3, UserAssumption DEF Valid
    <2>4. Open' = Open \cup {t}
      BY <2>1, <2>2, <2>3 DEF Open
    <2>5. Book!Issue(t, u)
      BY <2>1, <2>4 DEF Book!Issue
    <2> QED BY <2>5 DEF Book!Next
  <1>2. ASSUME NEW on \in BOOLEAN, SetTelegramEnabled(u, on) PROVE Book!Next
    <2>1. Book!Enable(u, on)
      BY <1>2 DEF SetTelegramEnabled, Book!Enable, Shown, Open, Consumed, Valid, Message
    <2> QED BY <2>1 DEF Book!Next
  <1>3. CASE DeleteTelegramLink(u)
    <2>1. Book!Unlink(u)
      BY <1>3 DEF DeleteTelegramLink, Book!Unlink, Shown, Open, Consumed, Valid, Message
    <2> QED BY <2>1 DEF Book!Next
  <1> QED BY <1>1, <1>2, <1>3

LEMMA SendImplements ==
    ASSUME IInv, NEW update \in Sent, Send(update)
    PROVE  [Book!Next]_<<owner, Open, Shown, link>>
  <1> USE DEF Send, poller, tokenRows
  <1>1. updates \in Seq(Sent) /\ Len(updates) \in Nat /\ update \in Update
    BY SentAssumption, Facts DEF IInv, TypeOK
  <1>2. /\ Len(updates') = Len(updates) + 1
        /\ \A i \in 1 .. Len(updates) : updates'[i] = updates[i]
        /\ updates'[Len(updates) + 1] = update
    BY <1>1, AppendFacts
  <1>3. \A p \in Poller : stage[p] = "consumed" => Message(p)' = Message(p)
    BY <1>2, Facts DEF Message, IInv
  <1>4. Open' = Open
    <2>1. \A t \in Token : Consumed(t)' = Consumed(t) /\ Valid(t)' = Valid(t)
      BY <1>3 DEF Consumed, Valid
    <2> QED BY <2>1 DEF Open
  <1>5. \A i : i \in 1 .. Len(updates') <=> i \in 1 .. Len(updates) \/ i = Len(updates) + 1
    BY <1>1, <1>2
  <1>6. CASE update.text \in Token
    <2>1. Shown' = Shown \cup {<<update.text, update.chat>>}
      BY <1>2, <1>5, <1>6 DEF Shown
    <2>2. Book!Show(update.text, update.chat) /\ update.chat \in Chat
      BY <1>1, <1>4, <2>1 DEF Book!Show, Update
    <2> QED BY <1>6, <2>2 DEF Book!Next
  <1>7. CASE update.text \notin Token
    <2>1. Shown' = Shown
      BY <1>2, <1>5, <1>7 DEF Shown
    <2> QED BY <1>4, <2>1
  <1> QED BY <1>6, <1>7

LEMMA CommitImplements ==
    ASSUME IInv, NEW p \in Poller, CommitLink(p)
    PROVE  Book!Next
  <1> USE DEF CommitLink, telegram
  <1>0. PICK m : m = Message(p)
    OBVIOUS
  <1>1. m \in Update /\ next[p] \in 1 .. Len(updates) /\ m = updates[next[p]]
    BY <1>0, Facts DEF IInv, Message
  <1>2. m.text \in Token /\ owner[m.text] # NoUser
    BY <1>0 DEF IInv, PollerOK
  <1>3. Message(p)' = m /\ \A q \in Poller : Message(q)' = Message(q)
    BY <1>0 DEF Message
  <1>4. usedBy'[m.text] # 0 /\ \A t \in Token \ {m.text} : usedBy'[t] = usedBy[t]
    BY <1>0, <1>1, <1>2 DEF IInv, TypeOK
  <1>5. stage'[p] = "linked" /\ \A q \in Poller \ {p} : stage'[q] = stage[q]
    BY DEF IInv, TypeOK
  <1>6. ~Consumed(m.text)'
    <2>1. \A q \in Poller \ {p} : ~(stage[q] = "consumed" /\ Message(q).text = m.text)
      BY <1>0 DEF IInv, OneConsumer
    <2> QED BY <1>3, <1>5, <2>1 DEF Consumed
  <1>7. \A t \in Token \ {m.text} : Consumed(t)' = Consumed(t) /\ Valid(t)' = Valid(t)
    BY <1>3, <1>4, <1>5 DEF Consumed, Valid
  <1>8. m.text \in Open /\ Open' = Open \ {m.text}
    <2>1. Consumed(m.text) /\ ~Valid(m.text)'
      BY <1>0, <1>4 DEF Consumed, Valid
    <2> QED BY <1>2, <1>6, <1>7, <2>1 DEF Open
  <1>9. <<m.text, m.chat>> \in Shown /\ Shown' = Shown /\ m.chat \in Chat
    BY <1>1, <1>2 DEF Shown, Update
  <1>10. Book!Redeem(m.text, m.chat)
    BY <1>0, <1>8, <1>9 DEF Book!Redeem, Upsert
  <1> QED BY <1>2, <1>9, <1>10 DEF Book!Next

LEMMA PollerImplements ==
    ASSUME IInv, NEW p \in Poller,
           GetUpdates(p) \/ GetUpdatesFails(p) \/ Handle(p) \/ HandlingFails(p) \/ Crash(p)
    PROVE  Book!Next
  <1> USE DEF telegram, poller, tokenRows, IInv, TypeOK
  <1>1. CASE GetUpdates(p) \/ GetUpdatesFails(p)
    BY <1>1, Polling DEF GetUpdates, GetUpdatesFails, Polls
  <1>2. CASE ConsumeByHash(p)
    <2>1. \A q \in Poller : Message(q)' = Message(q)
      BY <1>2 DEF ConsumeByHash, Message
    <2> QED BY <1>2, <2>1, Polling DEF ConsumeByHash
  <1>3. CASE CommitLink(p)
    BY <1>3, CommitImplements
  <1>4. CASE Refuse(p) \/ Explain(p) \/ Ignore(p)
    BY <1>4, Polling DEF Refuse, Explain, Ignore, Takes
  <1>5. CASE Reply(p) \/ HandlingFails(p)
    BY <1>5, Polling DEF Reply, HandlingFails, Done
  <1>6. CASE Crash(p)
    BY <1>6, Polling DEF Crash
  <1> QED BY <1>1, <1>2, <1>3, <1>4, <1>5, <1>6 DEF Handle

LEMMA TickImplements == IInv /\ Tick => Book!Next
  <1> SUFFICES ASSUME IInv, Tick PROVE Book!Next
    OBVIOUS
  <1> USE DEF Tick, tokenRows, telegram, poller
  <1>1. \A t \in Token : Valid(t)' => Valid(t)
    <2>1. clock \in Nat /\ \A t \in Token : expires[t] \in Nat
      BY Bounds DEF IInv, TypeOK
    <2> QED BY <2>1 DEF Valid
  <1>2. Open' \subseteq Open /\ Shown' = Shown
    BY <1>1 DEF Open, Shown, Consumed, Message
  <1> QED BY <1>2, Lapsing

(* ConsumeByHash, Upsert and the poller together promise LinkBook: a token *)
(* links once, in time, its own user with a chat that sent it.             *)
THEOREM LinkingImplementsBook == Spec => ImplementsLinkBook
  <1>1. Init => Book!Init
    BY DEF Init, Book!Init, Open, Shown, Consumed, Valid
  <1>2. IInv /\ [Next]_vars => [Book!Next]_<<owner, Open, Shown, link>>
    <2> SUFFICES ASSUME IInv, [Next]_vars PROVE [Book!Next]_<<owner, Open, Shown, link>>
      OBVIOUS
    <2>1. CASE UNCHANGED vars
      BY <2>1 DEF vars, tokenRows, telegram, poller, Open, Shown, Consumed, Valid, Message
    <2> QED BY <2>1, RequestImplements, SendImplements, PollerImplements, TickImplements
            DEF Next
  <1> QED BY <1>1, <1>2, Invariance, PTL DEF Spec, ImplementsLinkBook, Book!Spec
=============================================================================
