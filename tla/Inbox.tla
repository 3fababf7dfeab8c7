------------------------------- MODULE Inbox --------------------------------
(***************************************************************************)
(* The notifications of the users and their read marks: notifiers store    *)
(* notifications while requests of the API mark one or all of them read.   *)
(*                                                                         *)
(* No request runs in a transaction.  MarkRead reads the row, decides, and *)
(* overwrites read_at; MarkAllRead reads its clock first and marks in a    *)
(* later statement whatever is unread by then.  A row whose read_at lies   *)
(* before its created_at can be stored but not be read back.               *)
(***************************************************************************)
EXTENDS Naturals

CONSTANTS User, NoUser,
          Note, NoNote,
          Owner,     \* Owner[n]: the recipient of n, as its event says
          Request,   \* concurrent requests of the API
          NoTime,
          Skew,      \* how far a notifier's clock may be ahead of the API's
          MaxTime    \* bound on the clock

ASSUME UserAssumption  == NoUser \notin User
ASSUME NoteAssumption  == NoNote \notin Note
ASSUME OwnerAssumption == Owner \in [Note -> User]
ASSUME TimeAssumption  == Skew \in Nat /\ MaxTime \in Nat /\ NoTime \notin Nat

VARIABLES clock,
          arriving,  \* created_at of a notification not committed yet
          created,   \* the rows: created_at, NoTime if there is none,
          readAt,    \* and read_at, NoTime if it is NULL
          actor,     \* of a request, NoUser if there is none
          note,      \* the notification to mark, NoNote for all of them
          at,        \* the read_at it will write
          stored,    \* history: the actor's notifications when it began
          acked,     \* history: notifications said to be read
          early      \* history: marked by a MarkAllRead that took its time
                     \* before they were created: they were stored during
                     \* the request, or their notifier's clock was ahead

inboxRows     == <<arriving, created, readAt>>
requests == <<actor, note, at, stored>>
history  == <<acked, early>>
inboxVars     == <<clock, inboxRows, requests, history>>

InboxInit ==
    /\ clock = 0
    /\ arriving = [n \in Note |-> NoTime]
    /\ created = [n \in Note |-> NoTime]
    /\ readAt = [n \in Note |-> NoTime]
    /\ actor = [r \in Request |-> NoUser]
    /\ note = [r \in Request |-> NoNote]
    /\ at = [r \in Request |-> 0]
    /\ stored = [r \in Request |-> {}]
    /\ acked = {}
    /\ early = {}

Rows    == {n \in Note : created[n] # NoTime}
Unread  == {n \in Rows : readAt[n] = NoTime}
Of(u)   == {n \in Note : Owner[n] = u}

(* toNotificationDomain accepts the row. *)
Readable(n) == readAt[n] # NoTime => readAt[n] >= created[n]

(* What the two reading requests answer. *)
CountUnread(u) == Of(u) \cap Unread
ListFails(u)   == \E n \in Of(u) \cap Rows : ~Readable(n)

-----------------------------------------------------------------------------
(* The notifiers: HandleNotificationRequested is one transaction. *)

BeginStore(n) ==
    /\ created[n] = NoTime
    /\ arriving[n] = NoTime
    /\ \E ahead \in 0 .. Skew : arriving' = [arriving EXCEPT ![n] = clock + ahead]
    /\ UNCHANGED <<clock, created, readAt, requests, history>>

Store(n) ==
    /\ arriving[n] # NoTime
    /\ created' = [created EXCEPT ![n] = arriving[n]]
    /\ arriving' = [arriving EXCEPT ![n] = NoTime]
    /\ UNCHANGED <<clock, readAt, requests, history>>

RollbackStore(n) ==
    /\ arriving[n] # NoTime
    /\ arriving' = [arriving EXCEPT ![n] = NoTime]
    /\ UNCHANGED <<clock, created, readAt, requests, history>>

-----------------------------------------------------------------------------
(* The requests *)

Idle(r) == actor[r] = NoUser

Begins(r, u, n, time) ==
    /\ Idle(r)
    /\ actor' = [actor EXCEPT ![r] = u]
    /\ note' = [note EXCEPT ![r] = n]
    /\ at' = [at EXCEPT ![r] = time]
    /\ stored' = [stored EXCEPT ![r] = Of(u) \cap Rows]
    /\ UNCHANGED <<clock, inboxRows, history>>

Ends(r) ==
    /\ actor' = [actor EXCEPT ![r] = NoUser]
    /\ note' = [note EXCEPT ![r] = NoNote]
    /\ at' = [at EXCEPT ![r] = 0]
    /\ stored' = [stored EXCEPT ![r] = {}]
    /\ UNCHANGED <<clock, arriving, created>>

MayMark(u, n) == n \in Rows /\ Readable(n) /\ Owner[n] = u

(* Mutant of ReadTime: no comparison with created_at. *)
ReadTimeUnchecked(n) == IF readAt[n] # NoTime THEN {readAt[n]} ELSE {clock}
(* Notification.MarkRead: what will be written; nothing if it refuses. *)
ReadTime(n) ==
    IF readAt[n] # NoTime THEN {readAt[n]}
    ELSE IF clock >= created[n] THEN {clock} ELSE {}

(* MarkRead as far as the row is found and may be marked.  Otherwise the   *)
(* request leaves nothing behind.                                          *)
FindToMark(r, u, n) ==
    /\ MayMark(u, n)
    /\ \E time \in ReadTime(n) : Begins(r, u, n, time)

(* UPDATE ... WHERE id = ? *)
MarkRead(r) ==
    /\ ~Idle(r) /\ note[r] # NoNote
    /\ readAt' = [readAt EXCEPT ![note[r]] = at[r]]
    /\ acked' = acked \cup {note[r]}
    /\ Ends(r)
    /\ UNCHANGED early

(* s.now() *)
BeginMarkAll(r, u) == Begins(r, u, NoNote, clock)

(* Mutants of Marked: only what is older than the request; also what is    *)
(* read already.                                                           *)
MarkedIfOlder(u, time) == {n \in Of(u) \cap Unread : created[n] < time}
MarkedAnew(u, time)    == Of(u) \cap Rows

Marked(u, time) == Of(u) \cap Unread

(* UPDATE ... WHERE user_id = ? AND read_at IS NULL *)
MarkAllRead(r) ==
    /\ ~Idle(r) /\ note[r] = NoNote
    /\ readAt' = [n \in Note |-> IF n \in Marked(actor[r], at[r]) THEN at[r] ELSE readAt[n]]
    /\ acked' = acked \cup stored[r]
    /\ early' = early \cup {n \in Marked(actor[r], at[r]) :
                               /\ at[r] < created[n]
                               /\ n \in stored[r] => created[n] <= at[r] + Skew}
    /\ Ends(r)

(* A statement fails or the client hangs up. *)
Fail(r) ==
    /\ ~Idle(r)
    /\ Ends(r)
    /\ UNCHANGED <<readAt, history>>

Tick ==
    /\ clock < MaxTime
    /\ clock' = clock + 1
    /\ UNCHANGED <<inboxRows, requests, history>>

-----------------------------------------------------------------------------
InboxNext ==
    \/ \E n \in Note : BeginStore(n) \/ Store(n) \/ RollbackStore(n)
    \/ \E r \in Request :
          \/ \E u \in User : BeginMarkAll(r, u) \/ \E n \in Note : FindToMark(r, u, n)
          \/ MarkRead(r) \/ MarkAllRead(r) \/ Fail(r)
    \/ Tick

InboxSpec == InboxInit /\ [][InboxNext]_inboxVars

-----------------------------------------------------------------------------
(* Properties *)

Time == 0 .. MaxTime + Skew

InboxTypeOK ==
    /\ clock \in 0 .. MaxTime
    /\ arriving \in [Note -> Time \cup {NoTime}]
    /\ created \in [Note -> Time \cup {NoTime}]
    /\ readAt \in [Note -> 0 .. MaxTime \cup {NoTime}]
    /\ \A n \in Note \ Rows : readAt[n] = NoTime
    /\ actor \in [Request -> User \cup {NoUser}]
    /\ note \in [Request -> Note \cup {NoNote}]
    /\ at \in [Request -> 0 .. MaxTime]
    /\ stored \in [Request -> SUBSET Note]
    /\ acked \subseteq Rows
    /\ early \subseteq Rows

(* A notification that was said to be read is not counted as unread again, *)
(* whatever other requests overwrite: the one a MarkRead was about, and    *)
(* all that the user had when a MarkAllRead began.                         *)
AckedIsRead == \A u \in User : CountUnread(u) \cap acked = {}

(* A user's list fails for one reason only: MarkAllRead took its time      *)
(* before a notification was created and marked it all the same.  That     *)
(* takes one stored during the request, or clocks that disagree; MarkRead  *)
(* never stores what cannot be read back.                                  *)
ListFailsForRace ==
    \A u \in User : ListFails(u) => \E n \in Of(u) \cap early : ~Readable(n)

(* The requests in flight about n hold the instant that it carries. *)
Settled(n) ==
    /\ readAt[n] # NoTime
    /\ \A r \in Request : note[r] = n => at[r] = readAt[n]

(* A read_at moves only while requests that found another one, or none,    *)
(* are in flight: afterwards it is final.  So is a row that cannot be read *)
(* back: nothing that begins later repairs the list.                       *)
ReadAtIsFinal == [][\A n \in Note : Settled(n) => Settled(n)' /\ readAt'[n] = readAt[n]]_inboxVars

(* A read mark comes from a request of the notification's owner that ends  *)
(* with it.                                                                *)
OnlyOwnersMark ==
    [][\A n \in Note : readAt'[n] # readAt[n] =>
          \E r \in Request : actor[r] = Owner[n] /\ Idle(r)']_inboxVars
=============================================================================
