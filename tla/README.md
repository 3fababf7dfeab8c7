# TLA+ models of the task manager

This directory models the Go task manager of this repository: its outbox relay,
its Kafka consumer, the two composed into the notification pipeline, the Telegram
deliveries that follow, the linking of Telegram chats, the read marks of
notifications, accounts and sessions, tasks, reminders and reminder schedulers
over one database, recurring series, and the API process with its connection
pool. TLC checks small instances; TLAPS proves the safety properties of the
passing runs for every instance. Paths below are relative to the repository root.

To check: `tlc -config <run>.cfg <module>` for the runs listed below, and
`tlapm <module>Proofs.tla` for the proofs.

## 1. The system

Three processes share one PostgreSQL database (READ COMMITTED, at most 25
connections each) and one Kafka topic.

- `cmd/api`: HTTP requests, each on its own goroutine, any number of instances.
- `cmd/scheduler`: three loops in one process (reminder runner, recurrence
  runner, outbox relay). Several instances may run; they meet only in row locks.
- `cmd/notifier`: the Kafka consumer and, when Telegram is configured, the
  Telegram poller and the delivery runner. If one of them returns an error the
  errgroup stops them all and the process exits.

| Component | State | Operations | Interacts with | Hard part |
| --- | --- | --- | --- | --- |
| task | `tasks` row: status, deadline, assignee, archived | create, update, reassign, change status, archive, restore, list | reminder service (in the same transaction), permission | whole rows are read, changed in memory and written back without locks |
| reminder | `reminders` rows: state, kind, offset, trigger | create, update, delete, recalculate, cancel | task rows, scheduler | stale task or reminder read before the write |
| reminder scheduler | open claim transaction | claim due, insert event, mark sent | outbox, reminder | competing schedulers, partial failure of a batch, cancellation under a claim |
| outbox | `outbox_events` rows; the topic | create, claim, publish, mark, increment attempts | Kafka | publish happens inside the claim transaction; crash or lost answer in between |
| notification consumer | offsets, fetched batch, `processed_events`, `notifications`, delivery rows | poll, handle, commit | Kafka, database | redelivery, rebalance, failed poll, record that can never be handled |
| Telegram delivery | `notification_deliveries` rows | claim, send, mark, retry, fail | Telegram API, settings | send inside the transaction that marks it |
| Telegram linking, poller | link tokens, links, in-memory offset | create token, `/start`, enable, delete | Telegram API | single use of a token; updates lost or repeated |
| notification read state | `read_at` | mark one, mark all | API | read-then-write |
| auth | `refresh_tokens`, users | register, login, refresh, logout | user | rotation races |
| recurrence | `task_series` rows | claim due, create occurrence and reminders, advance | task, reminder | batch blocked by one series; calendar arithmetic |
| permission, user | lookups | read only | task, API | a second connection taken inside a transaction |
| platform, bootstrap | pool, servers, configuration | start, stop | all | pool exhaustion, requests in flight at the stop |

What makes each part correct is stated by the properties below; the hazards of
`PROJECT.json` name, at its line, what could go wrong and which property notices.

## 2. Modules

```
ReminderDelivery            what the pipeline promises
      ^ implements
NotificationPipeline  ----  EXTENDS OutboxRelay, INSTANCE NotificationConsumer
TelegramDelivery            delivery rows, delivery runners, the user's link
LinkBook                    what a link token promises
      ^ implements
TelegramLinking             tokens, links, the chats' messages, the pollers
Inbox                       notifications and their read marks
Sessions                    what refresh tokens promise
      ^ implements
Accounts                    registration, login, refresh, logout
TaskReminders               tasks, reminders, API requests, reminder schedulers
Calendar <- Recurrence      series, recurrence runners, calendar arithmetic
ApiServer                   access to a task, connection pool, shutdown of the API
```

`MC<module>` gives a module its small instance and, where states are identified,
its symmetry. `<module>Proofs` holds the theorems of NotificationConsumer,
TelegramDelivery, TelegramLinking, Accounts, ApiServer, TaskReminders and
Recurrence. `NotificationProofs` holds those of OutboxRelay, NotificationPipeline
and Inbox, the way of a notification from the outbox to its reader: it extends
all three, so the relays and the inbox give their specifications names of their
own (`OutboxSpec`, `InboxSpec`). The variables of one part mean nothing to a
theorem about another.

Definitions that a comment calls a mutant are not part of any specification: each
is the code with one plausible mistake, used to see that a property notices it.

### OutboxRelay (`internal/outbox`)

`rows`, `published` and `attempts` are the table, `log` the topic. `batch`,
`marked` and `bumped` are the open transaction of each relay: they are what it
has locked, and they reach the table only in `Commit`. An event is its rank in
the order of the claiming SELECT (`created_at, id`). `CreateEvents` lets rows
become visible in any order, because the transactions that insert them overlap.
`Publish` then `MarkPublished` are two steps, so a fault can fall between them;
`PublishFails` covers a broker that stored the record and one that did not;
`Rollback` covers a crash, a cancelled context, a failed UPDATE and a failed
COMMIT. A relay that finds nothing changes nothing, so `Claim` needs a row.

### NotificationConsumer (`internal/notification/adapter/in/kafka`, `HandleNotificationRequested`)

The topic is auto-created with one partition, so the log is one sequence. A
member's `stage` is its place in `Run` and `handleRecord`. `Notify` is one
database transaction (dedup row, notification, delivery row if linked) and
`CommitOffset` a later step. `Exit` is the error return of `Run` that ends the
process. `HandleFails` is the foreign key `notifications.reminder_id` (migration
000009) rejecting a reminder deleted after it fired. `Revoke` and `Assign` are
the group coordinator: the former owner keeps the batch it fetched and may still
commit, which can move the committed offset back; the dedup row makes the
redelivery harmless. `PollError` is `fetches.Err()` with records in the same result: `Run`
takes `continue` and the client's position is already past them. Kafka, its
coordinator and the process supervisor are external and modelled by what the
code sees of them.

### NotificationPipeline and ReminderDelivery

The relays append to the log the consumers read; the variables of the two
modules are otherwise disjoint. A reminder can be deleted once its event exists.
`ReminderDelivery` has two actions: requests are made, and a request is notified
once. The mapping is `requested <- rows`, `notified <- notifications`.

### TelegramDelivery (`delivery_runner.go`, links and deliveries of `internal/notification`)

The deliveries of one user. `status` and `attempts` are the columns, `waiting`
the rows whose `next_attempt_at` lies ahead; `batch` and `outcome` are a runner's
open transaction, so they are its row locks, and `Commit` turns outcomes into
rows. `FindLink` reads the link into the local variables of `processDelivery`
(`sending`, `chat`) and the send is a later step: the link may change in between.
`SendFails` covers a message Telegram accepted and one it did not. `FailUnlinked`
is the path without a usable link, which counts no attempt.

`unreadable` is the deliveries whose notification has `read_at < created_at`, as a
`MarkAllRead` can leave it (Inbox below): `MarkAllReadEarly` may strike any
pending one. `processDelivery` loads the notification first
(`delivery_runner.go:122`), so `FindLink` and `FailUnlinked` need it readable, and
`FindNotificationFails` is its error: the transaction is rolled back and the row
is due again at the next poll, for ever. This step belongs to a runner's
`Progress` and is not bounded. `Rollback` is any other error of `ProcessDue`, a
crash or a failed COMMIT, and is bounded by `MaxFaults`. In both, messages stay
sent and attempts are undone (`forgotten`; README.md:187 of the repository names
this as a known limitation; here it is measured). The row of a new delivery
appears some time after the link was read, because the consumer's transaction
commits later. `received`, `forgotten`, `late` and `unlinked` are history; the first
two stop counting at `MaxCopies`, because such a poll can come any number of times.
`UpsertLink` is what an accepted `/start` does to the link; how it comes to be
accepted is TelegramLinking.

### TelegramLinking and LinkBook (`poller.go`, `CreateTelegramLinkToken`, `HandleTelegramStart`, the settings requests)

`owner`, `expires` and `usedBy` are `telegram_link_tokens`, `link` is
`telegram_links`. Telegram is external: it keeps `updates` until a `getUpdates`
with a higher offset `confirmed` them. A poller's `offset` is memory, so `Crash`
sets it back to 0, and it is advanced before the update is handled (`Advance` is
part of every action that takes an update). `ConsumeByHash` is the UPDATE that
locks the token's row, `CommitLink` the commit that makes link and use visible
together, `Reply` the message that follows, so a crash can fall between the two:
the update is then handled again and answered "invalid", truthfully. The instant
a transaction compares with the expiry is taken to be the one at which it gets the
row. `HandlingFails` is any error of a handler: it is logged and the update given
up. `LinkBook` has tokens that open, link once while open, and close; its `open`
is the tokens a poller may still consume, its `shown` the pairs a chat has sent.

### Inbox (`MarkRead`, `MarkAllRead`, `CountUnread`, the list, `HandleNotificationRequested`)

`created` and `readAt` are the columns; `arriving` is an open transaction of a
notifier, whose clock may be up to `Skew` ahead of the API's. No request runs in a
transaction: `FindToMark` is the read and the decision of `MarkRead`, `MarkRead`
its UPDATE; `BeginMarkAll` is `s.now()`, `MarkAllRead` the UPDATE of what is
unread by then. `Readable` is the check of `RestoreNotification`, which rejects a
row with `read_at` before `created_at`: `ListFails` when a user has such a row.
`stored`, `acked` and `early` are history. Paging of the list is left out.

### Accounts and Sessions (`internal/auth`, the users table)

One action per statement: `CheckEmail`, `CheckUsername`, `CreateUser` or
`RejectUser` are the four places where `Register` can be overtaken; `FindToken`
and `Rotate` or `RotateRejected` those of `Refresh`; `FindForLogout` and `Revoke`
those of `Logout`. Only `Rotate` and `Revoke` lock the row they change, so each is
one step. `readAt` is the instant a request has read: the expiry is compared with
it before the lock and not again. `root` and `parent` are history, they name the
session of a token. A retry of a refresh whose answer was lost is a further
request with the same token. `Sessions`: a session holds one live token, a
refresh replaces it by one never used, a closed session stays closed. Passwords
and access tokens are library calls that change no state; only the answers a
property is about are told apart.

### TaskReminders (`internal/task`, `internal/reminder`)

One task and its reminders; requests and schedulers overlap as they like. A
request that writes the task reads it and decides (`Begin...`), holding the row it
will write in `session`. When it completes the task or moves the deadline, its
statement about the reminders comes next, in two parts as in PostgreSQL:
`CancelPending` or `RecalculatePending` finds the rows (`found`), and
`ChangeTaskAndReminders` changes those that still qualify (`Changed`) once no
scheduler has them locked, writes the task and commits. What is inserted or made
pending between the two parts is not among the found rows. `RecalculateFails` is
the refusal to remove a deadline under pending relative reminders. `UpdateReminder`
reads twice (`BeginUpdateReminder` reads the task, `ReadReminder` the reminder) and
writes the whole row, state included. A scheduler's batch is one transaction:
`ClaimDue` locks (FOR UPDATE SKIP LOCKED), `InsertEvent` and `MarkSent` follow for
one reminder after the other, `CommitBatch` makes both visible, and `RollbackBatch`
may come between any two of them. The worker pool of `processBatch` is not used
inside a transaction (`HasGORM`), so a batch goes in order.

`late`, `adrift` and `revived` are history. They name the reminders whose last
writer was overtaken: `late` by a completion, `adrift` by another deadline (in both
cases also all that a request disagrees with when it writes an older row of the task
back), and `revived` counts how often an `UpdateReminder` wrote PENDING over a
reminder that had fired since it was read. The rules about completion, deadlines
and firing once hold outside these, and TLC and the proofs show that the list is
complete.

Times are small numbers, 0 is "no deadline". Left out: titles, descriptions,
assignee and the archived mark (an update of those writes status and deadline back
as read, which `BeginUpdateTask` and `BeginArchiveOrRestore` include; who may be
assigned is ApiServer), access checks, `updated_at` (a clock that never runs
backwards passes its check), and the event's payload.

### Recurrence and Calendar (`internal/recurrence`)

`next` and `active` are the columns of a series that change, `made` (history) the
deadlines its tasks were created with, `deadlines` those its tasks have now, as
far as they are ones the series may come to. A poll is one transaction over a batch of
due rows (`FOR UPDATE SKIP LOCKED`, oldest first): `ClaimDue`, then `Generate`, or
`FailBatch` when a series of the batch runs into the unique index on
`(series_id, deadline_at)` (migration 000011), or `Interrupt`. Only the creator of
an occurrence can make that happen, by moving its deadline (`MoveOccurrence`).
The reminders of an occurrence are inserted in the same transaction and are not
followed. `Calendar` translates `NextDeadline`, `addCalendarMonths` and the lookup
of the zone's offset in `time.Date`, with days of any number of hours, months of
any lengths and one summer time. The months are a constant, `FirstDay`, the day
each of them begins; `HorizonAssumption` says that they go two periods of every
monthly series further than the clock, so that no step looks past the last of
them. Go's `time` package is external and modelled by
what the code relies on. Nothing in the repository creates a series, so series
are constants here, and `ProcessSeries` (`processor.go:69-73`) is not called.

### ApiServer (`cmd/api`, `bootstrap/api.go`, `platform/database`, `platform/server`, task access, permission, user)

A request is a chain of SQL statements (`at`); `Acquire` takes a connection for a
statement outside a transaction, `Begin` keeps it for the transaction. The
permission check always goes through the pool, so an `UpdateTask` that reassigns
holds one connection and waits for another (`permission/adapter/out/postgres/repository.go:28`
uses the database handle, not the transaction of the context). `First`,
`MayTouch`, `Changed`, `NeedsCheck` and `Shows` are the decisions of the handlers
and services about one task; `row` is the task as a request has read it and will
write it back. `seen` is history: who was shown the task in an answer. `Abandon`
is a client that hangs up, a failed statement or a reminder that refuses the new
deadline. `MarkShuttingDown`, `CloseListener`, `CloseDatabase` and
`ShutdownTimeout` are `Shutdown`; a request on a connection accepted before the
listener closed may still be served while the server drains. Requests refused before they reach the database
(authentication, parsing) leave nothing behind and are left out. "archive" stands
for `ArchiveTask` and `RestoreTask`, which have the same check and the same
statements; `ReassignTask` has no HTTP route, reassignment is part of `UpdateTask`.

## 3. Runs

| Run | Instance | Properties | Shows |
| --- | --- | --- | --- |
| `OutboxRelay` | 3 events, 2 relays, batches of 2, 2 faults | PublishedIsInLog, DuplicatesNeedFaults, EventuallyPublished | at-least-once publication whatever interleaves or fails |
| `NotificationConsumer` | 2 events and a malformed record, log of 3, 2 members, 1 fault, failed polls | NotifiedExactlyOnce, CommittedIsHandled, EveryRecordIsHandled | exactly one notification per event under redelivery and rebalance |
| `NotificationPipeline` | 2 events, 1 relay, 2 members, a fault on each side | NoEventIsLost, ImplementsDelivery, EventuallyNotified | the end-to-end promise |
| `TelegramDelivery` | 2 deliveries, 2 runners, 1 chat, batches of 2, 1 retry, 1 rollback, any number of unreadable notifications | CopiesAreAccounted, GivenUpForCause, OneLateMessagePerRunner, EventuallySettled | what a user can receive, and when a delivery is given up, under lost answers, rollbacks, changes of the link and notifications that cannot be loaded |
| `MCTelegramLinking` | 2 users, 2 chats, 1 token, 2 updates, 2 pollers, 1 fault | RepliesAreTrue, DroppedIsAnswered, ImplementsLinkBook, EveryUpdateIsHandled | a token links once and in time, and no `/start` disappears in a crash |
| `MCInbox` | 2 users with a notification each, 3 requests, clocks 1 apart | AckedIsRead, ListFailsForRace, ReadAtIsFinal | read marks under overlapping requests, and the one way a list breaks |
| `MCAccounts` | 3 accounts that collide, 3 tokens, 2 requests at a time | AnswersAreTrue, SuccessorExtends, ImplementsSessions | registration, rotation and logout raced against each other |
| `TaskReminders_schedulers` | 3 reminders, 2 schedulers, batches of 2, 1 request at a time, 1 rollback | ClaimedStaysDue, SentHasEvent, FiresAtMostOnce, DueIsHandled | schedulers against each other, against requests and against failures inside a batch |
| `TaskReminders_overlaps` | 1 reminder, 2 overlapping requests, all operations, 1 scheduler, 1 rollback | TypeOK, DoneHasNoPending, RelativeFollowsDeadline, FiresAtMostOnce | what of the rules survives overlapping requests, and exactly where they fail |
| `MCRecurrence` | a daily, a weekly and a monthly series, 2 runners, batches of 2, both changes of summer time, 1 fault, 2 moves | TypeOK, WallClockPreserved, OnSchedule, EndsInTime, CatchesUp | every deadline becomes one task, at its hour, until the end of the series |
| `MCApiServer` | 3 users, 3 requests out of 11 calls, 2 connections | AssigneesArePermitted, OutsidersSeeNothing, EveryRequestEnds, StopsInTime | who may do what to a task, and that requests and the process end |
| `NotificationConsumer_poison` | 2 events, 1 member | KeptRemindersAreNotified (violated) | a deleted reminder's record stops the notifier after every restart |

Properties of these modules that a run does not list (the other type invariants, NoSharedClaim,
SentWasReceived, SettledIsFinal, UniqueAccounts, OnlyOwnersMark,
ConnectionsAreBounded, ClosedWhenIdle) are proved for every instance, see 4.

### What the code does that a reader may not expect

The runs and their counterexamples led to these behaviours of the code. The first
is a run of its own; the others are built into the models, where a property says
exactly how far the promise goes.

- *Poison record.* `Run` returns the error of one record and the notifier stops.
  A reminder deleted after it fired makes its record fail at the foreign key of
  `notifications.reminder_id` for ever; no later record is handled
  (`NotificationConsumer_poison`; `Blocked` in EveryRecordIsHandled).
- *Failed polls.* A `PollFetches` that returns records together with an error
  loses them: `Run` continues (`consumer.go:69`) and later commits pass their
  offsets (`dropped` in CommittedIsHandled and EveryRecordIsHandled).
- *Overlapping requests.* Whole rows are written back as they were read. A
  reminder created during a completion stays pending on the completed task
  (`reminder_service.go:55`), one created during a change of the deadline keeps the
  old one (`reminder_service.go:60`), an edit that overlaps a completion reopens the
  task and does not bring its reminders back (`task/adapter/out/postgres/repository.go:66`),
  and a reminder that fires between the read and the write of `UpdateReminder`
  becomes PENDING again and fires twice. DoneHasNoPending, RelativeFollowsDeadline
  and FiresAtMostOnce name these cases by their history variables and exclude no
  other. That the status of a task only moves along the table of
  `CanTransitionTo` is stated nowhere: two overlapping requests break it, and of
  requests that do not overlap it says no more than the guard that checks it.
- *Lists that fail.* A `MarkAllRead` that took its time before a notification was
  stored, or whose clock is behind the notifier's, stores `read_at < created_at`;
  `RestoreNotification` (`notification.go:62`) rejects the row and the user's
  list fails from then on (ListFailsForRace, ReadAtIsFinal). A `MarkRead` that
  overlaps a `MarkAllRead` can move `read_at`, though marking again is meant to
  leave it (`notification_test.go:26`).
- *Recurring series.* A task is created only when its deadline is due, so the
  reminders before that deadline are all due at once (README.md:14 speaks of
  future occurrences). An occurrence moved onto the next deadline of its series
  blocks its batch, and since batches are claimed oldest first, the series behind
  it (`Stuck` in CatchesUp). The day of a monthly series, once clamped by a short
  month, stays clamped; an hour skipped by summer time shifts a series for good
  (`Regular` in WallClockPreserved).
- *A series that never moves.* `addCalendarMonths` (`series.go:185`) builds the
  first of the target month at the hour of the deadline. Where summer time
  begins at the turn of a month, west of Greenwich, and skips just that hour,
  `time.Date` returns the hour before, in the month the deadline is already in:
  the next deadline is the same one, the next poll meets the unique index, and
  the series stays there, `Stuck`. TLC shows it in `MCRecurrence` with
  `SummerBegins = 22` and a monthly series that starts at 13. The proof that a
  monthly series advances fails at exactly this case; the theorems exclude it by
  name (`AllTimed`, see 4). The run has its summer time begin within a month.
- *Connection pool.* As many reassigning `UpdateTask`s as the pool has
  connections wait for each other until a client hangs up, and everybody else
  waits with them (`Exhausted` in EveryRequestEnds). Shutdown still ends, by its
  timeout.
- *Poison notification.* A pending delivery whose notification has
  `read_at < created_at` cannot be loaded, its error ends `ProcessDue`, and nothing
  about the row changes. So every batch it is claimed with is rolled back: messages
  sent earlier in the batch are sent again at every poll, and rows behind it wait
  (`Blocked` in EventuallySettled, `forgotten` in CopiesAreAccounted). Without
  `Blocked`, TLC finds the liveness property violated.
- *Telegram.* A crash between the commit of a link and the reply makes the same
  `/start` be answered "invalid"; a failed handler gives its update up.

### Bounds

Every counter that could grow is bounded by a constant: `MaxFaults`,
`RelayFaults`, `ConsumerFaults` (faults so far), `MaxLog` (records), `MaxTime`
(the clock), `MaxRevivals` (reminders that become pending again), `MaxCopies`
(where two histories stop counting). Three events and batches of two give a batch that is full, one that
is not, and a row left behind. Two relays, members or schedulers are enough for
the conflicts the code can have, since each lock or partition has one holder
and one rival. One fault in the consumer's run leaves
its combinations to the proofs, which bound nothing. A log of three holds a
record, its duplicate and another one. The
safety properties are proved without such bounds (4). In `TelegramDelivery` one
retry is the smallest list of delays and reaches
both sides of the test in `handleSendFailure`; two deliveries in one batch are what
reading the link again for each of them, and an unreadable one beside one that has
been sent, need. One chat is linked, disabled, deleted and linked again; that there
may be others is left to the proofs. `MaxCopies` 3 is one more than the attempts a
row can have.
With `MaxTime` 2 a trigger can lie in the past, now and in the future. In
`TaskReminders_overlaps` one reminder, two requests and a scheduler are the three
parties of every race that the history variables name; `MaxRevivals` 1 lets a
reminder fire twice. Batches of several reminders and several schedulers are in
`TaskReminders_schedulers`, which leaves out the requests that make a reminder
pending again (`MaxRevivals` 0).
`TaskReminders_overlaps`, `MCAccounts` and `MCInbox` identify states that differ in
names the specification treats alike (sessions, schedulers, reminders;
tokens, requests; requests); runs that check liveness use no symmetry.
`CHECK_DEADLOCK FALSE` everywhere: once the bounds are used up and all work is
done the system rests.

In `MCTelegramLinking` two updates, two pollers and one token are what a redelivery,
a race for the token and an update behind a failed one need; a lifetime of 1 within
a clock of 1 lets the token expire under an open transaction. In `MCInbox` a clock
of 2 and a skew of 1 put `read_at` before, at and after `created_at`; three requests
let one overwrite what two others race about. In `MCAccounts` the accounts collide
pairwise in email or username, three tokens make a session of a login and two
refreshes, and a lifetime of 2 within a clock of 2 has tokens alive, at their last
instant and expired. In `MCRecurrence` days have 3 hours and months 3 or 4 days, so
that 42 hours hold two weeks, three short or long months and both changes of the zone; the
monthly series starts on the last day of a long month, the weekly one at the hour
that summer time skips, the one counted in days falls twice into summer and ends
with a deadline that equals its end. In `MCApiServer` two reassignments
exhaust the pool of two and a third request waits; `u2` may be assigned by `u1`,
`u3` by nobody. Requests are served once each: a request that has ended is not
used again.

### Fairness

- A relay's `Progress` (claim, publish, mark, commit) is weakly fair: `Run` polls
  on a ticker, logs errors and returns only on cancellation (`relay.go`). Faults
  are not fair and are bounded: nothing is published while every attempt fails.
- A scheduler's `Poll` (claim, insert, mark, commit), for the same reason (`runner.go`).
- A delivery runner's `Progress`, for the same reason (`delivery_runner.go`); it
  includes the poll that fails at an unreadable notification. Also the passing of
  time (`BecomesDue`). Nothing is assumed of Telegram: every call of `Send` ends,
  with or without success (the HTTP client has a timeout).
- A member's poll, handling and commit: `Run` has no other wait. `Assign` is the
  broker giving the partition to some live member. `Restart` is an assumption
  about the operator: `deploy/compose.yaml` has no restart policy, so without
  someone to start it again a stopped notifier handles nothing.
- A poller's `GetUpdates` and `Handle`: `Run` (`poller.go`) polls again whatever
  happened. `Crash` is followed by a start, an assumption about the operator as above.
- A recurrence runner's `ClaimDue` and the end of its poll, which is a success or
  a rollback (`runner.go`, ticker). `CatchesUp` is conditional on no series being
  stuck from some time on.
- In `ApiServer` a free connection goes to a waiting request (`database/sql` queues
  them), statements end, a readiness probe gives up after its two seconds, and a
  shutdown that has begun goes on. Nobody is assumed to hang up or to stop the process.
- No request of a client is fair: it may never come or, outside `ApiServer`, never
  be finished.

## 4. Proofs

| Module | Theorems | State |
| --- | --- | --- |
| `NotificationProofs`, of OutboxRelay | OutboxTypeCorrect, PublishedIsSafe, ClaimsAreExclusive, DuplicatesAreExplained | OutboxTypeOK, PublishedIsInLog, NoSharedClaim, DuplicatesNeedFaults |
| `NotificationConsumerProofs` | TypeCorrect, NotificationIsUnique, CommitsAreSafe | TypeOK, NotifiedExactlyOnce, CommittedIsHandled |
| `NotificationProofs`, of NotificationPipeline | PipelineTypeCorrect, NothingIsLost, PipelineImplementsDelivery | TypeOK, NoEventIsLost, ImplementsDelivery |
| `TelegramDeliveryProofs` | TypeCorrect, SentIsReceived, CopiesAreBounded, GivingUpIsJustified, LateMessagesAreBounded, SettledStaysSettled | TypeOK, SentWasReceived, CopiesAreAccounted, GivenUpForCause, OneLateMessagePerRunner, SettledIsFinal |
| `TelegramLinkingProofs` | TypeCorrect, RepliesStayTrue, NoStartIsLost, LinkingImplementsBook | TypeOK, RepliesAreTrue, DroppedIsAnswered, ImplementsLinkBook |
| `NotificationProofs`, of Inbox | InboxTypeCorrect, ReadStaysRead, ListFailuresAreRaces, ReadAtSettles, MarksAreTheOwners | InboxTypeOK, AckedIsRead, ListFailsForRace, ReadAtIsFinal, OnlyOwnersMark |
| `AccountsProofs` | TypeCorrect, AccountsAreUnique, AnswersStayTrue, SessionsAreBounded, SessionsAreImplemented | TypeOK, UniqueAccounts, AnswersAreTrue, SuccessorExtends, ImplementsSessions |
| `ApiServerProofs` | TypeCorrect, AssignmentsArePermitted, OutsidersAreKeptOut, PoolIsBounded, OrderlyExit | TypeOK, AssigneesArePermitted, OutsidersSeeNothing, ConnectionsAreBounded, ClosedWhenIdle |
| `TaskRemindersProofs` | TypeCorrect, ClaimsStayDue, SentIsAnnounced, FiresOnce, CompletionCancels, RelativeRemindersFollow | TypeOK, ClaimedStaysDue, SentHasEvent, FiresAtMostOnce, DoneHasNoPending, RelativeFollowsDeadline |
| `RecurrenceProofs` | HourIsKept | WallClockPreserved |
| `RecurrenceProofs`, if AllTimed | TypeCorrect, NoneIsLeftOut, EndIsKept | TypeOK, OnSchedule, EndsInTime |

Assumptions are the named ASSUMEs of the modules: ranks are naturals, the batch
size is positive, bounds are naturals, `NoMember` and the like are not members, a
task that is there at the start was permitted, a day has more than one hour,
summer time begins before it ends, months follow each other and go further than
the clock. One hypothesis is named in the theorems that need it: `AllTimed` says
that a monthly series is not at the hour that summer time skips, or summer time
does not begin at the turn of a month. Without it the series may never advance, as
said in 3. No theorem restricts what may overlap.

*Outbox.* PublishedIsInLog is not inductive: `Commit` publishes what the
transaction marked, so the invariant also says that a row in `marked` is in the
log, and that a relay about to mark has its next event in the log. NoSharedClaim
needs that no relay's claim meets a published row. DuplicatesNeedFaults counts:
the copies of an event are at most the faults, plus one if some relay has
appended it in a transaction that is still open or it is published; the
exclusive claims make that one unique.

*Consumer.* A member's batch lies in the log, what precedes its next record from
where it started is handled, and the record it is about to commit is handled;
fetch positions never run ahead of handled, dropped or batched records. From this
CommittedIsHandled follows however assignment moves. Records only become
handled, never the reverse, so rebalances preserve it.

*Pipeline.* The invariants of both parts hold because each part's steps are
steps of its own specification or leave its variables alone; the relay's appends
are the consumer's `AppendRecord`. NoEventIsLost combines PublishedIsInLog with
CommittedIsHandled. For the refinement, a step that stores a notification does so
for an event of the log, hence one with a row, and not processed before, hence
without a notification; every other step stutters or is `Request`.

*Deliveries.* The invariant ties an open transaction to its rows: a locked row is
pending and locked by one runner, and the outcome written of it fits its
attempts. An attempt that a rollback takes away, for whatever reason, is counted in
`forgotten` at the same step. A runner about to send to a chat that is no longer
the usable one has sent nothing late since the link changed. While the link is
unusable every live delivery is recorded in `unlinked`. The steps that end the
handling of a row share one lemma.

*Linking.* RepliesAreTrue needs, of a poller about to reply, that what it is going
to say is already so: the token it linked is marked with its update, the one it
refused is used or expired. A token is consumed by one poller at a time, and
only tokens that were issued are sent. DroppedIsAnswered: what precedes a
poller's next update is handled, and its offset lies at most one beyond the next
one, so what it confirms was handled although the offset runs ahead; after a
crash the offset is 0 and confirms nothing. For the refinement a token is open
while it is valid or consumed and not committed; ticks close tokens, and
`CommitLink` links one that was open with a chat that sent it.

*Inbox.* A request in flight holds an instant: one that marks a single
notification holds one not before its `created_at` or the one stored; these and
the history variables give ListFailsForRace. ReadAtIsFinal and OnlyOwnersMark are
step by step consequences.

*Accounts.* The invariant says of each waiting request what its reads have
established and of each token that its parent is revoked, of the same session and
user, and expired after the request that exchanged it. Every session has at most
one unrevoked token; `Rotate` revokes it and adds one, in one step under the lock.
The refinement maps `IssueToken` to `Open`, `Rotate` to `Renew`, and `Revoke` to
`Close` or, when another request revoked the token already, to a stutter.

*API server.* The creator of the task never changes. What a request has decided
to write is permitted by that creator, and so is the user it will answer; both
stay true whatever is committed between its read and its write, so writing an
older row back cannot assign the task to anyone its creator may not assign. For
the pool, `Begin` turns a statement's connection into a transaction's, `Acquire`
needs a free one, and every other step gives connections back.

*Tasks and reminders.* One invariant for every interleaving, `IInv`. `SessionsOK`
says of each request in flight what its reads have established and nobody can
undo: one that writes the task does not both complete it and move the deadline;
one about to remove a deadline has found no reminder; the row of a reminder it will
write is pending and, if relative, was computed from the deadline it read.
`BatchesOK` orders a batch: what is marked is inserted, what is inserted is claimed.
`FiringOK` counts events: a reminder has `revived` of them while pending and one more
once sent, so a commit adds the one that is missing. ClaimedStaysDue is inductive
with these, because every statement that changes a reminder waits for its lock, and
the two rules about completion and deadlines are because a row that is found and
changed is as it should be, and one that is not found is in `late` or `adrift`.

*Recurrence.* The proof is about three layers, each of which uses the one before
by lemmas only. The calendar: days, hours and months as integer division and as
intervals of days; every day of the model lies in exactly one month. The zone:
`LocalOfDate` says that the local clock shows the hour `time.Date` was asked for,
unless summer time skips it, and then one hour less or more. The series:
`MonthsLater` and `DaysLater` say what `NextDeadline` returns, `FollowingIsNext`
that it lies later, `FollowingPeriod` that it is one period on. The invariant
`Sound` relates the four parts of one series: its tasks were made for deadlines
not after `next` and not after its end, `next` is among them exactly if the series
is over, its hour is the first one's, and it is as many periods further as it has
been advanced. `AdvanceIsSound` carries it over one `Generate`, for which
`ClaimsInv` is needed: no two runners hold a series, and what one holds is still
due. `FollowingIsNext` is what makes `made` grow with every advance, and with it
that no deadline is made twice.

Model-checked only: the liveness properties (EventuallyPublished,
EveryRecordIsHandled, EventuallyNotified, EventuallySettled, EveryUpdateIsHandled,
DueIsHandled, CatchesUp, EveryRequestEnds, StopsInTime): fairness and ENABLED are
outside the prover's reach. Every invariant and every action property that a
passing run checks is a theorem. The proofs bound nothing but clocks, logs,
faults, months and the histories of copies and revivals, by constants of any value.

## 5. Not modelled

- Configuration, logging, metrics, migrations and the developer command
  `cmd/dev`: plumbing that changes no state of the components.
- HTTP parsing, response formats and the reminder handler's wording; password
  hashing and the signing of access tokens, which are library calls.
- Titles, descriptions, filters, paging and `updated_at`.
- The duration of transactions: `ProcessDue` keeps its rows locked through up to
  a batch of Telegram calls; the code promises nothing about it.
- The recipient of a notification is the assignee at firing time; no property is
  stated about a later reassignment, because the code promises none.
- Start-up order and wiring; of the stop of the scheduler and notifier processes
  only that their loops end together, as a crash does.

What would come next: the reminders of an occurrence as part of Recurrence, and
Inbox and TelegramDelivery over one table of notifications, so that the unreadable
ones of the latter come from the races of the former instead of being assumed.
