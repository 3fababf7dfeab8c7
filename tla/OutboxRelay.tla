----------------------------- MODULE OutboxRelay -----------------------------
(***************************************************************************)
(* The transactional outbox: rows of outbox_events, the relays that claim  *)
(* and publish them (internal/outbox), and the Kafka log they append to.   *)
(*                                                                         *)
(* An event is a number, its rank in (created_at, id) order.  A relay's    *)
(* poll is ONE database transaction that holds the row locks of its batch  *)
(* while it talks to Kafka: what the transaction wrote (marked, bumped) is *)
(* private until Commit and gone after Rollback, but the records it sent   *)
(* stay in the log.                                                        *)
(***************************************************************************)
EXTENDS Naturals, FiniteSets, Sequences

CONSTANTS Event,      \* ranks of the events that may be created
          Relay,      \* relay loops: one per scheduler process
          BatchSize,  \* OutboxConfig.BatchSize
          RelayFaults \* bound: failed publishes and lost transactions

ASSUME EventAssumption  == Event \subseteq Nat
ASSUME BatchAssumption  == BatchSize \in Nat \ {0}
ASSUME FaultsAssumption == RelayFaults \in Nat

VARIABLES rows,       \* events with a committed outbox row
          published,  \* rows whose published_at is set
          attempts,   \* the committed attempts column
          log,        \* records of the Kafka topic, oldest first
          phase,      \* what each relay does next
          batch,      \* rows claimed by a relay's transaction and not handled yet
          marked,     \* rows the open transaction has marked published
          bumped,     \* rows whose attempts the open transaction incremented
          faults      \* faults so far

tables     == <<rows, published, attempts>>
tx         == <<phase, batch, marked, bumped>>
outboxVars == <<tables, log, tx, faults>>

OutboxInit ==
    /\ rows = {}
    /\ published = {}
    /\ attempts = [e \in Event |-> 0]
    /\ log = <<>>
    /\ phase = [r \in Relay |-> "idle"]
    /\ batch = [r \in Relay |-> {}]
    /\ marked = [r \in Relay |-> {}]
    /\ bumped = [r \in Relay |-> {}]
    /\ faults = 0

-----------------------------------------------------------------------------
(* A batch of the reminder scheduler commits and its rows become visible   *)
(* together.  Clocks of writers differ and transactions overlap, so this   *)
(* may happen out of rank order.                                           *)
CreateEvents ==
    /\ \E new \in SUBSET (Event \ rows) : new # {} /\ rows' = rows \cup new
    /\ UNCHANGED <<published, attempts, log, tx, faults>>

(* Rows locked by SELECT ... FOR UPDATE until r's transaction ends. *)
Locked(r) == batch[r] \cup marked[r] \cup bumped[r]

(* What the claiming SELECT of a relay sees: unpublished, not locked. *)
Claimable == {e \in rows \ published : \A r \in Relay : e \notin Locked(r)}

(* ORDER BY created_at, id LIMIT BatchSize. *)
IsOldestBatch(S, from) ==
    /\ S \subseteq from
    /\ Cardinality(S) <= BatchSize
    /\ S # from => Cardinality(S) = BatchSize
    /\ \A e \in S, f \in from \ S : e < f

Claim(r) ==
    /\ phase[r] = "idle"
    /\ \E S \in SUBSET Claimable :
          /\ S # {}
          /\ IsOldestBatch(S, Claimable)
          /\ batch' = [batch EXCEPT ![r] = S]
    /\ phase' = [phase EXCEPT ![r] = "publish"]
    /\ UNCHANGED <<tables, log, marked, bumped, faults>>

(* The event the loop over the claimed rows handles now. *)
IsNext(r, e) == e \in batch[r] /\ \A f \in batch[r] : e <= f

(* ProduceSync returned without an error: the broker has the record. *)
Publish(r) ==
    /\ phase[r] = "publish"
    /\ \E e \in batch[r] : IsNext(r, e) /\ log' = Append(log, e)
    /\ phase' = [phase EXCEPT ![r] = "mark"]
    /\ UNCHANGED <<tables, batch, marked, bumped, faults>>

(* MarkPublished inside the open transaction. *)
MarkPublished(r) ==
    /\ phase[r] = "mark"
    /\ \E e \in batch[r] :
          /\ IsNext(r, e)
          /\ batch' = [batch EXCEPT ![r] = @ \ {e}]
          /\ marked' = [marked EXCEPT ![r] = @ \cup {e}]
    /\ phase' = [phase EXCEPT ![r] = "publish"]
    /\ UNCHANGED <<tables, log, bumped, faults>>

(* Mutant of PublishFails: the error of Publish is swallowed. *)
PublishErrorIgnored(r) ==
    /\ phase[r] = "publish"
    /\ \E e \in batch[r] : IsNext(r, e)
    /\ phase' = [phase EXCEPT ![r] = "mark"]
    /\ UNCHANGED <<tables, log, batch, marked, bumped, faults>>

(* ProduceSync returned an error, which says nothing of whether the broker *)
(* stored the record; IncrementAttempts keeps the row unpublished.         *)
PublishFails(r) ==
    /\ phase[r] = "publish"
    /\ faults < RelayFaults
    /\ faults' = faults + 1
    /\ \E e \in batch[r] :
          /\ IsNext(r, e)
          /\ log' \in {log, Append(log, e)}
          /\ batch' = [batch EXCEPT ![r] = @ \ {e}]
          /\ bumped' = [bumped EXCEPT ![r] = @ \cup {e}]
    /\ UNCHANGED <<tables, phase, marked>>

(* Mutant of EndTransaction: the rows of a failed publish stay locked. *)
EndKeepsLocks(r) ==
    /\ phase' = [phase EXCEPT ![r] = "idle"]
    /\ batch' = [batch EXCEPT ![r] = {}]
    /\ marked' = [marked EXCEPT ![r] = {}]
    /\ UNCHANGED bumped

(* The end of the transaction releases its locks and forgets its writes. *)
EndTransaction(r) ==
    /\ phase' = [phase EXCEPT ![r] = "idle"]
    /\ batch' = [batch EXCEPT ![r] = {}]
    /\ marked' = [marked EXCEPT ![r] = {}]
    /\ bumped' = [bumped EXCEPT ![r] = {}]

(* Mutant of Commit: the marks are lost. *)
CommitForgetsMarks(r) ==
    /\ phase[r] = "publish"
    /\ batch[r] = {}
    /\ EndTransaction(r)
    /\ UNCHANGED <<tables, log, faults>>

Commit(r) ==
    /\ phase[r] = "publish"
    /\ batch[r] = {}
    /\ published' = published \cup marked[r]
    /\ attempts' = [e \in Event |-> IF e \in bumped[r] THEN attempts[e] + 1 ELSE attempts[e]]
    /\ EndTransaction(r)
    /\ UNCHANGED <<rows, log, faults>>

(* A crash, a cancelled context, a failed statement (MarkPublished,        *)
(* IncrementAttempts) or a failed COMMIT.  Run logs the error and polls    *)
(* again; after a crash the process is started again.                      *)
Rollback(r) ==
    /\ phase[r] # "idle"
    /\ faults < RelayFaults
    /\ faults' = faults + 1
    /\ EndTransaction(r)
    /\ UNCHANGED <<tables, log>>

-----------------------------------------------------------------------------
Progress(r) == Claim(r) \/ Publish(r) \/ MarkPublished(r) \/ Commit(r)
RelayStep(r) == Progress(r) \/ PublishFails(r) \/ Rollback(r)

OutboxNext == CreateEvents \/ (\E r \in Relay : RelayStep(r))

OutboxSpec == OutboxInit /\ [][OutboxNext]_outboxVars

(* The relay's loop runs on a ticker and never returns on an error, and    *)
(* every call it makes ends (statements and ProduceSync return).           *)
OutboxFairness == \A r \in Relay : WF_outboxVars(Progress(r))

OutboxFairSpec == OutboxSpec /\ OutboxFairness

-----------------------------------------------------------------------------
OutboxTypeOK ==
    /\ rows \subseteq Event
    /\ published \subseteq rows
    /\ attempts \in [Event -> Nat]
    /\ log \in Seq(Event)
    /\ phase \in [Relay -> {"idle", "publish", "mark"}]
    /\ batch \in [Relay -> SUBSET rows]
    /\ marked \in [Relay -> SUBSET rows]
    /\ bumped \in [Relay -> SUBSET rows]
    /\ faults \in 0..RelayFaults

InLog(e) == \E i \in DOMAIN log : log[i] = e
Copies(s, e) == Cardinality({i \in DOMAIN s : s[i] = e})

(* A row marked published has its record in Kafka, whatever was rolled     *)
(* back, retried or sent twice before (relay.go: Publish, then             *)
(* MarkPublished; an event dropped here is never delivered).               *)
PublishedIsInLog == \A e \in published : InLog(e)

(* No two relays work on the same row, although both poll the same table   *)
(* (FOR UPDATE SKIP LOCKED in ClaimUnpublished).                           *)
NoSharedClaim ==
    \A r, s \in Relay : r # s => Locked(r) \cap Locked(s) = {}

(* A record is duplicated only by a fault: without one, each event reaches *)
(* Kafka exactly once, whatever the relays' interleaving (at-least-once    *)
(* delivery of relay.go whose duplicates are the price of failures).       *)
DuplicatesNeedFaults == \A e \in Event : Copies(log, e) <= 1 + faults

(* Every committed row is eventually marked published once faults stop. *)
EventuallyPublished == \A e \in Event : e \in rows ~> e \in published
=============================================================================
