------------------------------- MODULE Outbox -------------------------------
(***************************************************************************)
(* The transactional outbox (infrastructure/events): rows of               *)
(* outbox_events, and the relays, one per API or worker process, that poll *)
(* them, POST them to the configured endpoint and record the outcome.      *)
(*                                                                         *)
(* A database statement in its own transaction is one step; the network    *)
(* call lies between two steps, so that relays, crashes and lost commit    *)
(* acknowledgements interleave with it.  Time appears only as the order in *)
(* which rows become available: due is the list of the waiting rows whose  *)
(* available_at has passed, oldest first.                                  *)
(***************************************************************************)
EXTENDS Naturals, Sequences

CONSTANTS Events,       \* event ids: each is enqueued at most once
          Relays,       \* processes that run OutboxRelay
          BatchSize,    \* config.outbox.batchSize
          MaxAttempts,  \* MAX_ATTEMPTS, 10 in the source
          NoRow,        \* stands for no current row
          MaxOutboxFaults \* bound on crashes, shutdowns and failed updates

ASSUME BatchSizePositive == BatchSize \in Nat \ {0}
ASSUME MaxAttemptsPositive == MaxAttempts \in Nat \ {0}
ASSUME MaxOutboxFaultsNat == MaxOutboxFaults \in Nat

VARIABLES
  outboxStatus, \* outbox_events.status; "ABSENT" before the insert commits
  attempts,     \* outbox_events.attempts, saturating at AttemptCap
  due,          \* waiting rows with available_at <= now(), in that order
  drainPhase,   \* where each relay is in drain()
  batch,        \* rows returned by claimBatch and not yet processed
  current,      \* the row the loop is working on
  stopped,      \* OutboxRelay.stopped
  delivered,    \* events the endpoint has received (history)
  excused,      \* events some attempt of which was reported failed (history)
  stranded,     \* claimed rows whose relay went away (history)
  outboxFaults  \* faults so far, at most MaxOutboxFaults

rowVars == <<outboxStatus, attempts, due>>
relayVars == <<drainPhase, batch, current, stopped>>
history == <<delivered, excused, stranded>>
outboxVars == <<rowVars, relayVars, history, outboxFaults>>

Statuses == {"ABSENT", "PENDING", "PUBLISHING", "PUBLISHED", "FAILED"}
DrainPhases == {"idle", "looping", "publishing", "accepted", "failed"}

\* attempts is only compared with MaxAttempts, so counting stops above it.
AttemptCap == MaxAttempts + 1
Bump(n) == IF n < AttemptCap THEN n + 1 ELSE n

ClaimedRows == [id : Events, attempts : 0..AttemptCap]
ASSUME NoRowDistinct == NoRow \notin ClaimedRows

\* The rows relay r still has in hand: what is left of its batch and current.
Hand(r) == batch[r] \union (IF current[r] = NoRow THEN {} ELSE {current[r]})
Holds(r, e) == \E row \in Hand(r) : row.id = e

OutboxTypeOK ==
  /\ outboxStatus \in [Events -> Statuses]
  /\ attempts \in [Events -> 0..AttemptCap]
  /\ due \in Seq(Events)
  /\ drainPhase \in [Relays -> DrainPhases]
  /\ batch \in [Relays -> SUBSET ClaimedRows]
  /\ current \in [Relays -> ClaimedRows \union {NoRow}]
  /\ stopped \in [Relays -> BOOLEAN]
  /\ delivered \subseteq Events
  /\ excused \subseteq Events
  /\ stranded \subseteq Events
  /\ outboxFaults \in 0..MaxOutboxFaults

OutboxInit ==
  /\ outboxStatus = [e \in Events |-> "ABSENT"]
  /\ attempts = [e \in Events |-> 0]
  /\ due = <<>>
  /\ drainPhase = [r \in Relays |-> "idle"]
  /\ batch = [r \in Relays |-> {}]
  /\ current = [r \in Relays |-> NoRow]
  /\ stopped = [r \in Relays |-> FALSE]
  /\ delivered = {}
  /\ excused = {}
  /\ stranded = {}
  /\ outboxFaults = 0

\* Something goes wrong or a process ends; MaxOutboxFaults bounds how often.
Fault == outboxFaults < MaxOutboxFaults /\ outboxFaults' = outboxFaults + 1

-----------------------------------------------------------------------------
(* Producers and time *)

\* s with x inserted behind its first i elements
InsertAfter(s, i, x) ==
  [k \in 1..Len(s) + 1 |->
     IF k <= i THEN s[k] ELSE IF k = i + 1 THEN x ELSE s[k - 1]]

\* A domain transaction commits with its event.  availableAt is the event's
\* occurredAt, taken before the commit, so older rows may appear after newer.
Enqueue(e) ==
  /\ outboxStatus[e] = "ABSENT"
  /\ outboxStatus' = [outboxStatus EXCEPT ![e] = "PENDING"]
  /\ \E i \in 0..Len(due) :
       due' = InsertAfter(due, i, e)
  /\ UNCHANGED <<attempts, relayVars, history, outboxFaults>>

IsDue(e) == \E i \in 1..Len(due) : due[i] = e

\* The backoff of a failed row elapses.
BecomeDue(e) ==
  /\ outboxStatus[e] = "PENDING"
  /\ ~IsDue(e)
  /\ due' = Append(due, e)
  /\ UNCHANGED <<outboxStatus, attempts, relayVars, history, outboxFaults>>

-----------------------------------------------------------------------------
(* One drain cycle *)

\* The first rows of the due list, at most BatchSize of them.
ClaimSize == IF Len(due) < BatchSize THEN Len(due) ELSE BatchSize
Claimed == {due[i] : i \in 1..ClaimSize}

\* Faulty variant: the rows are selected FOR UPDATE and never updated.
ClaimKeepsRows(r) ==
  /\ drainPhase[r] = "idle" /\ ~stopped[r]
  /\ due # <<>>
  /\ batch' = [batch EXCEPT ![r] = {[id |-> e, attempts |-> attempts[e]] : e \in Claimed}]
  /\ drainPhase' = [drainPhase EXCEPT ![r] = "looping"]
  /\ UNCHANGED <<rowVars, current, stopped, history, outboxFaults>>

\* Faulty variant: the attempt is not counted.
ClaimUncounted(r) ==
  /\ drainPhase[r] = "idle" /\ ~stopped[r]
  /\ due # <<>>
  /\ outboxStatus' = [e \in Events |->
                  IF e \in Claimed THEN "PUBLISHING" ELSE outboxStatus[e]]
  /\ due' = SubSeq(due, ClaimSize + 1, Len(due))
  /\ batch' = [batch EXCEPT ![r] = {[id |-> e, attempts |-> attempts[e]] : e \in Claimed}]
  /\ drainPhase' = [drainPhase EXCEPT ![r] = "looping"]
  /\ UNCHANGED <<attempts, current, stopped, history, outboxFaults>>

\* drain() starts and claimBatch commits: the rows change hands in one UPDATE.
\* With nothing due, or when the UPDATE fails, drain() returns unchanged.
Claim(r) ==
  /\ drainPhase[r] = "idle" /\ ~stopped[r]
  /\ due # <<>>
  /\ outboxStatus' = [e \in Events |->
                  IF e \in Claimed THEN "PUBLISHING" ELSE outboxStatus[e]]
  /\ attempts' = [e \in Events |->
                  IF e \in Claimed THEN Bump(attempts[e]) ELSE attempts[e]]
  /\ due' = SubSeq(due, ClaimSize + 1, Len(due))
  /\ batch' = [batch EXCEPT ![r] =
                 {[id |-> e, attempts |-> Bump(attempts[e])] : e \in Claimed}]
  /\ drainPhase' = [drainPhase EXCEPT ![r] = "looping"]
  /\ UNCHANGED <<current, stopped, history, outboxFaults>>

\* The loop takes a row; UPDATE ... RETURNING promises no order.
TakeRow(r) ==
  /\ drainPhase[r] = "looping"
  /\ \E row \in batch[r] :
       /\ current' = [current EXCEPT ![r] = row]
       /\ batch' = [batch EXCEPT ![r] = @ \ {row}]
  /\ drainPhase' = [drainPhase EXCEPT ![r] = "publishing"]
  /\ UNCHANGED <<rowVars, stopped, history, outboxFaults>>

\* publish() resolves: the endpoint received the event and said so.
PublishOk(r) ==
  /\ drainPhase[r] = "publishing"
  /\ delivered' = delivered \union {current[r].id}
  /\ drainPhase' = [drainPhase EXCEPT ![r] = "accepted"]
  /\ UNCHANGED <<rowVars, batch, current, stopped, excused, stranded, outboxFaults>>

\* Faulty variant: the adapter does not look at response.ok.
PublishErrorSwallowed(r) ==
  /\ drainPhase[r] = "publishing"
  /\ drainPhase' = [drainPhase EXCEPT ![r] = "accepted"]
  /\ UNCHANGED <<rowVars, batch, current, stopped, history, outboxFaults>>

\* publish() rejects: refused, unreachable, or timed out after it was received.
PublishError(r) ==
  /\ drainPhase[r] = "publishing"
  /\ \/ delivered' = delivered
     \/ delivered' = delivered \union {current[r].id}
  /\ excused' = excused \union {current[r].id}
  /\ drainPhase' = [drainPhase EXCEPT ![r] = "failed"]
  /\ UNCHANGED <<rowVars, batch, current, stopped, stranded, outboxFaults>>

\* The row is done with and the loop continues.
NextRow(r) ==
  /\ current' = [current EXCEPT ![r] = NoRow]
  /\ drainPhase' = [drainPhase EXCEPT ![r] = "looping"]
  /\ UNCHANGED <<batch, stopped>>

MarkPublished(r) ==
  /\ drainPhase[r] = "accepted"
  /\ outboxStatus' = [outboxStatus EXCEPT ![current[r].id] = "PUBLISHED"]
  /\ NextRow(r)
  /\ UNCHANGED <<attempts, due, history, outboxFaults>>

\* markPublished rejects, before or after its transaction took effect: it is
\* inside the try, so the row goes on to markFailed.
MarkPublishedError(r) ==
  /\ drainPhase[r] = "accepted"
  /\ Fault
  /\ \/ outboxStatus' = outboxStatus
     \/ outboxStatus' = [outboxStatus EXCEPT ![current[r].id] = "PUBLISHED"]
  /\ excused' = excused \union {current[r].id}
  /\ drainPhase' = [drainPhase EXCEPT ![r] = "failed"]
  /\ UNCHANGED <<attempts, due, batch, current, stopped, delivered, stranded>>

\* Faulty variant: a status the column does not have.
RecordFailureDead(row) ==
  /\ outboxStatus' = [outboxStatus EXCEPT ![row.id] = "DEAD"]
  /\ due' = due

\* markFailed's UPDATE, which does not look at the row's present status.  An
\* exhausted row gets availableAt = now, so it is due again at once.
RecordFailure(row) ==
  IF row.attempts >= MaxAttempts
  THEN /\ outboxStatus' = [outboxStatus EXCEPT ![row.id] = "FAILED"]
       /\ due' = Append(due, row.id)
  ELSE /\ outboxStatus' = [outboxStatus EXCEPT ![row.id] = "PENDING"]
       /\ due' = due

MarkFailed(r) ==
  /\ drainPhase[r] = "failed"
  /\ RecordFailure(current[r])
  /\ NextRow(r)
  /\ UNCHANGED <<attempts, history, outboxFaults>>

\* The relay forgets its rows; those still PUBLISHING belong to nobody.
Abandon(r) ==
  /\ batch' = [batch EXCEPT ![r] = {}]
  /\ current' = [current EXCEPT ![r] = NoRow]
  /\ drainPhase' = [drainPhase EXCEPT ![r] = "idle"]
  /\ stranded' = stranded \union
       {e \in Events : Holds(r, e) /\ outboxStatus'[e] = "PUBLISHING"}

\* markFailed rejects, before or after its transaction took effect: the error
\* leaves the loop, and the rest of the batch is never looked at again.
MarkFailedError(r) ==
  /\ drainPhase[r] = "failed"
  /\ Fault
  /\ \/ UNCHANGED <<outboxStatus, due>>
     \/ RecordFailure(current[r])
  /\ Abandon(r)
  /\ UNCHANGED <<attempts, stopped, delivered, excused>>

\* The batch is exhausted: finally { running = false }.
EndDrain(r) ==
  /\ drainPhase[r] = "looping"
  /\ batch[r] = {}
  /\ drainPhase' = [drainPhase EXCEPT ![r] = "idle"]
  /\ UNCHANGED <<rowVars, batch, current, stopped, history, outboxFaults>>

-----------------------------------------------------------------------------
(* Processes *)

\* onModuleDestroy: no further drain starts; the one under way goes on.
Stop(r) ==
  /\ ~stopped[r]
  /\ Fault
  /\ stopped' = [stopped EXCEPT ![r] = TRUE]
  /\ UNCHANGED <<rowVars, drainPhase, batch, current, history>>

\* Faulty variant: the successor releases every row its predecessor held.
ExitReleases(r) ==
  /\ drainPhase[r] # "idle" /\ Fault
  /\ outboxStatus' = [e \in Events |-> IF Holds(r, e) THEN "PENDING" ELSE outboxStatus[e]]
  /\ Abandon(r)
  /\ stopped' = [stopped EXCEPT ![r] = FALSE]
  /\ UNCHANGED <<attempts, due, delivered, excused>>

\* The process ends, by a crash or some time after Stop, and its successor
\* starts.  Nothing waits for a drain that is under way.
Exit(r) ==
  /\ \/ stopped[r] /\ outboxFaults' = outboxFaults
     \/ ~stopped[r] /\ drainPhase[r] # "idle" /\ Fault
  /\ UNCHANGED <<rowVars, delivered, excused>>
  /\ Abandon(r)
  /\ stopped' = [stopped EXCEPT ![r] = FALSE]

-----------------------------------------------------------------------------
DrainStep(r) ==
  \/ TakeRow(r)
  \/ PublishOk(r)
  \/ PublishError(r)
  \/ MarkPublished(r)
  \/ MarkPublishedError(r)
  \/ MarkFailed(r)
  \/ MarkFailedError(r)
  \/ EndDrain(r)

OutboxNext ==
  \/ \E e \in Events : Enqueue(e) \/ BecomeDue(e)
  \/ \E r \in Relays : Claim(r) \/ DrainStep(r) \/ Stop(r) \/ Exit(r)

(***************************************************************************)
(* The poll timer of every running process fires again and again, an       *)
(* awaited call settles, the orchestrator replaces a stopped process, and  *)
(* time passes.  Nothing obliges the endpoint to accept, a producer to     *)
(* enqueue or a process to stop.                                           *)
(***************************************************************************)
Fairness ==
  /\ \A r \in Relays : WF_outboxVars(Claim(r)) /\ WF_outboxVars(DrainStep(r))
  /\ \A r \in Relays : WF_outboxVars(stopped[r] /\ drainPhase[r] = "idle" /\ Exit(r))
  /\ \A e \in Events : WF_outboxVars(BecomeDue(e))

OutboxSpec == OutboxInit /\ [][OutboxNext]_outboxVars
FairOutboxSpec == OutboxSpec /\ Fairness

-----------------------------------------------------------------------------
(* Properties *)

\* "Only the claiming instance sees these rows": no two relays hold the same
\* row, a relay holds it once and with the attempt count that is in the table,
\* and a PUBLISHING row is in somebody's hand unless its relay went away.
HandsDisjoint ==
  \A r1, r2 \in Relays : \A row1 \in Hand(r1), row2 \in Hand(r2) :
    row1.id = row2.id => r1 = r2 /\ row1 = row2
HandsCurrent ==
  \A r \in Relays : \A row \in Hand(r) : row.attempts = attempts[row.id]
PublishingOwned ==
  \A e \in Events : outboxStatus[e] = "PUBLISHING" =>
    e \in stranded \/ \E r \in Relays : Holds(r, e)
ClaimExclusive == HandsDisjoint /\ HandsCurrent /\ PublishingOwned

\* Running several relays does not duplicate a delivery: the endpoint sees an
\* event again only after an attempt at it was reported as failed.
Delivers(r) == drainPhase[r] = "publishing" /\ drainPhase'[r] \in {"accepted", "failed"}
NoSpuriousDuplicate ==
  [][\A r \in Relays : \A e \in Events :
       (Delivers(r) /\ current[r].id = e /\ e \in delivered) => e \in excused]_outboxVars

\* The rows and relays implement the promise of EventDelivery: an event is
\* never PUBLISHED before the endpoint received it, nor sent once it is.
Promise == INSTANCE EventDelivery WITH
  accepted <- {e \in Events : outboxStatus[e] # "ABSENT"},
  received <- delivered,
  retired <- {e \in Events : outboxStatus[e] = "PUBLISHED"}
ImplementsEventDelivery == Promise!Spec

\* Every enqueued event is published in the end or has used up its attempts,
\* unless its relay went away with the row claimed: no event waits for ever for
\* its first attempt or for its next, whatever the endpoint answers.
Settles ==
  \A e \in Events :
    outboxStatus[e] # "ABSENT" ~>
      (outboxStatus[e] = "PUBLISHED" \/ attempts[e] >= MaxAttempts \/ e \in stranded)

\* "... until the attempt budget is exhausted, at which point it is parked as
\* FAILED with the last error preserved for an operator to inspect"
\* (outbox.service.ts:94-98): a FAILED event stays as it is.  It does not:
\* claimBatch selects FAILED rows, and availableAt is now.
ExhaustedIsParked ==
  [][\A e \in Events : outboxStatus[e] = "FAILED" => outboxStatus'[e] = "FAILED"]_outboxVars
=============================================================================
