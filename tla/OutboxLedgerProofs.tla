------------------------- MODULE OutboxLedgerProofs -------------------------
(***************************************************************************)
(* Proofs about Outbox, for any sets of events and relays, any batch size  *)
(* and any number of attempts and faults, and about Ledger, for any sets   *)
(* of documents, periods and requests and any number of journals.  The two *)
(* are not composed: each theorem is about the behaviours of one of them.  *)
(***************************************************************************)
EXTENDS Outbox, Ledger, FiniteSetTheorems, TLAPS

-----------------------------------------------------------------------------
(* Outbox: the inductive invariant *)

\* drainPhase says what the relay has in hand.
PhaseShape ==
  \A r \in Relays :
    /\ drainPhase[r] = "idle" => batch[r] = {} /\ current[r] = NoRow
    /\ drainPhase[r] = "looping" => current[r] = NoRow
    /\ drainPhase[r] \in {"publishing", "accepted", "failed"} =>
         current[r] \in ClaimedRows \ batch[r]

\* due lists waiting rows, each once.
DueWaiting == \A i \in 1..Len(due) : outboxStatus[due[i]] \in {"PENDING", "FAILED"}
DueDistinct == \A i, j \in 1..Len(due) : due[i] = due[j] => i = j

\* A row in hand is PUBLISHING, but for one whose markPublished took effect
\* and was then reported as failed.
HandStatus ==
  \A r \in Relays : \A row \in Hand(r) :
    \/ outboxStatus[row.id] = "PUBLISHING"
    \/ drainPhase[r] = "failed" /\ row = current[r] /\ outboxStatus[row.id] = "PUBLISHED"

StrandedAlone ==
  \A e \in stranded : outboxStatus[e] = "PUBLISHING" /\ \A r \in Relays : ~Holds(r, e)

PublishedDelivered == \A e \in Events : outboxStatus[e] = "PUBLISHED" => e \in delivered
AcceptedDelivered ==
  \A r \in Relays : drainPhase[r] = "accepted" => current[r].id \in delivered

\* An event that arrived, and of which no attempt was reported as failed, is
\* about to be published, is published, or went away with its relay.
DeliveredShape ==
  \A e \in delivered \ excused :
    \/ outboxStatus[e] = "PUBLISHED"
    \/ e \in stranded
    \/ \E r \in Relays : drainPhase[r] = "accepted" /\ current[r].id = e

FailedExcused ==
  \A r \in Relays : drainPhase[r] = "failed" => current[r].id \in excused

IInv ==
  /\ OutboxTypeOK
  /\ PhaseShape
  /\ DueWaiting
  /\ DueDistinct
  /\ HandsDisjoint
  /\ HandsCurrent
  /\ HandStatus
  /\ PublishingOwned
  /\ StrandedAlone
  /\ PublishedDelivered
  /\ AcceptedDelivered
  /\ FailedExcused
  /\ DeliveredShape

-----------------------------------------------------------------------------
(* Type correctness *)

USE BatchSizePositive, MaxAttemptsPositive, MaxOutboxFaultsNat

LEMMA BumpType == \A n \in 0..AttemptCap : Bump(n) \in 0..AttemptCap
  BY DEF Bump, AttemptCap

LEMMA ClaimSizeType == due \in Seq(Events) => ClaimSize \in 0..Len(due)
  BY DEF ClaimSize

LEMMA InsertAfterType ==
  ASSUME NEW S, NEW s \in Seq(S), NEW x \in S, NEW i \in 0..Len(s)
  PROVE  /\ InsertAfter(s, i, x) \in Seq(S)
         /\ Len(InsertAfter(s, i, x)) = Len(s) + 1
  BY DEF InsertAfter

\* TypeOK is inductive together with PhaseShape: a relay in the middle of a
\* row has one.
TypeInv == OutboxTypeOK /\ PhaseShape

LEMMA CurrentRow ==
  ASSUME TypeInv, NEW r \in Relays, drainPhase[r] \in {"publishing", "accepted", "failed"}
  PROVE  /\ current[r] \in ClaimedRows
         /\ current[r].id \in Events
         /\ current[r].attempts \in 0..AttemptCap
  BY DEF TypeInv, PhaseShape, ClaimedRows

LEMMA RecordFailureType ==
  ASSUME OutboxTypeOK, NEW row \in ClaimedRows, RecordFailure(row)
  PROVE  outboxStatus' \in [Events -> Statuses] /\ due' \in Seq(Events)
  <1>1. row.id \in Events
    BY DEF ClaimedRows
  <1>2. CASE row.attempts >= MaxAttempts
    <2>1. outboxStatus' = [outboxStatus EXCEPT ![row.id] = "FAILED"] /\ due' = Append(due, row.id)
      BY <1>2 DEF RecordFailure
    <2> QED BY <1>1, <2>1 DEF OutboxTypeOK, Statuses
  <1>3. CASE ~(row.attempts >= MaxAttempts)
    <2>1. outboxStatus' = [outboxStatus EXCEPT ![row.id] = "PENDING"] /\ due' = due
      BY <1>3 DEF RecordFailure
    <2> QED BY <1>1, <2>1 DEF OutboxTypeOK, Statuses
  <1> QED BY <1>2, <1>3

LEMMA TypeInit == OutboxInit => TypeInv
  BY DEF OutboxInit, TypeInv, OutboxTypeOK, PhaseShape, Statuses, DrainPhases, AttemptCap

LEMMA TypeStep == TypeInv /\ [OutboxNext]_outboxVars => TypeInv'
  <1> SUFFICES ASSUME TypeInv, [OutboxNext]_outboxVars PROVE TypeInv'
    OBVIOUS
  <1> USE NoRowDistinct
      DEF TypeInv, OutboxTypeOK, PhaseShape, Statuses, DrainPhases, rowVars, relayVars, history
  <1>1. ASSUME NEW e \in Events, Enqueue(e) PROVE TypeInv'
    <2>1. due' \in Seq(Events)
      BY <1>1, InsertAfterType DEF Enqueue
    <2> QED BY <1>1, <2>1 DEF Enqueue
  <1>2. ASSUME NEW e \in Events, BecomeDue(e) PROVE TypeInv'
    BY <1>2 DEF BecomeDue
  <1>3. ASSUME NEW r \in Relays, Claim(r) PROVE TypeInv'
    <2>1. due' \in Seq(Events)
      BY <1>3, ClaimSizeType DEF Claim
    <2>2. attempts' \in [Events -> 0..AttemptCap]
      BY <1>3, BumpType DEF Claim
    <2>3. {[id |-> e, attempts |-> Bump(attempts[e])] : e \in Claimed} \subseteq ClaimedRows
      BY BumpType, ClaimSizeType DEF Claimed, ClaimedRows
    <2>4. batch' \in [Relays -> SUBSET ClaimedRows]
      BY <1>3, <2>3 DEF Claim
    <2> QED BY <1>3, <2>1, <2>2, <2>4 DEF Claim
  <1>4. ASSUME NEW r \in Relays, TakeRow(r) PROVE TypeInv'
    BY <1>4 DEF TakeRow
  <1>5. ASSUME NEW r \in Relays, PublishOk(r) PROVE TypeInv'
    BY <1>5, CurrentRow DEF PublishOk
  <1>6. ASSUME NEW r \in Relays, PublishError(r) PROVE TypeInv'
    BY <1>6, CurrentRow DEF PublishError
  <1>7. ASSUME NEW r \in Relays, MarkPublished(r) PROVE TypeInv'
    BY <1>7, CurrentRow DEF MarkPublished, NextRow
  <1>8. ASSUME NEW r \in Relays, MarkPublishedError(r) PROVE TypeInv'
    <2>1. outboxStatus' \in [Events -> Statuses] /\ excused' \subseteq Events
      BY <1>8, CurrentRow DEF MarkPublishedError
    <2> QED BY <1>8, <2>1, CurrentRow DEF MarkPublishedError, Fault
  <1>9. ASSUME NEW r \in Relays, MarkFailed(r) PROVE TypeInv'
    <2>1. outboxStatus' \in [Events -> Statuses] /\ due' \in Seq(Events)
      BY <1>9, CurrentRow, RecordFailureType DEF MarkFailed
    <2> QED BY <1>9, <2>1 DEF MarkFailed, NextRow
  <1>10. ASSUME NEW r \in Relays, MarkFailedError(r) PROVE TypeInv'
    <2>1. outboxStatus' \in [Events -> Statuses] /\ due' \in Seq(Events)
      BY <1>10, CurrentRow, RecordFailureType DEF MarkFailedError
    <2> QED BY <1>10, <2>1 DEF MarkFailedError, Abandon, Fault
  <1>11. ASSUME NEW r \in Relays, EndDrain(r) PROVE TypeInv'
    BY <1>11 DEF EndDrain
  <1>12. ASSUME NEW r \in Relays, Stop(r) PROVE TypeInv'
    BY <1>12 DEF Stop, Fault
  <1>13. ASSUME NEW r \in Relays, Exit(r) PROVE TypeInv'
    BY <1>13 DEF Exit, Abandon, Fault
  <1>14. CASE UNCHANGED outboxVars
    BY <1>14 DEF outboxVars
  <1> QED
    BY <1>1, <1>2, <1>3, <1>4, <1>5, <1>6, <1>7, <1>8, <1>9, <1>10, <1>11,
       <1>12, <1>13, <1>14 DEF OutboxNext, DrainStep

\* Type correctness: statuses, counters, batches and phases keep their types
\* through every drain, failed statement, crash and restart.
THEOREM TypeCorrect == OutboxSpec => []OutboxTypeOK
  <1>1. TypeInv => OutboxTypeOK
    BY DEF TypeInv
  <1> QED BY <1>1, TypeInit, TypeStep, PTL DEF OutboxSpec

-----------------------------------------------------------------------------
(* Safety *)

LEMMA SafeInit == OutboxInit => IInv
  <1> SUFFICES ASSUME OutboxInit PROVE IInv
    OBVIOUS
  <1>1. TypeInv /\ due = <<>> /\ \A r \in Relays : Hand(r) = {}
    BY TypeInit DEF OutboxInit, Hand
  <1> QED
    BY <1>1 DEF OutboxInit, IInv, TypeInv, DueWaiting, DueDistinct, HandsDisjoint,
       HandsCurrent, HandStatus, PublishingOwned, StrandedAlone, PublishedDelivered,
       AcceptedDelivered, DeliveredShape, FailedExcused

\* Producers and time touch no row in hand.
LEMMA SafeEnqueue ==
  ASSUME IInv, NEW e \in Events, Enqueue(e)
  PROVE  IInv'
  <1> USE DEF IInv, TypeInv
  <1>1. /\ \A r \in Relays : Hand(r)' = Hand(r) /\ \A x \in Events : Holds(r, x)' = Holds(r, x)
        /\ UNCHANGED <<attempts, drainPhase, batch, current, stopped, delivered, excused, stranded>>
    BY DEF Enqueue, Hand, Holds, relayVars, history
  <1>2. outboxStatus[e] = "ABSENT" /\ outboxStatus' = [outboxStatus EXCEPT ![e] = "PENDING"]
    BY DEF Enqueue
  <1>3. \A k \in 1..Len(due) : due[k] # e
    BY <1>2 DEF DueWaiting, OutboxTypeOK
  <1>4. PICK i \in 0..Len(due) : due' = InsertAfter(due, i, e)
    BY DEF Enqueue
  <1>5. /\ Len(due') = Len(due) + 1 /\ Len(due) \in Nat
        /\ \A k \in 1..Len(due) + 1 :
             due'[k] = IF k <= i THEN due[k] ELSE IF k = i + 1 THEN e ELSE due[k - 1]
    BY <1>4, InsertAfterType DEF OutboxTypeOK, InsertAfter
  <1>6. DueWaiting'
    <2> SUFFICES ASSUME NEW k \in 1..Len(due) + 1
                 PROVE  outboxStatus'[due'[k]] \in {"PENDING", "FAILED"}
      BY <1>5 DEF DueWaiting
    <2>1. CASE k = i + 1
      BY <2>1, <1>2, <1>5 DEF OutboxTypeOK
    <2>2. CASE k # i + 1
      <3>1. PICK j \in 1..Len(due) : due'[k] = due[j]
        BY <2>2, <1>5
      <3> QED BY <3>1, <1>2, <1>3 DEF DueWaiting, OutboxTypeOK
    <2> QED BY <2>1, <2>2
  <1>7. DueDistinct'
    <2> SUFFICES ASSUME NEW k \in 1..Len(due) + 1, NEW l \in 1..Len(due) + 1,
                        due'[k] = due'[l]
                 PROVE  k = l
      BY <1>5 DEF DueDistinct
    <2> DEFINE old(m) == IF m <= i THEN m ELSE m - 1
    <2>1. \A m \in 1..Len(due) + 1 :
            m # i + 1 => old(m) \in 1..Len(due) /\ due'[m] = due[old(m)]
      BY <1>5
    <2>2. due'[i + 1] = e
      BY <1>5
    <2>3. k = i + 1 <=> l = i + 1
      BY <2>1, <2>2, <1>3
    <2>4. CASE k # i + 1 /\ l # i + 1
      <3>1. old(k) = old(l)
        BY <2>1, <2>4 DEF DueDistinct
      <3> QED BY <2>4, <3>1
    <2> QED BY <2>3, <2>4
  <1>8. (HandsDisjoint /\ HandsCurrent /\ HandStatus)'
    BY <1>1, <1>2 DEF HandsDisjoint, HandsCurrent, HandStatus, OutboxTypeOK
  <1>9. (PublishingOwned /\ StrandedAlone)'
    BY <1>1, <1>2 DEF PublishingOwned, StrandedAlone, OutboxTypeOK
  <1>10. (PublishedDelivered /\ AcceptedDelivered /\ FailedExcused /\ DeliveredShape)'
    BY <1>1, <1>2 DEF PublishedDelivered, AcceptedDelivered, FailedExcused, DeliveredShape, OutboxTypeOK
  <1>11. TypeInv'
    BY TypeStep DEF OutboxNext
  <1> QED BY <1>6, <1>7, <1>8, <1>9, <1>10, <1>11

LEMMA SafeBecomeDue ==
  ASSUME IInv, NEW e \in Events, BecomeDue(e)
  PROVE  IInv'
  <1> USE DEF IInv, TypeInv
  <1>1. /\ \A r \in Relays : Hand(r)' = Hand(r) /\ \A x \in Events : Holds(r, x)' = Holds(r, x)
        /\ UNCHANGED <<outboxStatus, attempts, drainPhase, batch, current, stopped, delivered,
                       excused, stranded>>
    BY DEF BecomeDue, Hand, Holds, relayVars, history
  <1>2. outboxStatus[e] = "PENDING" /\ due' = Append(due, e) /\ \A k \in 1..Len(due) : due[k] # e
    BY DEF BecomeDue, IsDue
  <1>3. /\ Len(due') = Len(due) + 1 /\ Len(due) \in Nat
        /\ \A k \in 1..Len(due) : due'[k] = due[k]
        /\ due'[Len(due) + 1] = e
    BY <1>2 DEF OutboxTypeOK
  <1>4. (DueWaiting /\ DueDistinct)'
    BY <1>1, <1>2, <1>3 DEF DueWaiting, DueDistinct
  <1>5. (HandsDisjoint /\ HandsCurrent /\ HandStatus)'
    BY <1>1 DEF HandsDisjoint, HandsCurrent, HandStatus
  <1>6. PublishingOwned'
    BY <1>1 DEF PublishingOwned, Holds
  <1>9. StrandedAlone'
    BY <1>1 DEF StrandedAlone, OutboxTypeOK
  <1>7. (PublishedDelivered /\ AcceptedDelivered /\ FailedExcused /\ DeliveredShape)'
    BY <1>1 DEF PublishedDelivered, AcceptedDelivered, FailedExcused, DeliveredShape
  <1>8. TypeInv'
    BY TypeStep DEF OutboxNext
  <1> QED BY <1>4, <1>5, <1>6, <1>7, <1>8, <1>9

LEMMA SafeClaim ==
  ASSUME IInv, NEW r \in Relays, Claim(r)
  PROVE  IInv'
  <1> USE DEF IInv, TypeInv
  <1> DEFINE got == {[id |-> e, attempts |-> Bump(attempts[e])] : e \in Claimed}
  <1>1. /\ Hand(r) = {} /\ Hand(r)' = got
        /\ \A q \in Relays \ {r} : Hand(q)' = Hand(q) /\ drainPhase'[q] = drainPhase[q]
        /\ drainPhase'[r] = "looping" /\ drainPhase[r] = "idle"
        /\ UNCHANGED <<current, delivered, excused, stranded>>
    BY DEF Claim, Hand, PhaseShape, OutboxTypeOK, history
  <1>2. /\ Claimed \subseteq Events
        /\ \A e \in Claimed : outboxStatus[e] \in {"PENDING", "FAILED"}
    BY ClaimSizeType DEF Claimed, DueWaiting, OutboxTypeOK
  <1>3. \A e \in Events : /\ outboxStatus'[e] = IF e \in Claimed THEN "PUBLISHING" ELSE outboxStatus[e]
                          /\ attempts'[e] = IF e \in Claimed THEN Bump(attempts[e]) ELSE attempts[e]
    BY DEF Claim
  <1>4. \A q \in Relays : \A row \in Hand(q) : row \in ClaimedRows /\ row.id \in Events \ Claimed
    <2> SUFFICES ASSUME NEW q \in Relays, NEW row \in Hand(q)
                 PROVE  row \in ClaimedRows /\ row.id \in Events \ Claimed
      OBVIOUS
    <2>1. row \in ClaimedRows /\ row.id \in Events
      BY DEF Hand, OutboxTypeOK, ClaimedRows
    <2>2. outboxStatus[row.id] \notin {"PENDING", "FAILED"}
      BY DEF HandStatus
    <2> QED BY <2>1, <2>2, <1>2
  <1>5. \A e \in Events : outboxStatus[e] \in {"PUBLISHING", "PUBLISHED", "ABSENT"} => e \notin Claimed
    BY <1>2
  <1>6. (DueWaiting /\ DueDistinct)'
    <2>1. /\ ClaimSize \in 0..Len(due) /\ Len(due) \in Nat
          /\ Len(due') = Len(due) - ClaimSize
          /\ \A i \in 1..Len(due) - ClaimSize : due'[i] = due[i + ClaimSize]
      BY ClaimSizeType DEF Claim, OutboxTypeOK
    <2>2. \A i \in 1..Len(due) - ClaimSize :
            i + ClaimSize \in 1..Len(due) /\ due[i + ClaimSize] \in Events \ Claimed
      <3> SUFFICES ASSUME NEW i \in 1..Len(due) - ClaimSize
                   PROVE  i + ClaimSize \in 1..Len(due) /\ due[i + ClaimSize] \in Events \ Claimed
        OBVIOUS
      <3>1. i + ClaimSize \in 1..Len(due) /\ ClaimSize \in Nat
        BY <2>1
      <3>2. ASSUME NEW j \in 1..ClaimSize PROVE due[j] # due[i + ClaimSize]
        BY <2>1, <3>1 DEF DueDistinct
      <3>3. due[i + ClaimSize] \in Events
        BY <3>1 DEF OutboxTypeOK
      <3>4. due[i + ClaimSize] \notin Claimed
        BY <3>2 DEF Claimed
      <3> QED BY <3>1, <3>3, <3>4
    <2>3. DueWaiting'
      BY <2>1, <2>2, <1>3 DEF DueWaiting
    <2>4. DueDistinct'
      BY <2>1, <2>2 DEF DueDistinct
    <2> QED BY <2>3, <2>4
  <1>7. HandsDisjoint'
    <2> SUFFICES ASSUME NEW r1 \in Relays, NEW r2 \in Relays,
                        NEW row1 \in Hand(r1)', NEW row2 \in Hand(r2)', row1.id = row2.id
                 PROVE  r1 = r2 /\ row1 = row2
      BY DEF HandsDisjoint
    <2>1. CASE r1 = r /\ r2 = r
      BY <2>1, <1>1
    <2>2. CASE r1 # r /\ r2 # r
      BY <2>2, <1>1 DEF HandsDisjoint
    <2>3. CASE r1 = r /\ r2 # r
      <3>1. row1.id \in Claimed /\ row2.id \notin Claimed
        BY <2>3, <1>1, <1>4
      <3> QED BY <3>1
    <2>4. CASE r1 # r /\ r2 = r
      <3>1. row1.id \notin Claimed /\ row2.id \in Claimed
        BY <2>4, <1>1, <1>4
      <3> QED BY <3>1
    <2> QED BY <2>1, <2>2, <2>3, <2>4
  <1>8. (HandsCurrent /\ HandStatus)'
    <2> SUFFICES ASSUME NEW q \in Relays, NEW row \in Hand(q)'
                 PROVE  /\ row.attempts = attempts'[row.id]
                        /\ \/ outboxStatus'[row.id] = "PUBLISHING"
                           \/ drainPhase'[q] = "failed" /\ row = current'[q] /\ outboxStatus'[row.id] = "PUBLISHED"
      BY DEF HandsCurrent, HandStatus
    <2>1. CASE q = r
      BY <2>1, <1>1, <1>2, <1>3
    <2>2. CASE q # r
      BY <2>2, <1>1, <1>3, <1>4 DEF HandsCurrent, HandStatus
    <2> QED BY <2>1, <2>2
  <1>9. PublishingOwned'
    <2> SUFFICES ASSUME NEW e \in Events, outboxStatus'[e] = "PUBLISHING", e \notin stranded
                 PROVE  \E q \in Relays : Holds(q, e)'
      BY <1>1 DEF PublishingOwned
    <2>1. CASE e \in Claimed
      <3>1. [id |-> e, attempts |-> Bump(attempts[e])] \in Hand(r)'
        BY <2>1, <1>1
      <3> QED BY <3>1 DEF Holds
    <2>2. CASE e \notin Claimed
      <3>1. PICK q \in Relays : Holds(q, e)
        BY <2>2, <1>3 DEF PublishingOwned
      <3> QED BY <3>1, <1>1 DEF Holds
    <2> QED BY <2>1, <2>2
  <1>10. StrandedAlone'
    <2> SUFFICES ASSUME NEW e \in stranded
                 PROVE  outboxStatus'[e] = "PUBLISHING" /\ \A q \in Relays : ~Holds(q, e)'
      BY <1>1 DEF StrandedAlone
    <2>1. e \in Events \ Claimed /\ outboxStatus[e] = "PUBLISHING" /\ \A q \in Relays : ~Holds(q, e)
      BY <1>5 DEF StrandedAlone, OutboxTypeOK
    <2>2. ~Holds(r, e)'
      BY <2>1, <1>1 DEF Holds
    <2>3. \A q \in Relays \ {r} : ~Holds(q, e)'
      BY <2>1, <1>1 DEF Holds
    <2> QED BY <2>1, <2>2, <2>3, <1>3
  <1>11. (PublishedDelivered /\ AcceptedDelivered /\ FailedExcused)'
    BY <1>1, <1>3 DEF PublishedDelivered, AcceptedDelivered, FailedExcused
  <1>12. DeliveredShape'
    <2> SUFFICES ASSUME NEW e \in delivered \ excused
                 PROVE  \/ outboxStatus'[e] = "PUBLISHED"
                        \/ e \in stranded
                        \/ \E q \in Relays : drainPhase'[q] = "accepted" /\ current[q].id = e
      BY <1>1 DEF DeliveredShape
    <2>1. CASE outboxStatus[e] = "PUBLISHED"
      BY <2>1, <1>3, <1>5 DEF OutboxTypeOK
    <2>2. CASE \E q \in Relays : drainPhase[q] = "accepted" /\ current[q].id = e
      BY <2>2, <1>1
    <2> QED BY <2>1, <2>2 DEF DeliveredShape
  <1>13. TypeInv'
    BY TypeStep DEF OutboxNext
  <1> QED BY <1>6, <1>7, <1>8, <1>9, <1>10, <1>11, <1>12, <1>13

\* TakeRow moves a row from the batch to current: the hand is the same.
LEMMA SafeTakeRow ==
  ASSUME IInv, NEW r \in Relays, TakeRow(r)
  PROVE  IInv'
  <1> USE DEF IInv, TypeInv
  <1>1. /\ \A q \in Relays : Hand(q)' = Hand(q) /\ \A x \in Events : Holds(q, x)' = Holds(q, x)
        /\ drainPhase[r] = "looping" /\ drainPhase' = [drainPhase EXCEPT ![r] = "publishing"]
        /\ \A q \in Relays \ {r} : current'[q] = current[q]
        /\ UNCHANGED <<outboxStatus, attempts, due, delivered, excused, stranded>>
    <2>1. PICK row \in batch[r] : /\ current' = [current EXCEPT ![r] = row]
                                 /\ batch' = [batch EXCEPT ![r] = @ \ {row}]
      BY DEF TakeRow
    <2>2. row # NoRow /\ current[r] = NoRow
      BY <2>1, NoRowDistinct DEF TakeRow, PhaseShape, OutboxTypeOK
    <2>3. \A q \in Relays : Hand(q)' = Hand(q)
      BY <2>1, <2>2 DEF Hand, OutboxTypeOK
    <2> QED BY <2>1, <2>3 DEF TakeRow, Holds, rowVars, history, OutboxTypeOK
  <1>2. (DueWaiting /\ DueDistinct)'
    BY <1>1 DEF DueWaiting, DueDistinct
  <1>3. (HandsDisjoint /\ HandsCurrent)'
    BY <1>1 DEF HandsDisjoint, HandsCurrent
  <1>4. HandStatus'
    BY <1>1 DEF HandStatus, OutboxTypeOK
  <1>5. PublishingOwned' /\ StrandedAlone'
    BY <1>1 DEF PublishingOwned, StrandedAlone, OutboxTypeOK
  <1>6. (PublishedDelivered /\ AcceptedDelivered /\ FailedExcused)'
    BY <1>1 DEF PublishedDelivered, AcceptedDelivered, FailedExcused, OutboxTypeOK
  <1>7. DeliveredShape'
    BY <1>1 DEF DeliveredShape, OutboxTypeOK
  <1>8. TypeInv'
    BY TypeStep DEF OutboxNext, DrainStep
  <1> QED BY <1>2, <1>3, <1>4, <1>5, <1>6, <1>7, <1>8

\* publish() settles: only the history and the phase change.
LEMMA SafePublish ==
  ASSUME IInv, NEW r \in Relays, PublishOk(r) \/ PublishError(r)
  PROVE  IInv'
  <1> USE DEF IInv, TypeInv
  <1> DEFINE e == current[r].id
  <1>1. /\ \A q \in Relays : Hand(q)' = Hand(q) /\ \A x \in Events : Holds(q, x)' = Holds(q, x)
        /\ drainPhase[r] = "publishing"
        /\ UNCHANGED <<outboxStatus, attempts, due, current, stranded>>
    BY DEF PublishOk, PublishError, Hand, Holds, rowVars
  <1>2. \/ /\ drainPhase' = [drainPhase EXCEPT ![r] = "accepted"]
           /\ delivered' = delivered \union {e}
           /\ excused' = excused
        \/ /\ drainPhase' = [drainPhase EXCEPT ![r] = "failed"]
           /\ delivered' \in {delivered, delivered \union {e}}
           /\ excused' = excused \union {e}
    BY DEF PublishOk, PublishError
  <1>3. (DueWaiting /\ DueDistinct /\ HandsDisjoint /\ HandsCurrent)'
    BY <1>1 DEF DueWaiting, DueDistinct, HandsDisjoint, HandsCurrent
  <1>4. HandStatus'
    BY <1>1, <1>2 DEF HandStatus, OutboxTypeOK
  <1>5. PublishingOwned' /\ StrandedAlone'
    BY <1>1 DEF PublishingOwned, StrandedAlone, OutboxTypeOK
  <1>6. (PublishedDelivered /\ AcceptedDelivered /\ FailedExcused)'
    BY <1>1, <1>2 DEF PublishedDelivered, AcceptedDelivered, FailedExcused, OutboxTypeOK
  <1>7. DeliveredShape'
    BY <1>1, <1>2 DEF DeliveredShape, OutboxTypeOK
  <1>8. TypeInv'
    BY TypeStep DEF OutboxNext, DrainStep
  <1> QED BY <1>3, <1>4, <1>5, <1>6, <1>7, <1>8

\* A relay about to mark a row published or failed has it in hand.
LEMMA CurrentInHand ==
  ASSUME IInv, NEW r \in Relays, drainPhase[r] \in {"publishing", "accepted", "failed"}
  PROVE  /\ current[r] \in Hand(r)
         /\ current[r] \in ClaimedRows
         /\ current[r].id \in Events \ stranded
         /\ outboxStatus[current[r].id] \in {"PUBLISHING", "PUBLISHED"}
         /\ drainPhase[r] # "failed" => outboxStatus[current[r].id] = "PUBLISHING"
  <1> USE DEF IInv
  <1>1. current[r] \in Hand(r) /\ current[r] \in ClaimedRows /\ current[r].id \in Events
    BY CurrentRow, NoRowDistinct DEF TypeInv, Hand
  <1>2. current[r].id \notin stranded
    BY <1>1 DEF StrandedAlone, Holds
  <1> QED BY <1>1, <1>2 DEF HandStatus

\* What the end of an iteration leaves in the relay's hand.
LEMMA HandAfterNextRow ==
  ASSUME IInv, NEW r \in Relays, drainPhase[r] \in {"accepted", "failed"}, NextRow(r)
  PROVE  /\ \A q \in Relays \ {r} : Hand(q)' = Hand(q)
         /\ Hand(r)' = Hand(r) \ {current[r]}
         /\ \A q \in Relays : \A row \in Hand(q)' : row.id # current[r].id
  <1> USE DEF IInv, TypeInv
  <1>1. /\ \A q \in Relays \ {r} : Hand(q)' = Hand(q)
        /\ Hand(r)' = Hand(r) \ {current[r]}
        /\ current[r] \in Hand(r)
    BY NoRowDistinct DEF NextRow, Hand, PhaseShape, OutboxTypeOK
  <1>2. \A q \in Relays : \A row \in Hand(q)' : row.id # current[r].id
    BY <1>1 DEF HandsDisjoint
  <1> QED BY <1>1, <1>2

LEMMA SafeMarkPublished ==
  ASSUME IInv, NEW r \in Relays, MarkPublished(r)
  PROVE  IInv'
  <1> USE DEF IInv, TypeInv
  <1> DEFINE e == current[r].id
  <1>1. /\ drainPhase[r] = "accepted" /\ e \in Events /\ current[r] \in Hand(r)
        /\ outboxStatus[e] = "PUBLISHING" /\ e \in delivered /\ e \notin stranded
    BY CurrentInHand DEF MarkPublished, AcceptedDelivered
  <1>2. /\ \A q \in Relays \ {r} : Hand(q)' = Hand(q)
        /\ Hand(r)' = Hand(r) \ {current[r]}
        /\ \A q \in Relays : \A row \in Hand(q)' : row.id # e
    BY <1>1, HandAfterNextRow DEF MarkPublished
  <1>3. /\ outboxStatus' = [outboxStatus EXCEPT ![e] = "PUBLISHED"]
        /\ drainPhase' = [drainPhase EXCEPT ![r] = "looping"]
        /\ current' = [current EXCEPT ![r] = NoRow]
        /\ UNCHANGED <<attempts, due, delivered, excused, stranded>>
    BY DEF MarkPublished, NextRow, history
  <1>4. (DueWaiting /\ DueDistinct)'
    <2>1. \A k \in 1..Len(due) : due[k] \in Events /\ due[k] # e
      BY <1>1 DEF DueWaiting, OutboxTypeOK
    <2>2. DueWaiting'
      BY <1>3, <2>1 DEF DueWaiting, OutboxTypeOK
    <2>3. DueDistinct'
      BY <1>3 DEF DueDistinct
    <2> QED BY <2>2, <2>3
  <1>5. (HandsDisjoint /\ HandsCurrent)'
    BY <1>2, <1>3 DEF HandsDisjoint, HandsCurrent
  <1>6. HandStatus'
    BY <1>1, <1>2, <1>3 DEF HandStatus, Hand, ClaimedRows, OutboxTypeOK
  <1>7. PublishingOwned'
    BY <1>1, <1>2, <1>3 DEF PublishingOwned, Holds, OutboxTypeOK
  <1>8. StrandedAlone'
    <2>1. \A q \in Relays : \A x \in Events : Holds(q, x)' => Holds(q, x)
      BY <1>2 DEF Holds
    <2> QED BY <1>1, <1>3, <2>1 DEF StrandedAlone, OutboxTypeOK
  <1>9. (PublishedDelivered /\ AcceptedDelivered /\ FailedExcused)'
    BY <1>1, <1>3 DEF PublishedDelivered, AcceptedDelivered, FailedExcused, OutboxTypeOK
  <1>10. DeliveredShape'
    BY <1>1, <1>3 DEF DeliveredShape, OutboxTypeOK
  <1>11. TypeInv'
    BY TypeStep DEF OutboxNext, DrainStep
  <1> QED BY <1>4, <1>5, <1>6, <1>7, <1>8, <1>9, <1>10, <1>11

LEMMA SafeMarkPublishedError ==
  ASSUME IInv, NEW r \in Relays, MarkPublishedError(r)
  PROVE  IInv'
  <1> USE DEF IInv, TypeInv
  <1> DEFINE e == current[r].id
  <1>1. /\ drainPhase[r] = "accepted" /\ e \in Events /\ current[r] \in Hand(r)
        /\ outboxStatus[e] = "PUBLISHING" /\ e \in delivered /\ e \notin stranded
    BY CurrentInHand DEF MarkPublishedError, AcceptedDelivered
  <1>2. /\ \A q \in Relays : Hand(q)' = Hand(q) /\ \A x \in Events : Holds(q, x)' = Holds(q, x)
        /\ outboxStatus' \in {outboxStatus, [outboxStatus EXCEPT ![e] = "PUBLISHED"]}
        /\ drainPhase' = [drainPhase EXCEPT ![r] = "failed"]
        /\ excused' = excused \union {e}
        /\ UNCHANGED <<attempts, due, current, delivered, stranded>>
    BY DEF MarkPublishedError, Hand, Holds
  <1>3. (DueWaiting /\ DueDistinct)'
    <2>1. \A x \in Events : x # e => outboxStatus'[x] = outboxStatus[x]
      BY <1>1, <1>2 DEF OutboxTypeOK
    <2>2. \A k \in 1..Len(due) : due[k] \in Events /\ due[k] # e
      BY <1>1 DEF DueWaiting, OutboxTypeOK
    <2>3. DueWaiting'
      BY <1>2, <2>1, <2>2 DEF DueWaiting
    <2>4. DueDistinct'
      BY <1>2 DEF DueDistinct
    <2> QED BY <2>3, <2>4
  <1>4. (HandsDisjoint /\ HandsCurrent)'
    BY <1>2 DEF HandsDisjoint, HandsCurrent
  <1>5. HandStatus'
    <2> SUFFICES ASSUME NEW q \in Relays, NEW row \in Hand(q)
                 PROVE  \/ outboxStatus'[row.id] = "PUBLISHING"
                        \/ drainPhase'[q] = "failed" /\ row = current[q] /\ outboxStatus'[row.id] = "PUBLISHED"
      BY <1>2 DEF HandStatus
    <2>1. CASE row.id = e
      <3>1. q = r /\ row = current[r]
        BY <2>1, <1>1 DEF HandsDisjoint
      <3> QED BY <2>1, <3>1, <1>1, <1>2 DEF OutboxTypeOK
    <2>2. CASE row.id # e
      <3>1. outboxStatus'[row.id] = outboxStatus[row.id]
        <4>1. row.id \in Events
          BY DEF Hand, OutboxTypeOK, ClaimedRows
        <4> QED BY <2>2, <4>1, <1>1, <1>2 DEF OutboxTypeOK
      <3>2. drainPhase[q] = "failed" => drainPhase'[q] = "failed"
        BY <1>2 DEF OutboxTypeOK
      <3> QED BY <3>1, <3>2 DEF HandStatus
    <2> QED BY <2>1, <2>2
  <1>6. PublishingOwned'
    BY <1>1, <1>2 DEF PublishingOwned, OutboxTypeOK
  <1>7. StrandedAlone'
    BY <1>1, <1>2 DEF StrandedAlone, Holds, OutboxTypeOK
  <1>8. (PublishedDelivered /\ AcceptedDelivered /\ FailedExcused)'
    BY <1>1, <1>2 DEF PublishedDelivered, AcceptedDelivered, FailedExcused, OutboxTypeOK
  <1>9. DeliveredShape'
    BY <1>1, <1>2 DEF DeliveredShape, OutboxTypeOK
  <1>10. TypeInv'
    BY TypeStep DEF OutboxNext, DrainStep
  <1> QED BY <1>3, <1>4, <1>5, <1>6, <1>7, <1>8, <1>9, <1>10

\* What markFailed's UPDATE does to the rows and to the due list.
LEMMA RecordFailureEffect ==
  ASSUME IInv, NEW row \in ClaimedRows, row.id \in Events,
         outboxStatus[row.id] \in {"PUBLISHING", "PUBLISHED"}, RecordFailure(row)
  PROVE  /\ \E s \in {"PENDING", "FAILED"} : outboxStatus' = [outboxStatus EXCEPT ![row.id] = s]
         /\ DueWaiting' /\ DueDistinct'
  <1> USE DEF IInv, TypeInv
  <1>1. \A k \in 1..Len(due) : due[k] # row.id
    BY DEF DueWaiting
  <1>2. CASE row.attempts >= MaxAttempts
    <2>1. /\ outboxStatus' = [outboxStatus EXCEPT ![row.id] = "FAILED"]
          /\ due' = Append(due, row.id)
      BY <1>2 DEF RecordFailure
    <2>2. /\ Len(due') = Len(due) + 1 /\ Len(due) \in Nat
          /\ \A k \in 1..Len(due) : due'[k] = due[k]
          /\ due'[Len(due) + 1] = row.id
      BY <2>1 DEF OutboxTypeOK
    <2>3. DueWaiting'
      BY <1>1, <2>1, <2>2 DEF DueWaiting, OutboxTypeOK
    <2>4. DueDistinct'
      BY <1>1, <2>2 DEF DueDistinct
    <2> QED BY <2>1, <2>3, <2>4
  <1>3. CASE ~(row.attempts >= MaxAttempts)
    <2>1. outboxStatus' = [outboxStatus EXCEPT ![row.id] = "PENDING"] /\ due' = due
      BY <1>3 DEF RecordFailure
    <2>2. DueWaiting' /\ DueDistinct'
      BY <1>1, <2>1 DEF DueWaiting, DueDistinct, OutboxTypeOK
    <2> QED BY <2>1, <2>2
  <1> QED BY <1>2, <1>3

LEMMA SafeMarkFailed ==
  ASSUME IInv, NEW r \in Relays, MarkFailed(r)
  PROVE  IInv'
  <1> USE DEF IInv, TypeInv
  <1> DEFINE e == current[r].id
  <1>1. /\ drainPhase[r] = "failed" /\ current[r] \in ClaimedRows /\ e \in Events
        /\ outboxStatus[e] \in {"PUBLISHING", "PUBLISHED"} /\ e \in excused /\ e \notin stranded
    BY CurrentInHand DEF MarkFailed, FailedExcused
  <1>2. /\ \A q \in Relays \ {r} : Hand(q)' = Hand(q)
        /\ Hand(r)' = Hand(r) \ {current[r]}
        /\ \A q \in Relays : \A row \in Hand(q)' : row.id # e
    BY <1>1, HandAfterNextRow DEF MarkFailed
  <1>3. /\ drainPhase' = [drainPhase EXCEPT ![r] = "looping"]
        /\ current' = [current EXCEPT ![r] = NoRow]
        /\ UNCHANGED <<attempts, delivered, excused, stranded>>
    BY DEF MarkFailed, NextRow, history
  <1>4. PICK s \in {"PENDING", "FAILED"} : outboxStatus' = [outboxStatus EXCEPT ![e] = s]
    BY <1>1, RecordFailureEffect DEF MarkFailed
  <1>5. DueWaiting' /\ DueDistinct'
    BY <1>1, RecordFailureEffect DEF MarkFailed
  <1>6. (HandsDisjoint /\ HandsCurrent)'
    BY <1>2, <1>3 DEF HandsDisjoint, HandsCurrent
  <1>7. HandStatus'
    BY <1>1, <1>2, <1>3, <1>4 DEF HandStatus, Hand, ClaimedRows, OutboxTypeOK
  <1>8. PublishingOwned'
    <2> SUFFICES ASSUME NEW x \in Events, outboxStatus'[x] = "PUBLISHING", x \notin stranded
                 PROVE  \E q \in Relays : Holds(q, x)'
      BY <1>3 DEF PublishingOwned
    <2>1. x # e /\ outboxStatus[x] = "PUBLISHING"
      BY <1>1, <1>4 DEF OutboxTypeOK
    <2>2. PICK q \in Relays : Holds(q, x)
      BY <2>1 DEF PublishingOwned
    <2> QED BY <2>1, <2>2, <1>2 DEF Holds
  <1>9. StrandedAlone'
    <2>1. \A q \in Relays : \A x \in Events : Holds(q, x)' => Holds(q, x)
      BY <1>2 DEF Holds
    <2> QED BY <1>1, <1>3, <1>4, <2>1 DEF StrandedAlone, OutboxTypeOK
  <1>10. (PublishedDelivered /\ AcceptedDelivered /\ FailedExcused)'
    BY <1>1, <1>3, <1>4 DEF PublishedDelivered, AcceptedDelivered, FailedExcused, OutboxTypeOK
  <1>11. DeliveredShape'
    BY <1>1, <1>3, <1>4 DEF DeliveredShape, OutboxTypeOK
  <1>12. TypeInv'
    BY TypeStep DEF OutboxNext, DrainStep
  <1> QED BY <1>5, <1>6, <1>7, <1>8, <1>9, <1>10, <1>11, <1>12

\* A relay that abandons its rows, whatever happened to its current row.
LEMMA SafeAbandon ==
  ASSUME IInv, TypeInv', NEW r \in Relays, Abandon(r), DueWaiting', DueDistinct',
         UNCHANGED <<attempts, delivered, excused>>,
         \/ outboxStatus' = outboxStatus
         \/ /\ drainPhase[r] = "failed"
            /\ \E s \in {"PENDING", "FAILED"} :
                 outboxStatus' = [outboxStatus EXCEPT ![current[r].id] = s]
  PROVE  IInv'
  <1> USE DEF IInv, TypeInv
  <1>1. /\ Hand(r)' = {} /\ \A q \in Relays \ {r} : Hand(q)' = Hand(q)
        /\ \A q \in Relays \ {r} : current'[q] = current[q] /\ drainPhase'[q] = drainPhase[q]
        /\ drainPhase'[r] = "idle"
        /\ stranded' = stranded \union {e \in Events : Holds(r, e) /\ outboxStatus'[e] = "PUBLISHING"}
    BY DEF Abandon, Hand, OutboxTypeOK
  <1>2. \A e \in Events : outboxStatus'[e] # outboxStatus[e] =>
          /\ Holds(r, e) /\ e \in excused
          /\ outboxStatus[e] \in {"PUBLISHING", "PUBLISHED"} /\ outboxStatus'[e] \in {"PENDING", "FAILED"}
    BY CurrentInHand DEF Holds, FailedExcused, OutboxTypeOK
  <1>3. \A q \in Relays \ {r} : \A e \in Events : Holds(q, e) => ~Holds(r, e) /\ outboxStatus'[e] = outboxStatus[e]
    BY <1>2 DEF Holds, HandsDisjoint
  <1>4. (HandsDisjoint /\ HandsCurrent)'
    BY <1>1 DEF HandsDisjoint, HandsCurrent
  <1>5. HandStatus'
    <2> SUFFICES ASSUME NEW q \in Relays, NEW row \in Hand(q)'
                 PROVE  \/ outboxStatus'[row.id] = "PUBLISHING"
                        \/ drainPhase'[q] = "failed" /\ row = current'[q] /\ outboxStatus'[row.id] = "PUBLISHED"
      BY DEF HandStatus
    <2>1. q # r /\ row \in Hand(q)
      BY <1>1
    <2>2. row.id \in Events /\ Holds(q, row.id)
      BY <2>1 DEF Hand, OutboxTypeOK, ClaimedRows, Holds
    <2> QED BY <2>1, <2>2, <1>1, <1>3 DEF HandStatus
  <1>6. PublishingOwned'
    <2> SUFFICES ASSUME NEW e \in Events, outboxStatus'[e] = "PUBLISHING", e \notin stranded'
                 PROVE  \E q \in Relays : Holds(q, e)'
      BY DEF PublishingOwned
    <2>1. ~Holds(r, e) /\ e \notin stranded /\ outboxStatus[e] = "PUBLISHING"
      BY <1>1, <1>2
    <2>2. PICK q \in Relays : Holds(q, e)
      BY <2>1 DEF PublishingOwned
    <2> QED BY <2>1, <2>2, <1>1 DEF Holds
  <1>7. StrandedAlone'
    <2> SUFFICES ASSUME NEW e \in stranded'
                 PROVE  outboxStatus'[e] = "PUBLISHING" /\ \A q \in Relays : ~Holds(q, e)'
      BY DEF StrandedAlone
    <2>1. ~Holds(r, e)'
      BY <1>1 DEF Holds
    <2>2. e \in Events /\ \A q \in Relays \ {r} : Holds(q, e)' = Holds(q, e)
      BY <1>1 DEF Holds, OutboxTypeOK
    <2>3. CASE e \in stranded
      BY <2>1, <2>2, <2>3, <1>2 DEF StrandedAlone
    <2>4. CASE e \notin stranded
      BY <2>1, <2>2, <2>4, <1>1, <1>3
    <2> QED BY <2>3, <2>4
  <1>8. PublishedDelivered'
    BY <1>2 DEF PublishedDelivered
  <1>9. (AcceptedDelivered /\ FailedExcused)'
    BY <1>1 DEF AcceptedDelivered, FailedExcused
  <1>10. DeliveredShape'
    <2> SUFFICES ASSUME NEW e \in delivered \ excused
                 PROVE  \/ outboxStatus'[e] = "PUBLISHED"
                        \/ e \in stranded'
                        \/ \E q \in Relays : drainPhase'[q] = "accepted" /\ current'[q].id = e
      BY DEF DeliveredShape
    <2>1. e \in Events /\ outboxStatus'[e] = outboxStatus[e]
      BY <1>2 DEF OutboxTypeOK
    <2>2. CASE outboxStatus[e] = "PUBLISHED" \/ e \in stranded
      BY <2>1, <2>2, <1>1
    <2>3. ASSUME NEW q \in Relays, drainPhase[q] = "accepted" /\ current[q].id = e, q = r
          PROVE  e \in stranded'
      <3>1. Holds(r, e) /\ outboxStatus[e] = "PUBLISHING"
        BY <2>3, CurrentInHand DEF Holds
      <3> QED BY <2>1, <3>1, <1>1
    <2>4. ASSUME NEW q \in Relays, drainPhase[q] = "accepted" /\ current[q].id = e, q # r
          PROVE  drainPhase'[q] = "accepted" /\ current'[q].id = e
      BY <2>4, <1>1
    <2> QED BY <2>2, <2>3, <2>4 DEF DeliveredShape
  <1> QED BY <1>4, <1>5, <1>6, <1>7, <1>8, <1>9, <1>10

LEMMA SafeMarkFailedError ==
  ASSUME IInv, NEW r \in Relays, MarkFailedError(r)
  PROVE  IInv'
  <1>1. /\ drainPhase[r] = "failed" /\ Abandon(r)
        /\ UNCHANGED <<attempts, delivered, excused>>
    BY DEF MarkFailedError
  <1>2. TypeInv'
    BY TypeStep DEF IInv, TypeInv, OutboxNext, DrainStep
  <1>3. CASE UNCHANGED <<outboxStatus, due>>
    <2>1. DueWaiting' /\ DueDistinct'
      BY <1>3 DEF IInv, DueWaiting, DueDistinct
    <2> QED BY <1>1, <1>2, <1>3, <2>1, SafeAbandon
  <1>4. CASE RecordFailure(current[r])
    <2>1. /\ \E s \in {"PENDING", "FAILED"} : outboxStatus' = [outboxStatus EXCEPT ![current[r].id] = s]
          /\ DueWaiting' /\ DueDistinct'
      BY <1>1, <1>4, CurrentInHand, RecordFailureEffect
    <2> QED BY <1>1, <1>2, <2>1, SafeAbandon
  <1> QED BY <1>3, <1>4 DEF MarkFailedError

LEMMA SafeExit ==
  ASSUME IInv, NEW r \in Relays, Exit(r)
  PROVE  IInv'
  <1>1. Abandon(r) /\ UNCHANGED <<outboxStatus, attempts, due, delivered, excused>>
    BY DEF Exit, rowVars
  <1>2. TypeInv'
    BY TypeStep DEF IInv, TypeInv, OutboxNext
  <1>3. DueWaiting' /\ DueDistinct'
    BY <1>1 DEF IInv, DueWaiting, DueDistinct
  <1> QED BY <1>1, <1>2, <1>3, SafeAbandon

\* Steps that move no row: the end of a drain, a shutdown request, stuttering.
LEMMA SafeIdleStep ==
  ASSUME IInv, \/ \E r \in Relays : EndDrain(r) \/ Stop(r)
               \/ UNCHANGED outboxVars
  PROVE  IInv'
  <1> USE DEF IInv, TypeInv
  <1>1. /\ \A q \in Relays : Hand(q)' = Hand(q) /\ \A x \in Events : Holds(q, x)' = Holds(q, x)
        /\ UNCHANGED <<outboxStatus, attempts, due, batch, current, delivered, excused, stranded>>
    BY DEF EndDrain, Stop, outboxVars, rowVars, relayVars, history, Hand, Holds
  <1>2. \A q \in Relays : \/ drainPhase'[q] = drainPhase[q]
                          \/ drainPhase[q] = "looping" /\ drainPhase'[q] = "idle"
    BY DEF EndDrain, Stop, outboxVars, relayVars, OutboxTypeOK
  <1>3. (DueWaiting /\ DueDistinct /\ HandsDisjoint /\ HandsCurrent)'
    BY <1>1 DEF DueWaiting, DueDistinct, HandsDisjoint, HandsCurrent
  <1>4. HandStatus'
    BY <1>1, <1>2 DEF HandStatus
  <1>5. PublishingOwned' /\ StrandedAlone'
    BY <1>1 DEF PublishingOwned, StrandedAlone, OutboxTypeOK
  <1>6. (PublishedDelivered /\ AcceptedDelivered /\ FailedExcused)'
    BY <1>1, <1>2 DEF PublishedDelivered, AcceptedDelivered, FailedExcused
  <1>7. DeliveredShape'
    BY <1>1, <1>2 DEF DeliveredShape
  <1>8. TypeInv'
    BY TypeStep DEF OutboxNext, DrainStep
  <1> QED BY <1>3, <1>4, <1>5, <1>6, <1>7, <1>8

LEMMA SafeStep == IInv /\ [OutboxNext]_outboxVars => IInv'
  <1> SUFFICES ASSUME IInv, [OutboxNext]_outboxVars PROVE IInv'
    OBVIOUS
  <1>1. ASSUME NEW e \in Events, Enqueue(e) \/ BecomeDue(e) PROVE IInv'
    BY <1>1, SafeEnqueue, SafeBecomeDue
  <1>2. ASSUME NEW r \in Relays, Claim(r) \/ Stop(r) \/ Exit(r) PROVE IInv'
    BY <1>2, SafeClaim, SafeIdleStep, SafeExit
  <1>3. ASSUME NEW r \in Relays, DrainStep(r) PROVE IInv'
    BY <1>3, SafeTakeRow, SafePublish, SafeMarkPublished, SafeMarkPublishedError,
       SafeMarkFailed, SafeMarkFailedError, SafeIdleStep DEF DrainStep
  <1>4. CASE UNCHANGED outboxVars
    BY <1>4, SafeIdleStep
  <1> QED BY <1>1, <1>2, <1>3, <1>4 DEF OutboxNext

LEMMA SafeAlways == OutboxSpec => []IInv
  BY SafeInit, SafeStep, PTL DEF OutboxSpec

\* Mutual exclusion of the claims: SKIP LOCKED and the PUBLISHING status give
\* every claimed row to one relay, which knows its true attempt count.
THEOREM ClaimsExclusive == OutboxSpec => []ClaimExclusive
  <1>1. IInv => ClaimExclusive
    BY DEF IInv, ClaimExclusive
  <1> QED BY <1>1, SafeAlways, PTL

\* Concurrency alone never makes the endpoint see an event twice.
THEOREM DuplicatesExcused == OutboxSpec => NoSpuriousDuplicate
  <1>1. ASSUME IInv, NEW r \in Relays, NEW e \in Events,
               drainPhase[r] = "publishing", current[r].id = e, e \in delivered
        PROVE  e \in excused
    <2>1. /\ outboxStatus[e] = "PUBLISHING" /\ e \notin stranded
          /\ current[r] \in Hand(r) /\ current[r].id = e
      BY <1>1, CurrentInHand
    <2>2. ASSUME NEW q \in Relays, drainPhase[q] = "accepted", current[q].id = e PROVE FALSE
      <3>1. current[q] \in Hand(q)
        BY <1>1, <2>2, CurrentInHand
      <3>2. q = r
        BY <1>1, <2>1, <2>2, <3>1 DEF IInv, HandsDisjoint
      <3> QED BY <1>1, <2>2, <3>2
    <2> QED BY <1>1, <2>1, <2>2 DEF IInv, DeliveredShape
  <1>2. IInv => \A r \in Relays : \A e \in Events :
          (Delivers(r) /\ current[r].id = e /\ e \in delivered) => e \in excused
    BY <1>1 DEF Delivers
  <1> QED BY <1>2, SafeAlways, PTL DEF NoSpuriousDuplicate

-----------------------------------------------------------------------------
(* Refinement *)

LEMMA PromiseInit == OutboxInit => Promise!Init
  BY DEF OutboxInit, Promise!Init

LEMMA PromiseAction ==
  ASSUME NEW e \in Events,
         Promise!Accept(e) \/ Promise!Receive(e) \/ Promise!Retire(e) \/ Promise!Reopen(e)
  PROVE  Promise!Next
  BY DEF Promise!Next

\* The abstract state changes only as EventDelivery allows.
LEMMA PromiseStep == IInv /\ [OutboxNext]_outboxVars => [Promise!Next]_(Promise!deliveryVars)
  <1> SUFFICES ASSUME IInv, [OutboxNext]_outboxVars
               PROVE  Promise!Next \/ UNCHANGED Promise!deliveryVars
    OBVIOUS
  <1> USE DEF IInv, TypeInv, Promise!deliveryVars
  <1>1. CASE UNCHANGED <<outboxStatus, delivered>>
    BY <1>1
  <1>2. ASSUME NEW e \in Events, Enqueue(e) PROVE Promise!Next
    <2>1. Promise!Accept(e)
      BY <1>2 DEF Enqueue, Promise!Accept, history, OutboxTypeOK
    <2> QED BY <2>1, PromiseAction
  <1>3. ASSUME NEW r \in Relays, Claim(r) PROVE UNCHANGED Promise!deliveryVars
    <2>1. /\ delivered' = delivered
          /\ \A e \in Claimed : e \in Events /\ outboxStatus[e] \in {"PENDING", "FAILED"}
      BY <1>3, ClaimSizeType DEF Claim, Claimed, DueWaiting, history, OutboxTypeOK
    <2>2. \A e \in Events : /\ outboxStatus'[e] # "ABSENT" <=> outboxStatus[e] # "ABSENT"
                            /\ outboxStatus'[e] = "PUBLISHED" <=> outboxStatus[e] = "PUBLISHED"
      BY <1>3, <2>1 DEF Claim
    <2> QED BY <2>1, <2>2
  <1>4. ASSUME NEW r \in Relays, PublishOk(r) \/ PublishError(r)
        PROVE  Promise!Next \/ UNCHANGED Promise!deliveryVars
    <2>1. /\ current[r].id \in Events /\ outboxStatus[current[r].id] = "PUBLISHING"
          /\ outboxStatus' = outboxStatus
          /\ delivered' \in {delivered, delivered \union {current[r].id}}
      BY <1>4, CurrentInHand DEF PublishOk, PublishError, rowVars
    <2>2. CASE delivered' # delivered
      <3>1. Promise!Receive(current[r].id)
        BY <2>1, <2>2 DEF Promise!Receive
      <3> QED BY <2>1, <3>1, PromiseAction
    <2>3. CASE delivered' = delivered
      BY <2>1, <2>3
    <2> QED BY <2>2, <2>3
  <1>5. ASSUME NEW r \in Relays, MarkPublished(r) \/ MarkPublishedError(r)
        PROVE  Promise!Next \/ UNCHANGED Promise!deliveryVars
    <2>1. /\ current[r].id \in Events /\ current[r].id \in delivered /\ outboxStatus[current[r].id] = "PUBLISHING"
          /\ delivered' = delivered
          /\ outboxStatus' \in {outboxStatus, [outboxStatus EXCEPT ![current[r].id] = "PUBLISHED"]}
      BY <1>5, CurrentInHand
         DEF MarkPublished, MarkPublishedError, AcceptedDelivered, history
    <2>2. CASE outboxStatus' # outboxStatus
      <3>1. PICK e \in Events : e = current[r].id
        BY <2>1
      <3>2. Promise!Retire(e)
        BY <2>1, <2>2, <3>1 DEF Promise!Retire, OutboxTypeOK
      <3> QED BY <3>2, PromiseAction
    <2>3. CASE outboxStatus' = outboxStatus
      BY <2>1, <2>3
    <2> QED BY <2>2, <2>3
  <1>6. ASSUME NEW r \in Relays, MarkFailed(r) \/ MarkFailedError(r)
        PROVE  Promise!Next \/ UNCHANGED Promise!deliveryVars
    <2>1. /\ current[r].id \in Events /\ outboxStatus[current[r].id] \in {"PUBLISHING", "PUBLISHED"}
          /\ current[r] \in ClaimedRows /\ delivered' = delivered
      BY <1>6, CurrentInHand DEF MarkFailed, MarkFailedError, history
    <2>2. CASE RecordFailure(current[r])
      <3>1. PICK s \in {"PENDING", "FAILED"} : outboxStatus' = [outboxStatus EXCEPT ![current[r].id] = s]
        BY <2>1, <2>2, RecordFailureEffect
      <3>2. CASE outboxStatus[current[r].id] = "PUBLISHED"
        <4>1. PICK e \in Events : e = current[r].id
          BY <2>1
        <4>2. Promise!Reopen(e)
          BY <2>1, <3>1, <3>2, <4>1 DEF Promise!Reopen, OutboxTypeOK
        <4> QED BY <4>2, PromiseAction
      <3>3. CASE outboxStatus[current[r].id] = "PUBLISHING"
        <4>1. \A x \in Events : /\ outboxStatus'[x] # "ABSENT" <=> outboxStatus[x] # "ABSENT"
                                /\ outboxStatus'[x] = "PUBLISHED" <=> outboxStatus[x] = "PUBLISHED"
          BY <2>1, <3>1, <3>3 DEF OutboxTypeOK
        <4> QED BY <2>1, <4>1
      <3> QED BY <2>1, <3>2, <3>3
    <2>3. CASE outboxStatus' = outboxStatus
      BY <2>1, <2>3
    <2> QED BY <1>6, <2>2, <2>3 DEF MarkFailed, MarkFailedError
  <1>7. ASSUME NEW r \in Relays, TakeRow(r) \/ EndDrain(r) \/ Stop(r) \/ Exit(r)
        PROVE  UNCHANGED <<outboxStatus, delivered>>
    BY <1>7 DEF TakeRow, EndDrain, Stop, Exit, rowVars, history
  <1>8. ASSUME NEW e \in Events, BecomeDue(e) PROVE UNCHANGED <<outboxStatus, delivered>>
    BY <1>8 DEF BecomeDue, history
  <1>9. UNCHANGED outboxVars => UNCHANGED <<outboxStatus, delivered>>
    BY DEF outboxVars, rowVars, history
  <1> QED
    BY <1>1, <1>2, <1>3, <1>4, <1>5, <1>6, <1>7, <1>8, <1>9 DEF OutboxNext, DrainStep

\* The relays and rows keep the promise of EventDelivery: an event is marked
\* PUBLISHED only once received and is not sent while it is so marked.
THEOREM OutboxImplementsEventDelivery == OutboxSpec => ImplementsEventDelivery
  BY PromiseInit, PromiseStep, SafeAlways, PTL
     DEF OutboxSpec, ImplementsEventDelivery, Promise!Spec

-----------------------------------------------------------------------------
(* Ledger: the inductive invariant *)

\* The operations that write a journal, and so need a number
Numbering(r) == act[r].op = "journal" \/ (act[r].op = "move" /\ act[r].to \in Entries)

\* at says what the request is doing and what it has found out.
RequestShape ==
  \A r \in Running :
    /\ act[r] \in Acts
    /\ at[r] \in {"period", "number", "insert"} =>
         Numbering(r) \/ (at[r] = "period" /\ act[r].op \in {"post", "void"})
    /\ at[r] \in {"insert", "write"} /\ Numbering(r) => number[r] \in Numbers

LedgerTypeInv == LedgerTypeOK /\ RequestShape

\* A number that is free, or taken by this request alone, follows a journal.
NumberFits(r) ==
  at[r] \in {"insert", "write"} /\ Numbering(r) =>
    number[r] = 1 \/ number[r] - 1 \in Written
NumberHeld(r) ==
  at[r] = "write" /\ Numbering(r) =>
    /\ journal[number[r]] = "ABSENT"
    /\ \A q \in Running \ {r} :
         at[q] = "write" /\ Numbering(q) => number[q] # number[r]

\* What a request has read still holds, unless its row was raced.
MoveCurrent(r) ==
  act[r].op = "move" =>
    /\ act[r].row \in raced
         \/ <<doc[act[r].row], act[r].to>> \in Moves(kind[act[r].row])
    /\ act[r].to = "REFUNDED" => EntriesOf(act[r].row, "POSTED") # {}
JournalCurrent(r) ==
  act[r].op \in {"post", "void"} =>
    /\ act[r].row \in Written
    /\ act[r].op = "post" => act[r].row \in raced \/ journal[act[r].row] = "DRAFT"
    /\ at[r] = "write" /\ linked[act[r].row] => found[r]
PeriodCurrent(r) ==
  found[r] =>
    /\ period[DateOf(r)] # "ABSENT"
    /\ DateOf(r) \in raced \/ period[DateOf(r)] = "OPEN"

Informed(r) ==
  NumberFits(r) /\ NumberHeld(r) /\ MoveCurrent(r) /\ JournalCurrent(r) /\ PeriodCurrent(r)
RequestInv ==
  /\ \A r \in Running : Informed(r)
  /\ \A r \in Requests \ Running : ~found[r]

\* A journal has its date, document and period from the time it is written.
JournalShape ==
  \A n \in Numbers :
    /\ journal[n] = "ABSENT" => entry[n] = NoEntry /\ ~linked[n]
    /\ journal[n] # "ABSENT" => date[n] \in Periods
    /\ linked[n] => period[date[n]] # "ABSENT"
    /\ entry[n] # NoEntry => journal[n] \in {"POSTED", "VOID"}

\* A document that is entered has the entries that its status stands for.
EntriesBacked ==
  \A d \in Docs :
    /\ doc[d] \in Entries => EntriesOf(d, doc[d]) # {}
    /\ doc[d] = "REFUNDED" => EntriesOf(d, "POSTED") # {}

\* A document that was entered does not return, unless it was raced.
EntryCurrent ==
  \A d \in Docs \ raced :
    /\ EntriesOf(d, "POSTED") # {} => doc[d] \in Entries
    /\ EntriesOf(d, "REFUNDED") # {} => doc[d] = "REFUNDED"
EntryUnique ==
  \A d \in Docs \ raced, to \in Entries : \A m, n \in EntriesOf(d, to) : m = n

TableInv == JournalShape /\ GaplessNumbers /\ EntriesBacked /\ EntryCurrent /\ EntryUnique

LedgerInv == LedgerTypeInv /\ RequestInv /\ TableInv

-----------------------------------------------------------------------------
(* Type correctness *)

LEMMA ActTypes ==
  ASSUME NEW a \in Acts
  PROVE  /\ a.op \in {"move", "journal", "open", "close", "post", "void"}
         /\ a.op = "move" => a.row \in Docs /\ a.to \in DocStatuses
         /\ a.op \in {"journal", "open", "close"} => a.row \in Periods
         /\ a.op \in {"post", "void"} => a.row \in Numbers
  BY DEF Acts

\* What a request that is under way writes has the types of its operation.
LEMMA RunningTypes ==
  ASSUME LedgerTypeInv, NEW r \in Running
  PROVE  /\ r \in Requests
         /\ act[r] \in Acts
         /\ act[r].op \in {"move", "journal", "open", "close", "post", "void"}
         /\ act[r].op = "move" => act[r].row \in Docs /\ act[r].to \in DocStatuses
         /\ act[r].op \in {"journal", "open", "close"} => act[r].row \in Periods
         /\ act[r].op \in {"post", "void"} => act[r].row \in Numbers
         /\ Numbering(r) => DateOf(r) \in Periods
  <1>1. r \in Requests /\ act[r] \in Acts
    BY DEF LedgerTypeInv, RequestShape, Running
  <1>2. /\ act[r].op = "move" => act[r].row \in Docs
        /\ act[r].op = "journal" => act[r].row \in Periods
    BY <1>1, ActTypes
  <1>3. Numbering(r) => DateOf(r) \in Periods
    <2>1. CASE act[r].op = "move"
      BY <2>1, <1>2 DEF DateOf, LedgerTypeInv, LedgerTypeOK
    <2>2. CASE act[r].op = "journal"
      BY <2>2, <1>2 DEF DateOf
    <2> QED BY <2>1, <2>2 DEF Numbering
  <1> QED BY <1>1, <1>3, ActTypes

LEMMA LedgerTypeInit == LedgerInit => LedgerTypeInv
  BY MaxNumberNat
     DEF LedgerInit, LedgerTypeInv, LedgerTypeOK, RequestShape, Running, DocStatuses, Numbers

\* A step of r alone that keeps the types of what it changes
LEMMA TypeFrame ==
  ASSUME LedgerTypeInv, NEW r \in Requests,
         at' \in [Requests -> {"idle", "period", "number", "insert", "write"}],
         act' \in [Requests -> Acts \union {NoEntry}],
         number' \in [Requests -> 0..MaxNumber],
         found' \in [Requests -> BOOLEAN],
         LedgerTypeOK',
         \A q \in Requests \ {r} : /\ at'[q] = at[q]
                                   /\ act'[q] = act[q]
                                   /\ number'[q] = number[q],
         at'[r] # "idle" =>
           /\ act'[r] \in Acts
           /\ at'[r] \in {"period", "number", "insert"} =>
                Numbering(r)' \/ (at'[r] = "period" /\ act'[r].op \in {"post", "void"})
           /\ at'[r] \in {"insert", "write"} /\ Numbering(r)' => number'[r] \in Numbers
  PROVE  LedgerTypeInv'
  BY DEF LedgerTypeInv, RequestShape, Running, Numbering

\* The first statement of an operation keeps the types.
LEMMA BeginType ==
  ASSUME LedgerTypeInv, NEW r \in Requests, NEW op, NEW row, NEW to, NEW next,
         BeginRequest(r, op, row, to, next),
         [op |-> op, row |-> row, to |-> to] \in Acts,
         \/ next = "write" /\ op # "journal" /\ ~(op = "move" /\ to \in Entries)
         \/ next = "period" /\ \/ op \in {"journal", "post", "void"}
                               \/ op = "move" /\ to \in Entries
  PROVE  LedgerTypeInv'
  <1> DEFINE a == [op |-> op, row |-> row, to |-> to]
  <1>1. /\ at' = [at EXCEPT ![r] = next]
        /\ act' = [act EXCEPT ![r] = a]
        /\ UNCHANGED <<kind, dated, books, number, found, raced>>
    BY DEF BeginRequest
  <1>2. a.op = op /\ a.row = row /\ a.to = to
    OBVIOUS
  <1> HIDE DEF a
  <1>3. a \in Acts
    BY DEF a
  <1>4. at'[r] = next /\ act'[r] = a
    BY <1>1 DEF LedgerTypeInv, LedgerTypeOK
  <1>5. LedgerTypeOK'
    BY <1>1, <1>3 DEF LedgerTypeInv, LedgerTypeOK, books
  <1>6. \A q \in Requests \ {r} : at'[q] = at[q] /\ act'[q] = act[q] /\ number'[q] = number[q]
    BY <1>1 DEF LedgerTypeInv, LedgerTypeOK
  <1>7. Numbering(r)' <=> op = "journal" \/ (op = "move" /\ to \in Entries)
    BY <1>2, <1>4 DEF Numbering
  <1>8. LedgerTypeInv'
    BY <1>2, <1>3, <1>4, <1>5, <1>6, <1>7, TypeFrame DEF LedgerTypeOK
  <1> QED BY <1>8

LEMMA MoveEnds ==
  ASSUME NEW k \in Kinds, NEW from, NEW to, <<from, to>> \in Moves(k)
  PROVE  /\ to \in DocStatuses
         /\ to = "POSTED" => from \in {"APPROVED", "ABSENT"}
         /\ to = "REFUNDED" => from = "POSTED"
         /\ to \notin Entries => from \in {"DRAFT", "SUBMITTED"}
  BY DEF Moves, Kinds, DocStatuses, Entries

\* All of the first statements, with the request's new state in full
LEMMA BeginStep ==
  ASSUME LedgerTypeInv, NEW r \in Requests,
         \/ \E d \in Docs, to \in DocStatuses : Move(r, d, to)
         \/ \E p \in Periods : CreateJournal(r, p) \/ CreatePeriod(r, p) \/ ClosePeriod(r, p)
         \/ \E n \in Numbers : PostJournal(r, n) \/ VoidJournal(r, n)
  PROVE  LedgerTypeInv'
  <1>1. ASSUME NEW d \in Docs, NEW to \in DocStatuses, Move(r, d, to)
        PROVE  LedgerTypeInv'
    <2>1. BeginRequest(r, "move", d, to, IF to \in Entries THEN "period" ELSE "write")
      BY <1>1 DEF Move
    <2>2. [op |-> "move", row |-> d, to |-> to] \in Acts
      BY DEF Acts
    <2>3. CASE to \in Entries
      BY <2>1, <2>2, <2>3, BeginType
    <2>4. CASE to \notin Entries
      BY <2>1, <2>2, <2>4, BeginType
    <2> QED BY <2>3, <2>4
  <1>2. ASSUME NEW p \in Periods, CreateJournal(r, p) \/ CreatePeriod(r, p) \/ ClosePeriod(r, p)
        PROVE  LedgerTypeInv'
    <2>1. \A op \in {"journal", "open", "close"} : [op |-> op, row |-> p, to |-> "none"] \in Acts
      BY DEF Acts
    <2>2. CASE BeginRequest(r, "journal", p, "none", "period")
      BY <2>1, <2>2, BeginType
    <2>3. CASE BeginRequest(r, "open", p, "none", "write")
      BY <2>1, <2>3, BeginType
    <2>4. CASE BeginRequest(r, "close", p, "none", "write")
      BY <2>1, <2>4, BeginType
    <2> QED BY <1>2, <2>2, <2>3, <2>4 DEF CreateJournal, CreatePeriod, ClosePeriod
  <1>3. ASSUME NEW n \in Numbers, PostJournal(r, n) \/ VoidJournal(r, n)
        PROVE  LedgerTypeInv'
    <2>1. \A op \in {"post", "void"} : [op |-> op, row |-> n, to |-> "none"] \in Acts
      BY DEF Acts
    <2>2. PICK op \in {"post", "void"} :
            BeginRequest(r, op, n, "none", IF linked[n] THEN "period" ELSE "write")
      BY <1>3 DEF PostJournal, VoidJournal
    <2>3. CASE linked[n]
      BY <2>1, <2>2, <2>3, BeginType
    <2>4. CASE ~linked[n]
      BY <2>1, <2>2, <2>4, BeginType
    <2> QED BY <2>3, <2>4
  <1> QED BY <1>1, <1>2, <1>3

LEMMA ReadPeriodType ==
  ASSUME LedgerTypeInv, NEW r \in Requests, ReadPeriod(r)
  PROVE  LedgerTypeInv'
  <1>1. r \in Running /\ act[r] \in Acts
    BY DEF ReadPeriod, Running, LedgerTypeInv, RequestShape
  <1>2. /\ at' = [at EXCEPT ![r] = IF WritesJournal(r) THEN "number" ELSE "write"]
        /\ found' = [found EXCEPT ![r] = period[DateOf(r)] = "OPEN"]
        /\ at[r] = "period"
        /\ UNCHANGED <<kind, dated, books, act, number, raced>>
    BY DEF ReadPeriod
  <1>3. Numbering(r) \/ act[r].op \in {"post", "void"}
    BY <1>1, <1>2 DEF LedgerTypeInv, RequestShape
  <1>4. (WritesJournal(r) <=> Numbering(r)) /\ (Numbering(r)' <=> Numbering(r))
    BY <1>2, <1>3 DEF WritesJournal, Numbering
  <1>5. (period[DateOf(r)] = "OPEN") \in BOOLEAN
    OBVIOUS
  <1>6. LedgerTypeOK'
    BY <1>2, <1>5 DEF LedgerTypeInv, LedgerTypeOK, books
  <1> QED BY <1>1, <1>2, <1>4, <1>6, TypeFrame DEF LedgerTypeInv, LedgerTypeOK

LEMMA NumberType ==
  ASSUME LedgerTypeInv, NEW r \in Requests, ReadMax(r) \/ InsertJournal(r)
  PROVE  LedgerTypeInv'
  <1>1. r \in Running /\ act[r] \in Acts /\ Numbering(r)
    BY DEF ReadMax, InsertJournal, Running, LedgerTypeInv, RequestShape
  <1>2. Numbering(r)'
    BY <1>1 DEF Numbering, ReadMax, InsertJournal
  <1>3. /\ UNCHANGED <<kind, dated, books, act, found, raced>>
        /\ \E next \in {"insert", "write"} : at' = [at EXCEPT ![r] = next]
        /\ \E n \in Numbers : number' = [number EXCEPT ![r] = n]
    <2>1. CASE ReadMax(r)
      BY <2>1 DEF ReadMax
    <2>2. CASE InsertJournal(r)
      <3>1. number[r] \in Numbers /\ number' = number
        BY <1>1, <2>2 DEF InsertJournal, LedgerTypeInv, RequestShape
      <3>2. number' = [number EXCEPT ![r] = number[r]]
        BY <3>1 DEF LedgerTypeInv, LedgerTypeOK
      <3> QED BY <2>2, <3>1, <3>2 DEF InsertJournal
    <2> QED BY <2>1, <2>2
  <1>4. number'[r] \in Numbers /\ LedgerTypeOK'
    BY <1>3, MaxNumberNat DEF LedgerTypeInv, LedgerTypeOK, books, Numbers
  <1>5. \A q \in Requests \ {r} : at'[q] = at[q] /\ act'[q] = act[q] /\ number'[q] = number[q]
    BY DEF ReadMax, InsertJournal, LedgerTypeInv, LedgerTypeOK
  <1>6. act'[r] = act[r]
    BY DEF ReadMax, InsertJournal
  <1>7. LedgerTypeInv'
    BY <1>1, <1>2, <1>4, <1>5, <1>6, TypeFrame DEF LedgerTypeOK
  <1> QED BY <1>7

\* Once r is released the others are as they were.
LEMMA ReleaseFrame ==
  ASSUME LedgerTypeInv, NEW r \in Requests, Release(r)
  PROVE  /\ at' \in [Requests -> {"idle", "period", "number", "insert", "write"}]
         /\ act' \in [Requests -> Acts \union {NoEntry}]
         /\ number' \in [Requests -> 0..MaxNumber]
         /\ found' \in [Requests -> BOOLEAN]
         /\ at'[r] = "idle" /\ ~found'[r]
         /\ Running' = Running \ {r}
         /\ \A q \in Requests \ {r} : /\ at'[q] = at[q]
                                      /\ act'[q] = act[q]
                                      /\ number'[q] = number[q]
                                      /\ found'[q] = found[q]
  BY MaxNumberNat DEF Release, LedgerTypeInv, LedgerTypeOK, Running

LEMMA ReleaseType ==
  ASSUME LedgerTypeInv, NEW r \in Requests, Release(r),
         kind' = kind, dated' = dated,
         doc' \in [Docs -> DocStatuses],
         period' \in [Periods -> {"ABSENT", "OPEN", "CLOSED"}],
         journal' \in [Numbers -> {"ABSENT", "DRAFT", "POSTED", "VOID"}],
         date' \in [Numbers -> Periods \union {NoEntry}],
         linked' \in [Numbers -> BOOLEAN],
         entry' \in [Numbers -> (Docs \X Entries) \union {NoEntry}],
         raced' \subseteq Docs \union Periods \union Numbers
  PROVE  LedgerTypeInv'
  <1>1. LedgerTypeOK'
    BY ReleaseFrame DEF LedgerTypeInv, LedgerTypeOK
  <1> QED BY <1>1, ReleaseFrame, TypeFrame

\* The journal that a numbering request writes has the right types.
LEMMA AddJournalType ==
  ASSUME LedgerTypeInv, NEW r \in Running, at[r] = "write", Numbering(r),
         NEW st \in {"ABSENT", "DRAFT", "POSTED", "VOID"},
         NEW e \in (Docs \X Entries) \union {NoEntry}, AddJournal(r, st, e)
  PROVE  /\ journal' \in [Numbers -> {"ABSENT", "DRAFT", "POSTED", "VOID"}]
         /\ date' \in [Numbers -> Periods \union {NoEntry}]
         /\ linked' \in [Numbers -> BOOLEAN]
         /\ entry' \in [Numbers -> (Docs \X Entries) \union {NoEntry}]
         /\ number[r] \in Numbers
         /\ DateOf(r) \in Periods
  <1>1. r \in Requests /\ number[r] \in Numbers /\ DateOf(r) \in Periods
    BY RunningTypes DEF LedgerTypeInv, RequestShape
  <1> QED BY <1>1 DEF AddJournal, LedgerTypeInv, LedgerTypeOK

LEMMA CommitRow ==
  ASSUME LedgerTypeInv, NEW r \in Requests, NEW op, Commit(r, op)
  PROVE  /\ r \in Running /\ at[r] = "write" /\ act[r].op = op
         /\ Release(r)
         /\ kind' = kind /\ dated' = dated
         /\ raced \subseteq raced'
         /\ raced' \subseteq Docs \union Periods \union Numbers
         /\ \A q \in Running \ {r} : act[r].row \in Reads(q) => act[r].row \in raced'
  <1>1. r \in Running /\ at[r] = "write" /\ act[r].op = op
    BY DEF Commit, Running
  <1>2. act[r].row \in Docs \union Periods \union Numbers
    BY <1>1, RunningTypes
  <1>3. raced' = IF \E q \in Running \ {r} : act[r].row \in Reads(q)
                 THEN raced \union {act[r].row} ELSE raced
    BY DEF Commit
  <1>4. raced' = raced \/ raced' = raced \union {act[r].row}
    BY <1>3
  <1>5. ASSUME NEW q \in Running \ {r}, act[r].row \in Reads(q)
        PROVE  act[r].row \in raced'
    BY <1>3, <1>5
  <1> QED BY <1>1, <1>2, <1>4, <1>5 DEF Commit, LedgerTypeInv, LedgerTypeOK

LEMMA CommitType ==
  ASSUME LedgerTypeInv, NEW r \in Requests,
         \/ CommitMove(r) \/ CommitCreate(r) \/ CommitPost(r) \/ CommitVoid(r)
         \/ CommitOpen(r) \/ CommitClose(r)
  PROVE  LedgerTypeInv'
  <1>1. CASE CommitMove(r)
    <2>1. Commit(r, "move") /\ doc' = [doc EXCEPT ![act[r].row] = act[r].to] /\ period' = period
      BY <1>1 DEF CommitMove
    <2>2. r \in Running /\ act[r].row \in Docs /\ act[r].to \in DocStatuses
      BY <2>1, CommitRow, RunningTypes
    <2>3. doc' \in [Docs -> DocStatuses]
      BY <2>1, <2>2 DEF LedgerTypeInv, LedgerTypeOK
    <2>4. CASE act[r].to \in Entries
      <3>1. Numbering(r) /\ at[r] = "write"
        BY <2>1, <2>4, CommitRow DEF Numbering
      <3>2. AddJournal(r, "POSTED", <<act[r].row, act[r].to>>)
        BY <1>1, <2>4 DEF CommitMove
      <3>3. <<act[r].row, act[r].to>> \in (Docs \X Entries) \union {NoEntry}
        BY <2>2, <2>4
      <3> QED BY <2>1, <2>2, <2>3, <3>1, <3>2, <3>3, AddJournalType, CommitRow, ReleaseType
              DEF LedgerTypeInv, LedgerTypeOK
    <2>5. CASE act[r].to \notin Entries
      <3>1. UNCHANGED <<journal, date, linked, entry>>
        BY <1>1, <2>5 DEF CommitMove
      <3> QED BY <2>1, <2>3, <3>1, CommitRow, ReleaseType DEF LedgerTypeInv, LedgerTypeOK
    <2> QED BY <2>4, <2>5
  <1>2. CASE CommitCreate(r)
    <2>1. Commit(r, "journal") /\ AddJournal(r, "DRAFT", NoEntry) /\ UNCHANGED <<doc, period>>
      BY <1>2 DEF CommitCreate
    <2>2. Numbering(r) /\ at[r] = "write" /\ r \in Running
      BY <2>1, CommitRow DEF Numbering
    <2> QED BY <2>1, <2>2, AddJournalType, CommitRow, ReleaseType DEF LedgerTypeInv, LedgerTypeOK
  <1>3. CASE CommitPost(r) \/ CommitVoid(r)
    <2>1. PICK op \in {"post", "void"} : Commit(r, op)
      BY <1>3 DEF CommitPost, CommitVoid
    <2>2. r \in Running /\ act[r].row \in Numbers
      BY <2>1, CommitRow, RunningTypes
    <2>3. /\ UNCHANGED <<doc, period, date, linked, entry>>
          /\ journal' \in [Numbers -> {"ABSENT", "DRAFT", "POSTED", "VOID"}]
      BY <1>3, <2>2 DEF CommitPost, CommitVoid, LedgerTypeInv, LedgerTypeOK
    <2> QED BY <2>1, <2>3, CommitRow, ReleaseType DEF LedgerTypeInv, LedgerTypeOK
  <1>4. CASE CommitOpen(r) \/ CommitClose(r)
    <2>1. PICK op \in {"open", "close"} : Commit(r, op)
      BY <1>4 DEF CommitOpen, CommitClose
    <2>2. r \in Running /\ act[r].row \in Periods
      BY <2>1, CommitRow, RunningTypes
    <2>3. /\ UNCHANGED <<doc, journal, date, linked, entry>>
          /\ period' \in [Periods -> {"ABSENT", "OPEN", "CLOSED"}]
      BY <1>4, <2>2 DEF CommitOpen, CommitClose, LedgerTypeInv, LedgerTypeOK
    <2> QED BY <2>1, <2>3, CommitRow, ReleaseType DEF LedgerTypeInv, LedgerTypeOK
  <1> QED BY <1>1, <1>2, <1>3, <1>4

LEMMA AbortType ==
  ASSUME LedgerTypeInv, NEW r \in Requests, Abort(r)
  PROVE  LedgerTypeInv'
  BY ReleaseType DEF Abort, books, LedgerTypeInv, LedgerTypeOK

LEMMA LedgerTypeStep == LedgerTypeInv /\ [LedgerNext]_ledgerVars => LedgerTypeInv'
  <1> SUFFICES ASSUME LedgerTypeInv, [LedgerNext]_ledgerVars PROVE LedgerTypeInv'
    OBVIOUS
  <1>1. CASE UNCHANGED ledgerVars
    BY <1>1 DEF ledgerVars, books, requestVars, LedgerTypeInv, LedgerTypeOK, RequestShape, Running, Numbering
  <1>2. CASE LedgerNext
    BY <1>2, BeginStep, ReadPeriodType, NumberType, CommitType, AbortType DEF LedgerNext
  <1> QED BY <1>1, <1>2

\* Every variable of the books and of the requests keeps its type.
THEOREM LedgerTypeCorrect == LedgerSpec => []LedgerTypeOK
  <1>1. LedgerTypeInv => LedgerTypeOK
    BY DEF LedgerTypeInv
  <1> QED BY <1>1, LedgerTypeInit, LedgerTypeStep, PTL DEF LedgerSpec

-----------------------------------------------------------------------------
(* Statements that only read *)

LEMMA SafetyInit == LedgerInit => LedgerInv
  <1> SUFFICES ASSUME LedgerInit PROVE LedgerInv
    OBVIOUS
  <1>1. Running = {} /\ Written = {} /\ \A r \in Requests : ~found[r]
    BY DEF LedgerInit, Running, Written
  <1>2. \A d \in Docs, to \in Entries : EntriesOf(d, to) = {} /\ doc[d] \notin Entries
    <2> TAKE d \in Docs, to \in Entries
    <2>1. <<d, to>> # NoEntry
      BY NoneDistinct
    <2>2. EntriesOf(d, to) = {}
      BY <2>1 DEF LedgerInit, EntriesOf
    <2>3. doc[d] \in {"ABSENT", "DRAFT"}
      BY DEF LedgerInit
    <2> QED BY <2>2, <2>3 DEF Entries
  <1>3. JournalShape
    BY DEF LedgerInit, JournalShape
  <1>4. EntriesBacked
    BY <1>2 DEF EntriesBacked, Entries
  <1>5. EntryCurrent /\ EntryUnique
    BY <1>2 DEF EntryCurrent, EntryUnique, Entries
  <1> QED BY <1>1, <1>3, <1>4, <1>5, LedgerTypeInit DEF LedgerInv, RequestInv, TableInv, GaplessNumbers

\* A step that changes no row keeps the invariant if r stays informed.
LEMMA ReadOnly ==
  ASSUME LedgerInv, LedgerTypeInv', NEW r \in Requests,
         UNCHANGED <<kind, dated, books, raced>>,
         \A q \in Requests \ {r} : /\ at'[q] = at[q]
                                   /\ act'[q] = act[q]
                                   /\ number'[q] = number[q]
                                   /\ found'[q] = found[q],
         IF at'[r] = "idle" THEN ~found'[r] ELSE Informed(r)'
  PROVE  LedgerInv'
  <1>1. TableInv'
    <2>1. /\ TableInv /\ Written' = Written
          /\ \A d, to : EntriesOf(d, to)' = EntriesOf(d, to)
      BY DEF LedgerInv, Written, EntriesOf, books
    <2>2. JournalShape'
      BY <2>1 DEF TableInv, JournalShape, books
    <2>3. GaplessNumbers' /\ EntriesBacked'
      BY <2>1 DEF TableInv, GaplessNumbers, EntriesBacked, books
    <2>4. EntryCurrent' /\ EntryUnique'
      BY <2>1 DEF TableInv, EntryCurrent, EntryUnique, books
    <2> QED BY <2>2, <2>3, <2>4 DEF TableInv
  <1>2. ASSUME NEW q \in Running', q # r
        PROVE  Informed(q)'
    <2>1. q \in Running /\ q \in Requests \ {r}
      BY <1>2 DEF Running
    <2>2. Informed(q)
      BY <2>1 DEF LedgerInv, RequestInv
    <2>3. /\ act'[q] = act[q] /\ at'[q] = at[q]
          /\ number'[q] = number[q] /\ found'[q] = found[q]
          /\ DateOf(q)' = DateOf(q) /\ (Numbering(q)' <=> Numbering(q))
          /\ Written' = Written
          /\ \A d, to : EntriesOf(d, to)' = EntriesOf(d, to)
      BY <2>1 DEF DateOf, Numbering, Written, EntriesOf, books
    <2>4. NumberFits(q)'
      BY <2>2, <2>3 DEF Informed, NumberFits
    <2>5. NumberHeld(q)'
      <3>1. SUFFICES ASSUME at[q] = "write", Numbering(q)
                     PROVE  /\ journal'[number[q]] = "ABSENT"
                            /\ \A p \in Running' \ {q} :
                                 at'[p] = "write" /\ Numbering(p)' => number'[p] # number[q]
        BY <2>3 DEF NumberHeld
      <3>2. ASSUME NEW p \in Running' \ {q}, at'[p] = "write", Numbering(p)'
            PROVE  number'[p] # number[q]
        <4>1. CASE p = r
          <5>1. NumberHeld(r)' /\ at'[r] = "write"
            BY <3>2, <4>1 DEF Informed
          <5>2. number'[q] # number'[r]
            BY <5>1, <4>1, <3>1, <3>2, <1>2, <2>3 DEF NumberHeld
          <5> QED BY <5>2, <4>1, <2>3
        <4>2. CASE p # r
          <5>1. p \in Running \ {q} /\ Numbering(p) /\ at[p] = "write" /\ number'[p] = number[p]
            BY <4>2, <3>2 DEF Running, Numbering
          <5> QED BY <5>1, <3>1, <2>2 DEF Informed, NumberHeld
        <4> QED BY <4>1, <4>2
      <3> QED BY <3>1, <3>2, <2>2 DEF Informed, NumberHeld, books
    <2>6. MoveCurrent(q)'
      BY <2>2, <2>3 DEF Informed, MoveCurrent, books
    <2>7. JournalCurrent(q)'
      BY <2>2, <2>3 DEF Informed, JournalCurrent, books
    <2>8. PeriodCurrent(q)'
      BY <2>2, <2>3 DEF Informed, PeriodCurrent, books
    <2> QED BY <2>4, <2>5, <2>6, <2>7, <2>8 DEF Informed
  <1>3. \A q \in Requests \ Running' : ~found'[q]
    BY DEF LedgerInv, RequestInv, Running
  <1>4. \A q \in Running' : Informed(q)'
    BY <1>2 DEF Running
  <1> QED BY <1>1, <1>3, <1>4 DEF LedgerInv, RequestInv

LEMMA AbortSafe ==
  ASSUME LedgerInv, NEW r \in Requests, Abort(r)
  PROVE  LedgerInv'
  <1>1. LedgerTypeInv' /\ Release(r) /\ UNCHANGED <<kind, dated, books, raced>>
    BY AbortType DEF LedgerInv, Abort
  <1> QED BY <1>1, ReleaseFrame, ReadOnly DEF LedgerInv

\* The date of a request under way is that of a period.
LEMMA DateType ==
  ASSUME LedgerInv, NEW r \in Running
  PROVE  DateOf(r) \in Periods
  <1>1. act[r].op \in {"post", "void"} => date[act[r].row] \in Periods
    BY RunningTypes DEF LedgerInv, RequestInv, Informed, JournalCurrent, TableInv, JournalShape, Written
  <1>2. act[r].op = "move" => dated[act[r].row] \in Periods
    BY RunningTypes DEF LedgerInv, LedgerTypeInv, LedgerTypeOK
  <1>3. CASE act[r].op = "move"
    BY <1>2, <1>3 DEF DateOf
  <1>4. CASE act[r].op \in {"post", "void"}
    BY <1>1, <1>4 DEF DateOf
  <1>5. CASE act[r].op \in {"journal", "open", "close"}
    BY <1>5, RunningTypes DEF DateOf, LedgerInv
  <1> QED BY <1>3, <1>4, <1>5, RunningTypes DEF LedgerInv

LEMMA ReadPeriodSafe ==
  ASSUME LedgerInv, NEW r \in Requests, ReadPeriod(r)
  PROVE  LedgerInv'
  <1>1. r \in Running /\ at[r] = "period"
    BY DEF ReadPeriod, Running
  <1>2. /\ at'[r] = IF WritesJournal(r) THEN "number" ELSE "write"
        /\ found'[r] = (period[DateOf(r)] = "OPEN")
        /\ act' = act /\ number' = number
        /\ period[DateOf(r)] # "CLOSED"
        /\ UNCHANGED <<kind, dated, books, raced>>
        /\ \A q \in Requests \ {r} : at'[q] = at[q] /\ found'[q] = found[q]
    BY DEF ReadPeriod, LedgerInv, LedgerTypeInv, LedgerTypeOK
  <1>3. DateOf(r)' = DateOf(r) /\ Written' = Written
        /\ \A d, to : EntriesOf(d, to)' = EntriesOf(d, to)
    BY <1>2 DEF DateOf, Written, EntriesOf, books
  <1>4. Informed(r)
    BY <1>1 DEF LedgerInv, RequestInv
  <1>5. Numbering(r)' => at'[r] = "number"
    BY <1>2 DEF Numbering, WritesJournal
  <1>6. NumberFits(r)' /\ NumberHeld(r)'
    BY <1>5 DEF NumberFits, NumberHeld
  <1>7. MoveCurrent(r)'
    BY <1>2, <1>3, <1>4 DEF Informed, MoveCurrent, books
  <1>8. PeriodCurrent(r)'
    BY <1>2, <1>3 DEF PeriodCurrent, books
  <1>9. JournalCurrent(r)'
    <2>1. SUFFICES ASSUME act[r].op \in {"post", "void"}, linked[act[r].row]
                   PROVE  period[DateOf(r)] = "OPEN"
      BY <1>2, <1>3, <1>4 DEF Informed, JournalCurrent, books
    <2>2. DateOf(r) = date[act[r].row] /\ act[r].row \in Numbers
      BY <2>1, <1>1, RunningTypes DEF DateOf, LedgerInv
    <2>3. period[DateOf(r)] # "ABSENT"
      BY <2>1, <2>2 DEF LedgerInv, TableInv, JournalShape
    <2> QED BY <2>3, <1>1, <1>2, DateType DEF LedgerInv, LedgerTypeInv, LedgerTypeOK
  <1>10. Informed(r)'
    BY <1>6, <1>7, <1>8, <1>9 DEF Informed
  <1>11. LedgerTypeInv' /\ at'[r] # "idle"
    BY <1>2, ReadPeriodType DEF LedgerInv
  <1> QED BY <1>2, <1>10, <1>11, ReadOnly

LEMMA BeginSafe ==
  ASSUME LedgerInv, LedgerTypeInv', NEW r \in Requests, NEW op, NEW row, NEW to,
         NEW next \in {"period", "write"}, BeginRequest(r, op, row, to, next),
         next = "write" => ~Numbering(r)',
         MoveCurrent(r)', JournalCurrent(r)'
  PROVE  LedgerInv'
  <1>1. /\ at[r] = "idle" /\ at'[r] = next
        /\ UNCHANGED <<kind, dated, books, number, found, raced>>
        /\ \A q \in Requests \ {r} : at'[q] = at[q] /\ act'[q] = act[q]
    BY DEF BeginRequest, LedgerInv, LedgerTypeInv, LedgerTypeOK
  <1>2. ~found[r]
    BY <1>1 DEF LedgerInv, RequestInv, Running
  <1>3. Informed(r)'
    BY <1>1, <1>2 DEF Informed, NumberFits, NumberHeld, PeriodCurrent
  <1> QED BY <1>1, <1>3, ReadOnly

LEMMA MoveSafe ==
  ASSUME LedgerInv, LedgerTypeInv', NEW r \in Requests, NEW d \in Docs, NEW to \in DocStatuses, Move(r, d, to)
  PROVE  LedgerInv'
  <1>1. PICK next \in {"period", "write"} :
          /\ BeginRequest(r, "move", d, to, next)
          /\ next = "write" => to \notin Entries
    BY DEF Move
  <1>2. act'[r] = [op |-> "move", row |-> d, to |-> to]
    BY <1>1 DEF BeginRequest, LedgerInv, LedgerTypeInv, LedgerTypeOK
  <1>3. /\ act'[r].op = "move" /\ act'[r].row = d /\ act'[r].to = to
        /\ next = "write" => ~Numbering(r)'
    BY <1>1, <1>2 DEF Numbering
  <1>4. <<doc[d], to>> \in Moves(kind[d]) /\ kind[d] \in Kinds
    BY DEF Move, LedgerInv, LedgerTypeInv, LedgerTypeOK
  <1>5. to = "REFUNDED" => EntriesOf(d, "POSTED") # {}
    BY <1>4, MoveEnds DEF LedgerInv, TableInv, EntriesBacked, Entries
  <1>6. UNCHANGED <<kind, doc, entry, raced>>
    BY <1>1 DEF BeginRequest, books
  <1>7. MoveCurrent(r)' /\ JournalCurrent(r)'
    BY <1>3, <1>4, <1>5, <1>6 DEF MoveCurrent, JournalCurrent, EntriesOf
  <1> QED BY <1>1, <1>3, <1>7, BeginSafe

LEMMA JournalOrPeriodSafe ==
  ASSUME LedgerInv, LedgerTypeInv', NEW r \in Requests, NEW p \in Periods,
         CreateJournal(r, p) \/ CreatePeriod(r, p) \/ ClosePeriod(r, p)
  PROVE  LedgerInv'
  <1>1. PICK op \in {"journal", "open", "close"}, next \in {"period", "write"} :
          /\ BeginRequest(r, op, p, "none", next)
          /\ next = "write" => op # "journal"
    BY DEF CreateJournal, CreatePeriod, ClosePeriod
  <1>2. act'[r] = [op |-> op, row |-> p, to |-> "none"]
    BY <1>1 DEF BeginRequest, LedgerInv, LedgerTypeInv, LedgerTypeOK
  <1>3. act'[r].op = op /\ (next = "write" => ~Numbering(r)')
    BY <1>1, <1>2 DEF Numbering
  <1>4. MoveCurrent(r)' /\ JournalCurrent(r)'
    BY <1>3 DEF MoveCurrent, JournalCurrent
  <1> QED BY <1>1, <1>3, <1>4, BeginSafe

LEMMA PostOrVoidSafe ==
  ASSUME LedgerInv, LedgerTypeInv', NEW r \in Requests, NEW n \in Numbers,
         PostJournal(r, n) \/ VoidJournal(r, n)
  PROVE  LedgerInv'
  <1>1. PICK op \in {"post", "void"}, next \in {"period", "write"} :
          /\ BeginRequest(r, op, n, "none", next)
          /\ next = "write" => ~linked[n]
          /\ op = "post" => journal[n] = "DRAFT"
          /\ journal[n] \in {"DRAFT", "POSTED"}
    BY DEF PostJournal, VoidJournal
  <1>2. act'[r] = [op |-> op, row |-> n, to |-> "none"] /\ at'[r] = next
    BY <1>1 DEF BeginRequest, LedgerInv, LedgerTypeInv, LedgerTypeOK
  <1>3. act'[r].op = op /\ act'[r].row = n /\ ~Numbering(r)'
    BY <1>1, <1>2 DEF Numbering
  <1>4. UNCHANGED <<journal, linked>>
    BY <1>1 DEF BeginRequest, books
  <1>5. MoveCurrent(r)' /\ JournalCurrent(r)'
    BY <1>1, <1>2, <1>3, <1>4 DEF MoveCurrent, JournalCurrent, Written
  <1> QED BY <1>1, <1>3, <1>5, BeginSafe

\* ReadMax and InsertJournal leave all that r knows but the number.
LEMMA NumberSafe ==
  ASSUME LedgerInv, NEW r \in Requests, ReadMax(r) \/ InsertJournal(r)
  PROVE  LedgerInv'
  <1>1. LedgerTypeInv' /\ r \in Running /\ r \in Running' /\ Numbering(r)
    BY NumberType DEF LedgerInv, LedgerTypeInv, LedgerTypeOK, RequestShape, Running, ReadMax, InsertJournal
  <1>2. /\ UNCHANGED <<kind, dated, books, act, found, raced>>
        /\ \A q \in Requests \ {r} : at'[q] = at[q] /\ number'[q] = number[q]
    BY DEF ReadMax, InsertJournal, LedgerInv, LedgerTypeInv, LedgerTypeOK
  <1>3. /\ Numbering(r)' /\ DateOf(r)' = DateOf(r) /\ Written' = Written
        /\ \A d, to : EntriesOf(d, to)' = EntriesOf(d, to)
        /\ act[r].op \in {"journal", "move"}
    BY <1>1, <1>2 DEF Numbering, DateOf, Written, EntriesOf, books
  <1>4. Informed(r)
    BY <1>1 DEF LedgerInv, RequestInv
  <1>5. MoveCurrent(r)' /\ JournalCurrent(r)' /\ PeriodCurrent(r)'
    BY <1>2, <1>3, <1>4 DEF Informed, MoveCurrent, JournalCurrent, PeriodCurrent, books
  <1>6. NumberFits(r)' /\ NumberHeld(r)'
    <2>1. CASE ReadMax(r)
      <3>1. PICK n \in Numbers : n - 1 \in Written \union {0} /\ number' = [number EXCEPT ![r] = n]
        BY <2>1 DEF ReadMax
      <3>2. number'[r] = n /\ at'[r] = "insert"
        BY <2>1, <3>1 DEF ReadMax, LedgerInv, LedgerTypeInv, LedgerTypeOK
      <3>3. n = 1 \/ n - 1 \in Written
        BY <3>1, MaxNumberNat DEF Numbers
      <3> QED BY <3>2, <3>3, <1>3 DEF NumberFits, NumberHeld
    <2>2. CASE InsertJournal(r)
      <3>1. /\ journal[number[r]] = "ABSENT" /\ at[r] = "insert" /\ number' = number
            /\ \A q \in Requests : at[q] = "write" => number[q] # number[r]
        BY <2>2 DEF InsertJournal
      <3>2. NumberFits(r)'
        BY <3>1, <1>1, <1>3, <1>4 DEF Informed, NumberFits
      <3>3. NumberHeld(r)'
        BY <3>1, <1>2 DEF NumberHeld, Running, books
      <3> QED BY <3>2, <3>3
    <2> QED BY <2>1, <2>2
  <1>7. Informed(r)' /\ at'[r] # "idle"
    BY <1>1, <1>5, <1>6 DEF Informed, Running
  <1> QED BY <1>1, <1>2, <1>7, ReadOnly

-----------------------------------------------------------------------------
(* Commits *)

\* What a commit of r must leave to the other requests
LEMMA CommitFrame ==
  ASSUME LedgerInv, LedgerTypeInv', TableInv', NEW r \in Requests, NEW op, Commit(r, op),
         \A n \in Written : n \in Written' /\ date'[n] = date[n] /\ linked'[n] = linked[n],
         \A n \in Written : journal'[n] = journal[n] \/ n = act[r].row,
         \A d \in Docs, to \in Entries : EntriesOf(d, to) \subseteq EntriesOf(d, to)',
         \A d \in Docs : doc'[d] = doc[d] \/ d = act[r].row,
         \A p \in Periods :
           period'[p] = period[p] \/ (p = act[r].row /\ period'[p] # "ABSENT"),
         \A q \in Running \ {r} :
           at[q] = "write" /\ Numbering(q) => journal'[number[q]] = "ABSENT"
  PROVE  LedgerInv'
  <1>1. /\ r \in Running /\ Release(r) /\ kind' = kind /\ dated' = dated /\ raced \subseteq raced'
        /\ \A q \in Running \ {r} : act[r].row \in Reads(q) => act[r].row \in raced'
    BY CommitRow DEF LedgerInv
  <1>2. /\ Running' = Running \ {r} /\ ~found'[r]
        /\ \A q \in Requests \ {r} : /\ at'[q] = at[q] /\ act'[q] = act[q]
                                     /\ number'[q] = number[q] /\ found'[q] = found[q]
    BY <1>1, ReleaseFrame DEF LedgerInv
  <1>3. ASSUME NEW q \in Running'
        PROVE  Informed(q)'
    <2>1. q \in Running \ {r} /\ q \in Requests \ {r} /\ Informed(q)
      BY <1>2 DEF LedgerInv, RequestInv, Running
    <2>2. /\ act'[q] = act[q] /\ at'[q] = at[q]
          /\ number'[q] = number[q] /\ found'[q] = found[q]
          /\ (Numbering(q)' <=> Numbering(q))
      BY <1>2, <2>1 DEF Numbering
    <2>3. DateOf(q)' = DateOf(q)
      <3>1. act[q].op \in {"post", "void"} => act[q].row \in Written
        BY <2>1 DEF Informed, JournalCurrent
      <3>2. act[q].op \in {"post", "void"} => date'[act[q].row] = date[act[q].row]
        BY <3>1
      <3>3. CASE act[q].op \in {"post", "void"}
        BY <3>2, <3>3, <2>2 DEF DateOf
      <3>4. CASE act[q].op \notin {"post", "void"}
        BY <3>4, <2>2, <1>1 DEF DateOf
      <3> QED BY <3>3, <3>4
    <2>4. /\ act[q].op # "journal" => act[q].row \in Reads(q)
          /\ found[q] => DateOf(q) \in Reads(q)
      BY DEF Reads
    <2>5. /\ act[q].op \in {"post", "void"} => act[q].row \in Written
          /\ act[q].op = "move" => act[q].row \in Docs /\ act[q].to \in DocStatuses
      BY <2>1, RunningTypes DEF Informed, JournalCurrent, LedgerInv
    <2>6. NumberFits(q)'
      BY <2>1, <2>2 DEF Informed, NumberFits
    <2>7. NumberHeld(q)'
      <3>1. SUFFICES ASSUME at[q] = "write", Numbering(q)
                     PROVE  /\ journal'[number[q]] = "ABSENT"
                            /\ \A p \in Running' \ {q} :
                                 at'[p] = "write" /\ Numbering(p)' => number'[p] # number[q]
        BY <2>2 DEF NumberHeld
      <3>2. ASSUME NEW p \in Running' \ {q}, at'[p] = "write", Numbering(p)'
            PROVE  number'[p] # number[q]
        <4>1. p \in Running \ {q} /\ p \in Requests \ {r}
          BY <1>2 DEF Running
        <4>2. Numbering(p) /\ at[p] = "write" /\ number'[p] = number[p]
          BY <4>1, <1>2, <3>2 DEF Numbering
        <4> QED BY <4>1, <4>2, <3>1, <2>1 DEF Informed, NumberHeld
      <3> QED BY <3>1, <3>2, <2>1
    <2>8. MoveCurrent(q)'
      <3>1. SUFFICES ASSUME NEW d \in Docs, act[q].op = "move", d = act[q].row
                     PROVE  /\ d \in raced' \/ <<doc'[d], act[q].to>> \in Moves(kind[d])
                            /\ act[q].to = "REFUNDED" => EntriesOf(d, "POSTED")' # {}
        BY <2>2, <2>5, <1>1 DEF MoveCurrent, EntriesOf
      <3>2. doc'[d] = doc[d] \/ d \in raced'
        BY <3>1, <2>1, <2>4, <1>1
      <3>3. EntriesOf(d, "POSTED") \subseteq EntriesOf(d, "POSTED")'
        BY DEF Entries
      <3> QED BY <3>1, <3>2, <3>3, <2>1, <1>1 DEF Informed, MoveCurrent
    <2>9. JournalCurrent(q)'
      <3>1. SUFFICES ASSUME act[q].op \in {"post", "void"}
                     PROVE  /\ act[q].row \in Written'
                            /\ act[q].op = "post" =>
                                 act[q].row \in raced' \/ journal'[act[q].row] = "DRAFT"
                            /\ at[q] = "write" /\ linked'[act[q].row] => found[q]
        BY <2>2 DEF JournalCurrent
      <3>2. journal'[act[q].row] = journal[act[q].row] \/ act[q].row \in raced'
        BY <3>1, <2>1, <2>4, <2>5, <1>1
      <3> QED BY <3>1, <3>2, <2>1, <2>5, <1>1 DEF Informed, JournalCurrent
    <2>10. PeriodCurrent(q)'
      <3>1. SUFFICES ASSUME found[q]
                     PROVE  /\ period'[DateOf(q)] # "ABSENT"
                            /\ DateOf(q) \in raced' \/ period'[DateOf(q)] = "OPEN"
        BY <2>2, <2>3 DEF PeriodCurrent
      <3>2. DateOf(q) \in Periods /\ DateOf(q) \in Reads(q)
        BY <3>1, <2>1, <2>4, DateType
      <3> QED BY <3>1, <3>2, <2>1, <1>1 DEF Informed, PeriodCurrent
    <2> QED BY <2>6, <2>7, <2>8, <2>9, <2>10 DEF Informed
  <1>4. \A q \in Requests \ Running' : ~found'[q]
    BY <1>2 DEF LedgerInv, RequestInv
  <1> QED BY <1>3, <1>4 DEF LedgerInv, RequestInv

\* Opening and closing touch neither documents nor journals.
LEMMA CommitPeriodSafe ==
  ASSUME LedgerInv, NEW r \in Requests, CommitOpen(r) \/ CommitClose(r)
  PROVE  LedgerInv'
  <1>1. PICK op \in {"open", "close"} : Commit(r, op)
    BY DEF CommitOpen, CommitClose
  <1>2. /\ UNCHANGED <<doc, journal, date, linked, entry, kind>>
        /\ \E st \in {"OPEN", "CLOSED"} : period' = [period EXCEPT ![act[r].row] = st]
        /\ raced \subseteq raced'
    BY <1>1, CommitRow DEF CommitOpen, CommitClose, LedgerInv
  <1>3. /\ \A p \in Periods :
           period'[p] = period[p] \/ (p = act[r].row /\ period'[p] # "ABSENT")
        /\ Written' = Written
        /\ \A d, to : EntriesOf(d, to)' = EntriesOf(d, to)
    BY <1>2 DEF Written, EntriesOf, LedgerInv, LedgerTypeInv, LedgerTypeOK
  <1>4. JournalShape'
    BY <1>2, <1>3 DEF LedgerInv, TableInv, JournalShape
  <1>5. GaplessNumbers' /\ EntriesBacked'
    BY <1>2, <1>3 DEF LedgerInv, TableInv, GaplessNumbers, EntriesBacked
  <1>6. EntryCurrent' /\ EntryUnique'
    BY <1>2, <1>3 DEF LedgerInv, TableInv, EntryCurrent, EntryUnique
  <1>7. LedgerTypeInv' /\ TableInv'
    BY <1>4, <1>5, <1>6, CommitType DEF LedgerInv, TableInv
  <1>8. \A q \in Running \ {r} :
           at[q] = "write" /\ Numbering(q) => journal'[number[q]] = "ABSENT"
    BY <1>2 DEF LedgerInv, RequestInv, Informed, NumberHeld
  <1> QED BY <1>1, <1>2, <1>3, <1>7, <1>8, CommitFrame

\* Posting and voiding change the status of a journal that exists.
LEMMA CommitStatusSafe ==
  ASSUME LedgerInv, NEW r \in Requests, CommitPost(r) \/ CommitVoid(r)
  PROVE  LedgerInv'
  <1>1. PICK op \in {"post", "void"} : Commit(r, op)
    BY DEF CommitPost, CommitVoid
  <1>2. /\ UNCHANGED <<doc, period, date, linked, entry, kind>>
        /\ \E st \in {"POSTED", "VOID"} : journal' = [journal EXCEPT ![act[r].row] = st]
        /\ raced \subseteq raced'
    BY <1>1, CommitRow DEF CommitPost, CommitVoid, LedgerInv
  <1>3. act[r].row \in Written
    BY <1>1, CommitRow DEF LedgerInv, RequestInv, Informed, JournalCurrent
  <1>4. /\ \A n \in Numbers :
             journal'[n] = journal[n] \/ (n = act[r].row /\ journal'[n] # "ABSENT")
        /\ Written' = Written
        /\ \A d, to : EntriesOf(d, to)' = EntriesOf(d, to)
    BY <1>2, <1>3 DEF Written, EntriesOf, LedgerInv, LedgerTypeInv, LedgerTypeOK
  <1>5. JournalShape'
    BY <1>2, <1>3, <1>4 DEF LedgerInv, TableInv, JournalShape, Written
  <1>6. GaplessNumbers' /\ EntriesBacked'
    BY <1>2, <1>4 DEF LedgerInv, TableInv, GaplessNumbers, EntriesBacked
  <1>7. EntryCurrent' /\ EntryUnique'
    BY <1>2, <1>4 DEF LedgerInv, TableInv, EntryCurrent, EntryUnique
  <1>8. LedgerTypeInv' /\ TableInv'
    BY <1>5, <1>6, <1>7, CommitType DEF LedgerInv, TableInv
  <1>9. ASSUME NEW q \in Running \ {r}, at[q] = "write", Numbering(q)
        PROVE  journal'[number[q]] = "ABSENT"
    <2>1. number[q] \in Numbers /\ journal[number[q]] = "ABSENT"
      BY <1>9 DEF LedgerInv, LedgerTypeInv, RequestShape, RequestInv, Informed, NumberHeld
    <2> QED BY <2>1, <1>3, <1>4 DEF Written
  <1>10. \A n \in Written : journal'[n] = journal[n] \/ n = act[r].row
    BY <1>4 DEF Written
  <1> QED BY <1>1, <1>2, <1>4, <1>8, <1>9, <1>10, CommitFrame

\* What writing a journal does to the books, whatever it is written for
LEMMA AddJournalEffect ==
  ASSUME LedgerInv, NEW r \in Running, at[r] = "write", Numbering(r),
         NEW st \in {"DRAFT", "POSTED"}, NEW e \in (Docs \X Entries) \union {NoEntry},
         e # NoEntry => st = "POSTED", AddJournal(r, st, e), period' = period
  PROVE  /\ number[r] \in Numbers \ Written
         /\ Written' = Written \union {number[r]}
         /\ \A n \in Written : /\ n \in Written' /\ journal'[n] = journal[n]
                               /\ date'[n] = date[n] /\ linked'[n] = linked[n]
         /\ \A d \in Docs, to \in Entries :
              /\ number[r] \notin EntriesOf(d, to)
              /\ e # <<d, to>> => EntriesOf(d, to)' = EntriesOf(d, to)
              /\ e = <<d, to>> => EntriesOf(d, to)' = EntriesOf(d, to) \union {number[r]}
         /\ \A q \in Running \ {r} :
              at[q] = "write" /\ Numbering(q) => journal'[number[q]] = "ABSENT"
         /\ JournalShape' /\ GaplessNumbers'
  <1> DEFINE n == number[r]
  <1>1. n \in Numbers /\ journal[n] = "ABSENT" /\ (n = 1 \/ n - 1 \in Written)
    BY DEF LedgerInv, LedgerTypeInv, RequestShape, RequestInv, Informed, NumberHeld, NumberFits
  <1>2. DateOf(r) \in Periods /\ (found[r] => period[DateOf(r)] # "ABSENT")
    BY DateType DEF LedgerInv, RequestInv, Informed, PeriodCurrent
  <1>3. entry[n] = NoEntry
    BY <1>1 DEF LedgerInv, TableInv, JournalShape
  <1>4. /\ journal'[n] = st /\ date'[n] = DateOf(r) /\ linked'[n] = found[r] /\ entry'[n] = e
        /\ \A m \in Numbers \ {n} : /\ journal'[m] = journal[m] /\ date'[m] = date[m]
                                    /\ linked'[m] = linked[m] /\ entry'[m] = entry[m]
    BY <1>1 DEF AddJournal, LedgerInv, LedgerTypeInv, LedgerTypeOK
  <1>5. ASSUME NEW q \in Running \ {r}, at[q] = "write", Numbering(q)
        PROVE  journal'[number[q]] = "ABSENT"
    <2>1. number[q] \in Numbers \ {n} /\ journal[number[q]] = "ABSENT"
      BY <1>5 DEF LedgerInv, LedgerTypeInv, RequestShape, RequestInv, Informed, NumberHeld
    <2> QED BY <2>1, <1>4
  <1> HIDE DEF n
  <1>6. Written' = Written \union {n} /\ n \notin Written
    BY <1>1, <1>4 DEF Written
  <1>7. ASSUME NEW d \in Docs, NEW to \in Entries
        PROVE  /\ n \notin EntriesOf(d, to)
               /\ e # <<d, to>> => EntriesOf(d, to)' = EntriesOf(d, to)
               /\ e = <<d, to>> => EntriesOf(d, to)' = EntriesOf(d, to) \union {n}
    <2>1. entry[n] # <<d, to>>
      BY <1>3, NoneDistinct
    <2> QED BY <2>1, <1>1, <1>4 DEF EntriesOf
  <1>8. JournalShape'
    <2>1. \A m \in Numbers : entry'[m] # NoEntry => journal'[m] \in {"POSTED", "VOID"}
      BY <1>1, <1>4 DEF LedgerInv, TableInv, JournalShape
    <2> QED BY <1>2, <1>4, <2>1 DEF LedgerInv, TableInv, JournalShape
  <1>9. GaplessNumbers'
    BY <1>1, <1>6 DEF LedgerInv, TableInv, GaplessNumbers
  <1>10. \A m \in Written : m \in Numbers \ {n}
    BY <1>6 DEF Written
  <1> QED BY <1>1, <1>4, <1>5, <1>6, <1>7, <1>8, <1>9, <1>10 DEF n

LEMMA CommitCreateSafe ==
  ASSUME LedgerInv, NEW r \in Requests, CommitCreate(r)
  PROVE  LedgerInv'
  <1>1. Commit(r, "journal") /\ AddJournal(r, "DRAFT", NoEntry) /\ UNCHANGED <<doc, period>>
    BY DEF CommitCreate
  <1>2. r \in Running /\ at[r] = "write" /\ Numbering(r) /\ raced \subseteq raced'
    BY <1>1, CommitRow DEF Numbering, LedgerInv
  <1>3. \A d \in Docs, to \in Entries : NoEntry # <<d, to>>
    BY NoneDistinct
  <1>4. \A d \in Docs, to \in Entries : EntriesOf(d, to)' = EntriesOf(d, to)
    BY <1>1, <1>2, <1>3, AddJournalEffect
  <1>5. JournalShape' /\ GaplessNumbers'
    BY <1>1, <1>2, AddJournalEffect
  <1>6. EntriesBacked'
    BY <1>1, <1>4 DEF LedgerInv, TableInv, EntriesBacked, Entries
  <1>7. EntryCurrent' /\ EntryUnique'
    BY <1>1, <1>2, <1>4 DEF LedgerInv, TableInv, EntryCurrent, EntryUnique, Entries
  <1>8. LedgerTypeInv' /\ TableInv'
    BY <1>5, <1>6, <1>7, CommitType DEF LedgerInv, TableInv
  <1> QED BY <1>1, <1>2, <1>4, <1>8, AddJournalEffect, CommitFrame

\* A document that changes its status without a journal has none yet, so the
\* books still agree with it.
LEMMA PlainMoveSafe ==
  ASSUME LedgerInv, NEW r \in Requests, CommitMove(r), act[r].to \notin Entries
  PROVE  LedgerInv'
  <1> DEFINE d == act[r].row
  <1>1. /\ Commit(r, "move") /\ doc' = [doc EXCEPT ![d] = act[r].to]
        /\ UNCHANGED <<journal, date, linked, entry, period>>
    BY DEF CommitMove
  <1>2. /\ r \in Running /\ raced \subseteq raced'
        /\ d \in Docs /\ act[r].op = "move" /\ act[r].to \in DocStatuses
    BY <1>1, CommitRow, RunningTypes DEF LedgerInv
  <1> HIDE DEF d
  <1>3. /\ doc'[d] = act[r].to /\ \A x \in Docs \ {d} : doc'[x] = doc[x]
        /\ Written' = Written
        /\ \A x, to : EntriesOf(x, to)' = EntriesOf(x, to)
    BY <1>1, <1>2 DEF Written, EntriesOf, LedgerInv, LedgerTypeInv, LedgerTypeOK
  <1>4. d \notin raced' => doc[d] \in {"DRAFT", "SUBMITTED"}
    <2>1. d \notin raced' => <<doc[d], act[r].to>> \in Moves(kind[d])
      BY <1>2 DEF d, LedgerInv, RequestInv, Informed, MoveCurrent
    <2> QED BY <2>1, <1>2, MoveEnds DEF LedgerInv, LedgerTypeInv, LedgerTypeOK
  <1>5. JournalShape' /\ GaplessNumbers'
    BY <1>1, <1>3 DEF LedgerInv, TableInv, JournalShape, GaplessNumbers
  <1>6. EntriesBacked'
    BY <1>2, <1>3 DEF LedgerInv, TableInv, EntriesBacked, Entries
  <1>7. EntryCurrent'
    BY <1>2, <1>3, <1>4 DEF LedgerInv, TableInv, EntryCurrent, Entries
  <1>8. EntryUnique'
    BY <1>2, <1>3 DEF LedgerInv, TableInv, EntryUnique
  <1>9. LedgerTypeInv' /\ TableInv'
    BY <1>5, <1>6, <1>7, <1>8, CommitType DEF LedgerInv, TableInv
  <1>10. \A q \in Running \ {r} :
            at[q] = "write" /\ Numbering(q) => journal'[number[q]] = "ABSENT"
    BY <1>1 DEF LedgerInv, RequestInv, Informed, NumberHeld
  <1> QED BY <1>1, <1>3, <1>9, <1>10, CommitFrame DEF d

\* A document is posted or refunded together with its journal, its first one
\* unless it was raced.
LEMMA EntryMoveSafe ==
  ASSUME LedgerInv, NEW r \in Requests, CommitMove(r),
         NEW d, NEW to \in Entries, act[r].row = d, act[r].to = to
  PROVE  LedgerInv'
  <1>1. /\ Commit(r, "move") /\ doc' = [doc EXCEPT ![d] = to]
        /\ AddJournal(r, "POSTED", <<d, to>>) /\ period' = period
    BY DEF CommitMove
  <1>2. /\ r \in Running /\ at[r] = "write" /\ Numbering(r) /\ raced \subseteq raced'
        /\ d \in Docs /\ act[r].op = "move" /\ to \in DocStatuses
    BY <1>1, CommitRow, RunningTypes DEF LedgerInv, Numbering
  <1>3. /\ d \notin raced' => <<doc[d], to>> \in Moves(kind[d])
        /\ to = "REFUNDED" => EntriesOf(d, "POSTED") # {}
    BY <1>2 DEF LedgerInv, RequestInv, Informed, MoveCurrent
  <1>4. doc'[d] = to /\ \A x \in Docs \ {d} : doc'[x] = doc[x]
    BY <1>1, <1>2 DEF LedgerInv, LedgerTypeInv, LedgerTypeOK
  <1>5. <<d, to>> \in (Docs \X Entries) \union {NoEntry}
    BY <1>2
  <1>6. /\ EntriesOf(d, to)' = EntriesOf(d, to) \union {number[r]}
        /\ \A x \in Docs, y \in Entries : x # d \/ y # to => EntriesOf(x, y)' = EntriesOf(x, y)
    BY <1>1, <1>2, <1>5, AddJournalEffect
  <1>7. d \notin raced' => /\ to = "POSTED" => doc[d] \in {"APPROVED", "ABSENT"}
                           /\ to = "REFUNDED" => doc[d] = "POSTED"
    BY <1>2, <1>3, MoveEnds DEF LedgerInv, LedgerTypeInv, LedgerTypeOK
  <1>8. d \notin raced' => EntriesOf(d, to) = {}
    <2>1. ASSUME d \notin raced' PROVE EntriesOf(d, to) = {}
      <3>1. d \in Docs \ raced
        BY <1>2, <2>1
      <3>2. CASE to = "POSTED"
        BY <3>1, <3>2, <2>1, <1>7 DEF LedgerInv, TableInv, EntryCurrent, Entries
      <3>3. CASE to = "REFUNDED"
        BY <3>1, <3>3, <2>1, <1>7 DEF LedgerInv, TableInv, EntryCurrent, Entries
      <3> QED BY <3>2, <3>3 DEF Entries
    <2> QED BY <2>1
  <1>9. JournalShape' /\ GaplessNumbers'
    BY <1>1, <1>2, <1>5, AddJournalEffect
  <1>10. EntriesBacked'
    <2>1. ASSUME NEW x \in Docs, NEW y \in Entries, doc'[x] = y
          PROVE  EntriesOf(x, y)' # {} /\ (y = "REFUNDED" => EntriesOf(x, "POSTED")' # {})
      <3>1. CASE x = d
        BY <3>1, <2>1, <1>2, <1>3, <1>4, <1>6 DEF Entries
      <3>2. CASE x # d
        BY <3>2, <2>1, <1>4, <1>6 DEF LedgerInv, TableInv, EntriesBacked, Entries
      <3> QED BY <3>1, <3>2
    <2> QED BY <2>1 DEF EntriesBacked, EntriesOf, Entries
  <1>11. EntryCurrent'
    <2>1. ASSUME NEW x \in Docs \ raced'
          PROVE  /\ EntriesOf(x, "POSTED")' # {} => doc'[x] \in Entries
                 /\ EntriesOf(x, "REFUNDED")' # {} => doc'[x] = "REFUNDED"
      <3>1. x \in Docs \ raced
        BY <1>2
      <3>2. CASE x # d
        BY <3>1, <3>2, <1>4, <1>6 DEF LedgerInv, TableInv, EntryCurrent, Entries
      <3>3. CASE x = d
        BY <3>1, <3>3, <1>4, <1>6, <1>7 DEF LedgerInv, TableInv, EntryCurrent, Entries
      <3> QED BY <3>2, <3>3
    <2> QED BY <2>1 DEF EntryCurrent
  <1>12. EntryUnique'
    <2>1. ASSUME NEW x \in Docs \ raced', NEW y \in Entries
          PROVE  \A m, n \in EntriesOf(x, y)' : m = n
      <3>1. x \in Docs \ raced
        BY <1>2
      <3>2. CASE x = d /\ y = to
        BY <3>2, <1>6, <1>8
      <3>3. CASE x # d \/ y # to
        BY <3>1, <3>3, <1>6 DEF LedgerInv, TableInv, EntryUnique
      <3> QED BY <3>2, <3>3
    <2> QED BY <2>1 DEF EntryUnique
  <1>13. LedgerTypeInv' /\ TableInv'
    BY <1>9, <1>10, <1>11, <1>12, CommitType DEF LedgerInv, TableInv
  <1>14. \A x \in Docs, y \in Entries : EntriesOf(x, y) \subseteq EntriesOf(x, y)'
    BY <1>6
  <1>15. \A x \in Docs : doc'[x] = doc[x] \/ x = act[r].row
    BY <1>4
  <1>16. /\ \A n \in Written : /\ n \in Written' /\ journal'[n] = journal[n]
                               /\ date'[n] = date[n] /\ linked'[n] = linked[n]
         /\ \A q \in Running \ {r} :
              at[q] = "write" /\ Numbering(q) => journal'[number[q]] = "ABSENT"
    BY <1>1, <1>2, <1>5, AddJournalEffect
  <1> QED BY <1>1, <1>13, <1>14, <1>15, <1>16, CommitFrame

LEMMA CommitSafe ==
  ASSUME LedgerInv, NEW r \in Requests,
         \/ CommitMove(r) \/ CommitCreate(r) \/ CommitPost(r) \/ CommitVoid(r)
         \/ CommitOpen(r) \/ CommitClose(r)
  PROVE  LedgerInv'
  <1>1. CASE CommitMove(r) /\ act[r].to \in Entries
    BY <1>1, EntryMoveSafe
  <1>2. CASE CommitMove(r) /\ act[r].to \notin Entries
    BY <1>2, PlainMoveSafe
  <1> QED BY <1>1, <1>2, CommitCreateSafe, CommitStatusSafe, CommitPeriodSafe

LEMMA SafetyStep == LedgerInv /\ [LedgerNext]_ledgerVars => LedgerInv'
  <1> SUFFICES ASSUME LedgerInv, [LedgerNext]_ledgerVars PROVE LedgerInv'
    OBVIOUS
  <1>1. LedgerTypeInv'
    BY LedgerTypeStep DEF LedgerInv
  <1>2. CASE UNCHANGED ledgerVars
    <2>1. CASE Requests = {}
      <3>1. Running' = {}
        BY <2>1 DEF Running
      <3> QED BY <2>1, <3>1, <1>1, <1>2
              DEF ledgerVars, books, requestVars, LedgerInv, RequestInv, TableInv, JournalShape,
                  GaplessNumbers, EntriesBacked, EntryCurrent, EntryUnique, EntriesOf, Written
    <2>2. ASSUME NEW r \in Requests PROVE LedgerInv'
      <3>1. at[r] # "idle" => Informed(r)
        BY DEF LedgerInv, RequestInv, Running
      <3>2. at[r] = "idle" => ~found[r]
        BY DEF LedgerInv, RequestInv, Running
      <3>3. Informed(r)' <=> Informed(r)
        BY <1>2 DEF ledgerVars, books, requestVars, Informed, NumberFits, NumberHeld, MoveCurrent,
                    JournalCurrent, PeriodCurrent, Numbering, DateOf, Written, Running, EntriesOf
      <3> QED BY <1>1, <1>2, <3>1, <3>2, <3>3, ReadOnly DEF ledgerVars, requestVars
    <2> QED BY <2>1, <2>2
  <1>3. CASE LedgerNext
    <2> PICK r \in Requests :
          \/ \E d \in Docs, to \in DocStatuses : Move(r, d, to)
          \/ \E p \in Periods : CreateJournal(r, p) \/ CreatePeriod(r, p) \/ ClosePeriod(r, p)
          \/ \E n \in Numbers : PostJournal(r, n) \/ VoidJournal(r, n)
          \/ ReadPeriod(r) \/ ReadMax(r) \/ InsertJournal(r)
          \/ CommitMove(r) \/ CommitCreate(r) \/ CommitPost(r) \/ CommitVoid(r)
          \/ CommitOpen(r) \/ CommitClose(r) \/ Abort(r)
      BY <1>3 DEF LedgerNext
    <2> QED BY <1>1, MoveSafe, JournalOrPeriodSafe, PostOrVoidSafe, ReadPeriodSafe, NumberSafe,
               CommitSafe, AbortSafe
  <1> QED BY <1>2, <1>3

LEMMA SafetyAlways == LedgerSpec => []LedgerInv
  BY SafetyInit, SafetyStep, PTL DEF LedgerSpec

-----------------------------------------------------------------------------
(* Ledger: what follows *)

\* Journal numbers have no gaps, however the requests that compute them from
\* the maximum overlap and fail.  (writeJournal)
THEOREM Gapless == LedgerSpec => []GaplessNumbers
  <1>1. LedgerInv => GaplessNumbers
    BY DEF LedgerInv, TableInv
  <1> QED BY <1>1, SafetyAlways, PTL

\* The journal of an entry is posted or void.
LEMMA EntryStatus ==
  ASSUME LedgerInv, NEW d \in Docs, NEW to \in Entries, NEW n \in EntriesOf(d, to)
  PROVE  journal[n] \in {"POSTED", "VOID"}
  <1>1. n \in Numbers /\ entry[n] = <<d, to>> /\ entry[n] # NoEntry
    BY NoneDistinct DEF EntriesOf
  <1> QED BY <1>1 DEF LedgerInv, TableInv, JournalShape

\* A posted or refunded document has the journals that back it, posted or voided
\* since.  (CommitMove: document and journal are one transaction)
THEOREM Backed == LedgerSpec => []PostedIsBacked
  <1>1. ASSUME LedgerInv, NEW d \in Docs, NEW to \in Says(d)
        PROVE  to \in EntriesWith(d, "POSTED") \union EntriesWith(d, "VOID")
    <2>1. to \in Entries
      BY <1>1 DEF Says
    <2>2. EntriesOf(d, to) # {}
      BY <1>1, <2>1 DEF LedgerInv, TableInv, EntriesBacked, Says, Entries
    <2>3. PICK n \in EntriesOf(d, to) : TRUE
      BY <2>2
    <2>4. journal[n] \in {"POSTED", "VOID"}
      BY <1>1, <2>1, EntryStatus
    <2> QED BY <2>1, <2>4 DEF EntriesWith
  <1>2. LedgerInv => PostedIsBacked
    BY <1>1 DEF PostedIsBacked
  <1> QED BY <1>2, SafetyAlways, PTL

\* What is booked for a document that was not raced is what its status says, less
\* what was voided.  (CommitMove and CommitVoid: no other step changes either)
THEOREM BookedIsSaid == LedgerSpec => []BookedAsSaid
  <1>1. ASSUME LedgerInv, NEW d \in Docs \ raced, NEW to \in EntriesWith(d, "POSTED")
        PROVE  to \in Says(d) /\ to \notin EntriesWith(d, "VOID")
    <2>1. PICK n \in EntriesOf(d, to) : journal[n] = "POSTED"
      BY DEF EntriesWith
    <2>2. to \in Entries
      BY DEF EntriesWith
    <2>3. to \in Says(d)
      BY <1>1, <2>1, <2>2 DEF LedgerInv, TableInv, EntryCurrent, Says, Entries
    <2>4. \A m \in EntriesOf(d, to) : m = n
      BY <1>1, <2>1, <2>2 DEF LedgerInv, TableInv, EntryUnique
    <2>5. to \notin EntriesWith(d, "VOID")
      BY <2>1, <2>4 DEF EntriesWith
    <2> QED BY <2>3, <2>5
  <1>2. ASSUME LedgerInv, PostedIsBacked
        PROVE  BookedAsSaid
    <2>1. ASSUME NEW d \in Docs \ raced
          PROVE  EntriesWith(d, "POSTED") = Says(d) \ EntriesWith(d, "VOID")
      <3>1. Says(d) \subseteq EntriesWith(d, "POSTED") \union EntriesWith(d, "VOID")
        BY <1>2 DEF PostedIsBacked
      <3>2. \A to \in EntriesWith(d, "POSTED") : to \in Says(d) /\ to \notin EntriesWith(d, "VOID")
        BY <1>1, <1>2
      <3> QED BY <3>1, <3>2
    <2> QED BY <2>1 DEF BookedAsSaid
  <1> QED BY <1>2, Backed, SafetyAlways, PTL

LEMMA AtMostOne ==
  ASSUME NEW S, \A m, n \in S : m = n
  PROVE  Cardinality(S) <= 1
  <1>1. CASE S = {}
    BY <1>1, FS_EmptySet
  <1>2. ASSUME NEW n \in S PROVE Cardinality(S) <= 1
    <2>1. S = {n}
      BY <1>2
    <2>2. Cardinality({n}) = 1
      BY FS_Singleton
    <2> QED BY <2>1, <2>2
  <1> QED BY <1>1, <1>2

\* Only requests that overlap on a document can enter it twice.
THEOREM EnteredOnceUnlessRaced == LedgerSpec => []EnteredOnce
  <1>1. LedgerInv => EnteredOnce
    BY AtMostOne DEF LedgerInv, TableInv, EntryUnique, EnteredOnce
  <1> QED BY <1>1, SafetyAlways, PTL

\* The requests that can change the status of a journal, and how
LEMMA JournalChange ==
  ASSUME LedgerInv, [LedgerNext]_ledgerVars, NEW n \in Numbers, journal'[n] # journal[n]
  PROVE  \E r \in Running :
           \/ /\ at[r] = "write" /\ Numbering(r) /\ n = number[r]
              /\ date'[n] = DateOf(r) /\ linked'[n] = found[r]
           \/ /\ at[r] = "write" /\ act[r].op = "post" /\ n = act[r].row
              /\ date'[n] = date[n] /\ linked'[n] = linked[n]
           \/ /\ at[r] = "write" /\ act[r].op = "void" /\ n = act[r].row
              /\ date'[n] = date[n] /\ linked'[n] = linked[n] /\ journal'[n] = "VOID"
  <1>1. PICK r \in Requests :
          \/ CommitMove(r) /\ act[r].to \in Entries
          \/ CommitCreate(r) \/ CommitPost(r) \/ CommitVoid(r)
    BY DEF LedgerNext, ledgerVars, books, Move, CreateJournal, CreatePeriod, ClosePeriod, PostJournal,
           VoidJournal, BeginRequest, ReadPeriod, ReadMax, InsertJournal, CommitMove, CommitOpen,
           CommitClose, Abort
  <1>2. ASSUME NEW st, NEW e, NEW op, Commit(r, op), AddJournal(r, st, e), Numbering(r)
        PROVE  /\ r \in Running /\ at[r] = "write" /\ n = number[r]
               /\ date'[n] = DateOf(r) /\ linked'[n] = found[r]
    <2>1. r \in Running /\ at[r] = "write"
      BY <1>2, CommitRow DEF LedgerInv
    <2> QED BY <1>2, <2>1 DEF AddJournal, LedgerInv, LedgerTypeInv, LedgerTypeOK
  <1>3. CASE CommitMove(r) /\ act[r].to \in Entries
    BY <1>2, <1>3 DEF CommitMove, Commit, Numbering
  <1>4. CASE CommitCreate(r)
    BY <1>2, <1>4 DEF CommitCreate, Commit, Numbering
  <1>5. CASE CommitPost(r)
    BY <1>5 DEF CommitPost, Commit, Running, LedgerInv, LedgerTypeInv, LedgerTypeOK
  <1>6. CASE CommitVoid(r)
    BY <1>6 DEF CommitVoid, Commit, Running, LedgerInv, LedgerTypeInv, LedgerTypeOK
  <1> QED BY <1>1, <1>3, <1>4, <1>5, <1>6

\* Without an overlap with its closing, a period that a journal is linked to
\* is open whenever the journal is written, posted or voided.
THEOREM Sealed == LedgerSpec => SealedUnlessRaced
  <1>1. ASSUME LedgerInv, [LedgerNext]_ledgerVars, NEW n \in Numbers, journal'[n] # journal[n]
        PROVE  period[date'[n]] # "CLOSED" \/ date'[n] \in raced \/ ~linked'[n]
    <2>1. PICK r \in Running :
            \/ date'[n] = DateOf(r) /\ linked'[n] = found[r]
            \/ /\ at[r] = "write" /\ act[r].op \in {"post", "void"} /\ n = act[r].row
               /\ date'[n] = date[n] /\ linked'[n] = linked[n]
      BY <1>1, JournalChange
    <2>2. Informed(r)
      BY <1>1 DEF LedgerInv, RequestInv
    <2>3. CASE date'[n] = DateOf(r) /\ linked'[n] = found[r]
      BY <2>2, <2>3 DEF Informed, PeriodCurrent
    <2>4. CASE /\ at[r] = "write" /\ act[r].op \in {"post", "void"} /\ n = act[r].row
               /\ date'[n] = date[n] /\ linked'[n] = linked[n]
      <3>1. DateOf(r) = date[n]
        BY <2>4 DEF DateOf
      <3>2. linked[n] => found[r]
        BY <2>2, <2>4 DEF Informed, JournalCurrent
      <3> QED BY <2>2, <2>4, <3>1, <3>2 DEF Informed, PeriodCurrent
    <2> QED BY <2>1, <2>3, <2>4
  <1>2. LedgerInv /\ [LedgerNext]_ledgerVars =>
          [\A n \in Numbers :
             journal'[n] # journal[n] =>
               \/ period[date'[n]] # "CLOSED"
               \/ date'[n] \in raced
               \/ ~linked'[n]]_ledgerVars
    BY <1>1
  <1> QED BY <1>2, SafetyAlways, PTL DEF LedgerSpec, SealedUnlessRaced

\* Only a post that overlaps with a void can bring a void journal back.
THEOREM VoidStays == LedgerSpec => VoidUnlessRaced
  <1>1. ASSUME LedgerInv, [LedgerNext]_ledgerVars, NEW n \in Numbers, journal[n] = "VOID"
        PROVE  journal'[n] = "VOID" \/ n \in raced
    <2>1. SUFFICES ASSUME journal'[n] # journal[n] PROVE journal'[n] = "VOID" \/ n \in raced
      BY <1>1
    <2>2. PICK r \in Running :
            \/ at[r] = "write" /\ Numbering(r) /\ n = number[r]
            \/ act[r].op = "post" /\ n = act[r].row
            \/ journal'[n] = "VOID"
      BY <1>1, <2>1, JournalChange
    <2>3. Informed(r)
      BY <1>1 DEF LedgerInv, RequestInv
    <2> QED BY <1>1, <2>2, <2>3 DEF Informed, NumberHeld, JournalCurrent
  <1>2. LedgerInv /\ [LedgerNext]_ledgerVars =>
          [\A n \in Numbers : journal[n] = "VOID" => journal'[n] = "VOID" \/ n \in raced]_ledgerVars
    BY <1>1
  <1> QED BY <1>2, SafetyAlways, PTL DEF LedgerSpec, VoidUnlessRaced

\* What the runs check: the three theorems on entries, and the two on journals.
\* What the posted journals of a document add up to is what its status says, once,
\* less what was voided and unless requests on it overlapped.
THEOREM EntriesMatchDocuments == LedgerSpec => []EntriesMatch
  <1>1. PostedIsBacked /\ BookedAsSaid /\ EnteredOnce => EntriesMatch
    BY DEF EntriesMatch
  <1> QED BY <1>1, Backed, BookedIsSaid, EnteredOnceUnlessRaced, PTL

\* Journals of a closed period and void journals change only by overlaps.
THEOREM JournalsStayKept == LedgerSpec => JournalsKept
  BY Sealed, VoidStays DEF JournalsKept

=============================================================================
