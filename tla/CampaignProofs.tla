--------------------------- MODULE CampaignProofs ---------------------------
(***************************************************************************)
(* Proofs about Campaign, for any audience, any numbers of calls and       *)
(* workers, any batch size and any number of attempts and faults.          *)
(***************************************************************************)
EXTENDS Campaign, TLAPS

-----------------------------------------------------------------------------
(* The inductive invariant *)

Working == {"accepted", "marked", "blocked", "failed"}

\* What a worker has in hand is what its place in runOnce says.
PhaseShape ==
  \A w \in Workers :
    /\ worker[w] \in {"idle", "counting", "writing"} => batch[w] = {}
    /\ worker[w] \in Working => current[w] \in Messages \ batch[w]
    /\ worker[w] \notin Working => current[w] = NoMessage

TypeInv == TypeOK /\ PhaseShape

\* The messages of a call are inserted by its last transaction.
InsertedOnce ==
  \A c \in Calls, m \in Members : call[c] # "done" => msg[<<m, c>>] = "ABSENT"

HandsDisjoint ==
  \A v, w \in Workers : v # w => Hand(v) \intersect Hand(w) = {}
HeldOnce == \A w \in Workers : \A x \in Hand(w) : msg[x] \notin {"PENDING", "ABSENT"}

\* What a worker's place says of the message it works on
TakenWhenMarked ==
  \A w \in Workers : worker[w] \in {"accepted", "marked"} => current[w] \in accepted
ExcusedWhenFailed == \A w \in Workers : worker[w] = "failed" => current[w] \in excused

\* A message that was taken, and of which no attempt was reported failed, is
\* neither waiting to be claimed nor to be sent.
TakenOnce ==
  \A x \in accepted \ excused :
    /\ msg[x] \notin {"PENDING", "ABSENT"}
    /\ \A w \in Workers : x \notin batch[w]

IInv ==
  /\ TypeInv
  /\ InsertedOnce
  /\ HandsDisjoint
  /\ HeldOnce
  /\ TakenWhenMarked
  /\ ExcusedWhenFailed
  /\ TakenOnce
  /\ SentIsDelivered

-----------------------------------------------------------------------------
(* Type correctness *)

LEMMA TypeInit == Init => TypeInv
  BY MaxFaultsNat, MaxAttemptsPositive
     DEF Init, TypeInv, TypeOK, PhaseShape, Working, CampaignStatuses, MessageStatuses

\* Steps of the API calls and of time leave the workers alone.
LEMMA CallType ==
  ASSUME TypeInv,
         \/ \E c \in Calls : BeginExpand(c) \/ BeginCancel(c) \/ CallStep(c)
         \/ \E x \in Messages : BecomeDue(x)
  PROVE  TypeInv'
  <1>1. ASSUME NEW c \in Calls, BeginExpand(c) \/ BeginCancel(c) PROVE TypeOK'
    BY <1>1 DEF BeginExpand, BeginCancel, Begin, TypeInv, TypeOK, rowVars, workerVars, history
  <1>2. ASSUME NEW c \in Calls, CountMessages(c) PROVE TypeOK'
    BY <1>2 DEF CountMessages, TypeInv, TypeOK, rowVars, workerVars, history, CampaignStatuses
  <1>3. ASSUME NEW c \in Calls, Reschedule(c) \/ GiveUp(c) PROVE TypeOK'
    BY <1>3 DEF Reschedule, GiveUp, TypeInv, TypeOK, rowVars, workerVars, history, CampaignStatuses
  <1>4. ASSUME NEW c \in Calls, Expand(c) PROVE TypeOK'
    <2>1. /\ msg' \in [Messages -> MessageStatuses]
          /\ due' \subseteq Messages
          /\ campaign' \in CampaignStatuses
          /\ call' = [call EXCEPT ![c] = "done"]
          /\ UNCHANGED <<attempts, inApp, target, seen, workerVars, history, faults>>
      BY <1>4 DEF Expand, TypeInv, TypeOK, MessageStatuses, Terminal, CampaignStatuses, Messages
    <2> QED BY <2>1 DEF TypeInv, TypeOK, workerVars, history
  <1>5. ASSUME NEW c \in Calls, Cancel(c) PROVE TypeOK'
    BY <1>5 DEF Cancel, TypeInv, TypeOK, workerVars, history, CampaignStatuses,
                MessageStatuses, Terminal
  <1>6. ASSUME NEW x \in Messages, BecomeDue(x) PROVE TypeOK'
    BY <1>6 DEF BecomeDue, TypeInv, TypeOK, callVars, workerVars, history
  <1>7. UNCHANGED workerVars
    BY DEF BeginExpand, BeginCancel, Begin, CallStep, CountMessages, Reschedule, GiveUp, Expand,
           Cancel, BecomeDue
  <1>8. PhaseShape'
    BY <1>7 DEF TypeInv, PhaseShape, workerVars
  <1> QED BY <1>1, <1>2, <1>3, <1>4, <1>5, <1>6, <1>8 DEF CallStep, TypeInv

\* The messages a worker claims were PENDING and are now its own.
LEMMA ClaimType ==
  ASSUME TypeInv, NEW w \in Workers, Claim(w)
  PROVE  TypeInv'
  <1>1. PICK xs \in SUBSET Claimable : Take(w, xs)
    BY DEF Claim
  <1>2. xs \subseteq Messages
    BY DEF Claimable, TypeInv, TypeOK
  <1>3. msg' \in [Messages -> MessageStatuses] /\ attempts' \in [Messages -> 0..MaxAttempts + 1]
    BY <1>1, <1>2, MaxAttemptsPositive DEF Take, TypeInv, TypeOK, MessageStatuses, Bump
  <1>4. TypeOK'
    BY <1>1, <1>2, <1>3 DEF Take, TypeInv, TypeOK, callVars, history
  <1>5. PhaseShape'
    BY <1>1 DEF Take, TypeInv, TypeOK, PhaseShape, Working
  <1> QED BY <1>4, <1>5 DEF TypeInv

LEMMA DispatchType ==
  ASSUME TypeInv, NEW w \in Workers, NEW x \in Messages,
         DispatchSent(w, x) \/ DispatchBlocked(w, x) \/ DispatchError(w, x)
  PROVE  TypeInv'
  <1>1. PICK outcome \in {"accepted", "blocked", "failed"} : Dispatch(w, x, outcome)
    BY DEF DispatchSent, DispatchBlocked, DispatchError
  <1>2. accepted' \subseteq Messages /\ excused' \subseteq Messages
    BY DEF DispatchSent, DispatchBlocked, DispatchError, TypeInv, TypeOK
  <1>3. TypeOK'
    BY <1>1, <1>2 DEF Dispatch, TypeInv, TypeOK, rowVars, callVars
  <1>4. PhaseShape'
    BY <1>1 DEF Dispatch, TypeInv, TypeOK, PhaseShape, Working
  <1> QED BY <1>3, <1>4 DEF TypeInv

LEMMA OutcomeType ==
  ASSUME TypeInv, NEW w \in Workers, worker[w] \in Working,
         NEW status \in MessageStatuses,
         NEW next \in {"looping", "marked", "failed"},
         WriteOutcome(w, status, next),
         due' \subseteq Messages, excused' \subseteq Messages, faults' \in 0..MaxFaults
  PROVE  TypeInv'
  <1>1. current[w] \in Messages
    BY DEF TypeInv, PhaseShape
  <1>2. TypeOK'
    BY <1>1 DEF WriteOutcome, TypeInv, TypeOK, callVars
  <1>3. PhaseShape'
    BY <1>1 DEF WriteOutcome, TypeInv, TypeOK, PhaseShape, Working
  <1> QED BY <1>2, <1>3 DEF TypeInv

\* Every way a worker records an outcome is one WriteOutcome.
LEMMA OutcomeStep ==
  ASSUME TypeInv, NEW w \in Workers,
         MarkSent(w) \/ MarkBlocked(w) \/ MarkError(w) \/ EnqueueSent(w) \/ MarkFailed(w)
  PROVE  /\ worker[w] \in Working
         /\ current[w] \in Messages
         /\ \E status \in MessageStatuses, next \in {"looping", "marked", "failed"} :
              /\ WriteOutcome(w, status, next)
              /\ status = "PENDING" => worker[w] = "failed" \/ msg[current[w]] = "PENDING"
              /\ status = "ABSENT" => msg[current[w]] = "ABSENT"
              /\ status = "SENT" => worker[w] = "accepted" \/ msg[current[w]] = "SENT"
              /\ status = "PENDING" /\ worker[w] = "failed" => next = "looping"
              /\ next = "marked" => worker[w] = "accepted"
              /\ next = "failed" => current[w] \in excused'
         /\ due' \subseteq due
         /\ excused \subseteq excused' /\ excused' \subseteq Messages
         /\ faults' \in 0..MaxFaults
  <1>1. /\ worker[w] \in Working /\ current[w] \in Messages
        /\ msg[current[w]] \in MessageStatuses
        /\ {"SENT", "BLOCKED", "FAILED", "PENDING"} \subseteq MessageStatuses
    BY DEF MarkSent, MarkBlocked, MarkError, EnqueueSent, MarkFailed, TypeInv, TypeOK,
           PhaseShape, Working, MessageStatuses, Terminal
  <1>2. CASE MarkSent(w) \/ MarkBlocked(w) \/ EnqueueSent(w)
    BY <1>1, <1>2 DEF MarkSent, MarkBlocked, EnqueueSent, TypeInv, TypeOK
  <1>3. CASE MarkError(w)
    BY <1>1, <1>3, MaxFaultsNat DEF MarkError, Fault, TypeInv, TypeOK
  <1>4. CASE MarkFailed(w)
    BY <1>1, <1>4 DEF MarkFailed, TypeInv, TypeOK
  <1> QED BY <1>2, <1>3, <1>4

\* The end of a batch and the recomputation of the campaign's status
LEMMA RefreshType ==
  ASSUME TypeInv, NEW w \in Workers, EndBatch(w) \/ ReadCounts(w) \/ WriteStatus(w)
  PROVE  TypeInv'
  <1>1. StatusFromCounts \in CampaignStatuses
    BY DEF StatusFromCounts, CampaignStatuses
  <1>2. CASE EndBatch(w)
    BY <1>2 DEF EndBatch, TypeInv, TypeOK, PhaseShape, Working, rowVars, callVars, history
  <1>3. CASE ReadCounts(w)
    BY <1>1, <1>3 DEF ReadCounts, TypeInv, TypeOK, PhaseShape, Working, rowVars, callVars, history
  <1>4. CASE WriteStatus(w)
    <2>1. TypeOK'
      BY <1>4 DEF WriteStatus, TypeInv, TypeOK, CampaignStatuses, callVars, history
    <2>2. PhaseShape'
      BY <1>4 DEF WriteStatus, TypeInv, TypeOK, PhaseShape, Working
    <2> QED BY <2>1, <2>2 DEF TypeInv
  <1> QED BY <1>2, <1>3, <1>4

LEMMA HandType == TypeInv => \A w \in Workers : Hand(w) \subseteq Messages
  BY DEF TypeInv, TypeOK, Hand

LEMMA AbandonType ==
  ASSUME TypeInv, NEW w \in Workers, Abandon(w)
  PROVE  TypeInv'
  <1>1. stranded' \subseteq Messages /\ faults' \in 0..MaxFaults
    BY HandType, MaxFaultsNat DEF Abandon, Fault, TypeInv, TypeOK
  <1>2. TypeOK'
    BY <1>1 DEF Abandon, TypeInv, TypeOK, CampaignStatuses, rowVars, callVars
  <1>3. PhaseShape'
    BY DEF Abandon, TypeInv, TypeOK, PhaseShape, Working
  <1> QED BY <1>2, <1>3 DEF TypeInv

LEMMA TypeStep == TypeInv /\ [Next]_vars => TypeInv'
  <1> SUFFICES ASSUME TypeInv, [Next]_vars PROVE TypeInv'
    OBVIOUS
  <1>1. CASE UNCHANGED vars
    BY <1>1 DEF vars, rowVars, callVars, workerVars, history, TypeInv, TypeOK, PhaseShape, Working
  <1>2. ASSUME NEW w \in Workers,
               MarkSent(w) \/ MarkBlocked(w) \/ MarkError(w) \/ EnqueueSent(w) \/ MarkFailed(w)
        PROVE  TypeInv'
    <2>1. /\ worker[w] \in Working
          /\ due' \subseteq Messages /\ excused' \subseteq Messages /\ faults' \in 0..MaxFaults
      BY <1>2, OutcomeStep DEF TypeInv, TypeOK
    <2>2. PICK status \in MessageStatuses, next \in {"looping", "marked", "failed"} :
            WriteOutcome(w, status, next)
      BY <1>2, OutcomeStep
    <2> QED BY <2>1, <2>2, OutcomeType
  <1>3. CASE Next
    BY <1>2, <1>3, CallType, ClaimType, DispatchType, RefreshType, AbandonType
       DEF Next, WorkerStep
  <1> QED BY <1>1, <1>3

\* Every variable of the campaign, its calls and its workers keeps its type.
THEOREM TypeCorrect == Spec => []TypeOK
  <1>1. TypeInv => TypeOK
    BY DEF TypeInv
  <1> QED BY <1>1, TypeInit, TypeStep, PTL DEF Spec

-----------------------------------------------------------------------------
(* Safety *)

LEMMA SafetyInit == Init => IInv
  <1> SUFFICES ASSUME Init PROVE IInv
    OBVIOUS
  <1>1. \A w \in Workers : Hand(w) = {} /\ worker[w] = "idle"
    BY DEF Init, Hand
  <1>2. InsertedOnce /\ SentIsDelivered
    BY DEF Init, InsertedOnce, SentIsDelivered, Messages
  <1>3. HandsDisjoint /\ HeldOnce /\ TakenWhenMarked /\ ExcusedWhenFailed
    BY <1>1 DEF HandsDisjoint, HeldOnce, TakenWhenMarked, ExcusedWhenFailed
  <1>4. TakenOnce
    BY DEF Init, TakenOnce
  <1> QED BY <1>2, <1>3, <1>4, TypeInit DEF IInv

\* A step that leaves workers and history alone is safe for them if it
\* inserts or settles messages, but queues none that was there.
LEMMA RowStep ==
  ASSUME IInv, TypeInv', UNCHANGED <<workerVars, accepted, excused, inApp>>,
         \A x \in Messages :
           \/ msg'[x] = msg[x]
           \/ msg[x] = "ABSENT" /\ (msg'[x] = "SENT" => inApp)
           \/ msg'[x] = "CANCELLED",
         InsertedOnce'
  PROVE  IInv'
  <1>1. \A w \in Workers : Hand(w)' = Hand(w) /\ Hand(w) \subseteq Messages
    BY HandType DEF Hand, workerVars, IInv
  <1>2. HandsDisjoint' /\ HeldOnce'
    BY <1>1 DEF IInv, HandsDisjoint, HeldOnce
  <1>3. TakenWhenMarked' /\ ExcusedWhenFailed'
    BY DEF IInv, TakenWhenMarked, ExcusedWhenFailed, workerVars
  <1>4. TakenOnce'
    BY DEF IInv, TypeInv, TypeOK, TakenOnce, workerVars
  <1>5. SentIsDelivered'
    BY DEF IInv, SentIsDelivered
  <1> QED BY <1>2, <1>3, <1>4, <1>5 DEF IInv

LEMMA CallSafe ==
  ASSUME IInv,
         \/ \E c \in Calls : BeginExpand(c) \/ BeginCancel(c) \/ CallStep(c)
         \/ \E x \in Messages : BecomeDue(x)
  PROVE  IInv'
  <1>1. TypeInv'
    BY CallType DEF IInv
  <1>2. CASE msg' = msg
    <2>1. /\ \A c \in Calls : call'[c] # "done" => call[c] # "done"
          /\ UNCHANGED <<workerVars, accepted, excused, inApp>>
      BY <1>2 DEF BeginExpand, BeginCancel, Begin, CallStep, CountMessages, Reschedule, GiveUp,
                  Expand, Cancel, BecomeDue, IInv, TypeInv, TypeOK, rowVars, callVars, history
    <2>2. InsertedOnce'
      BY <1>2, <2>1 DEF IInv, InsertedOnce
    <2> QED BY <1>1, <1>2, <2>1, <2>2, RowStep
  <1>3. ASSUME NEW c \in Calls, Expand(c) PROVE IInv'
    <2>1. PICK blocked \in SUBSET Members :
            /\ inApp => blocked = {}
            /\ msg' = [x \in Messages |->
                         IF x[2] # c THEN msg[x]
                         ELSE IF x[1] \in blocked THEN "BLOCKED"
                         ELSE IF inApp THEN "SENT" ELSE "PENDING"]
      BY <1>3 DEF Expand
    <2>2. /\ call[c] = "expanding" /\ call' = [call EXCEPT ![c] = "done"]
          /\ UNCHANGED <<workerVars, accepted, excused, inApp>>
      BY <1>3 DEF Expand, history
    <2>3. \A x \in Messages : x[2] = c => msg[x] = "ABSENT"
      BY <2>2 DEF IInv, InsertedOnce, Messages
    <2>4. \A x \in Messages : \/ msg'[x] = msg[x]
                              \/ msg[x] = "ABSENT" /\ (msg'[x] = "SENT" => inApp)
      BY <2>1, <2>3
    <2>5. InsertedOnce'
      BY <2>1, <2>2 DEF IInv, InsertedOnce, TypeInv, TypeOK, Messages
    <2> QED BY <1>1, <2>2, <2>4, <2>5, RowStep
  <1>4. ASSUME NEW c \in Calls, Cancel(c) PROVE IInv'
    <2>1. /\ \A x \in Messages : msg'[x] = msg[x] \/ (msg'[x] = "CANCELLED" /\ msg[x] # "ABSENT")
          /\ \A d \in Calls : call'[d] # "done" => call[d] # "done"
          /\ UNCHANGED <<workerVars, accepted, excused, inApp>>
      BY <1>4 DEF Cancel, IInv, TypeInv, TypeOK, history
    <2>2. InsertedOnce'
      BY <2>1 DEF IInv, InsertedOnce, Messages
    <2> QED BY <1>1, <2>1, <2>2, RowStep
  <1> QED BY <1>2, <1>3, <1>4
          DEF BeginExpand, BeginCancel, Begin, CallStep, CountMessages, Reschedule, GiveUp,
              BecomeDue, rowVars

\* What is claimed was PENDING, so it was nobody's and not taken unexcused.
LEMMA ClaimSafe ==
  ASSUME IInv, NEW w \in Workers, Claim(w)
  PROVE  IInv'
  <1>1. PICK xs \in SUBSET Claimable : Take(w, xs)
    BY DEF Claim
  <1>2. /\ worker[w] = "idle" /\ batch[w] = {} /\ current[w] = NoMessage
        /\ \A x \in xs : x \in Messages /\ msg[x] = "PENDING"
    BY <1>1 DEF Take, Claimable, IInv, TypeInv, TypeOK, PhaseShape, Working
  <1>3. /\ \A x \in Messages : msg'[x] = IF x \in xs THEN "SENDING" ELSE msg[x]
        /\ batch'[w] = xs /\ worker'[w] = "looping"
        /\ \A v \in Workers \ {w} : batch'[v] = batch[v] /\ worker'[v] = worker[v]
        /\ UNCHANGED <<inApp, call, current, accepted, excused>>
    BY <1>1 DEF Take, IInv, TypeInv, TypeOK, callVars, history
  <1>4. /\ Hand(w)' = xs
        /\ \A v \in Workers \ {w} : Hand(v)' = Hand(v)
        /\ \A v \in Workers : Hand(v) \subseteq Messages /\ Hand(v) \intersect xs = {}
    BY <1>2, <1>3, HandType DEF Hand, IInv, HeldOnce
  <1>5. InsertedOnce'
    <2>1. ASSUME NEW c \in Calls, NEW m \in Members, call[c] # "done"
          PROVE  msg'[<<m, c>>] = "ABSENT"
      <3>1. msg[<<m, c>>] = "ABSENT" /\ <<m, c>> \in Messages
        BY <2>1 DEF IInv, InsertedOnce, Messages
      <3> QED BY <3>1, <1>2, <1>3
    <2> QED BY <2>1, <1>3 DEF InsertedOnce
  <1>6. HandsDisjoint'
    BY <1>4 DEF IInv, HandsDisjoint
  <1>7. HeldOnce'
    <2>1. ASSUME NEW v \in Workers, NEW x \in Hand(v)'
          PROVE  msg'[x] \notin {"PENDING", "ABSENT"}
      <3>1. CASE v = w
        BY <3>1, <2>1, <1>2, <1>3, <1>4
      <3>2. CASE v # w
        BY <3>2, <2>1, <1>3, <1>4 DEF IInv, HeldOnce
      <3> QED BY <3>1, <3>2
    <2> QED BY <2>1 DEF HeldOnce
  <1>8. TakenWhenMarked' /\ ExcusedWhenFailed'
    BY <1>3 DEF IInv, TakenWhenMarked, ExcusedWhenFailed
  <1>9. TakenOnce'
    <2>1. ASSUME NEW x \in accepted \ excused
          PROVE  x \in Messages \ xs
      BY <1>2 DEF IInv, TakenOnce, TypeInv, TypeOK
    <2> QED BY <2>1, <1>3 DEF IInv, TakenOnce
  <1>10. SentIsDelivered'
    BY <1>3 DEF IInv, SentIsDelivered
  <1> QED BY <1>5, <1>6, <1>7, <1>8, <1>9, <1>10, ClaimType DEF IInv

LEMMA DispatchSafe ==
  ASSUME IInv, NEW w \in Workers, NEW x \in Messages,
         DispatchSent(w, x) \/ DispatchBlocked(w, x) \/ DispatchError(w, x)
  PROVE  IInv'
  <1>1. PICK outcome \in {"accepted", "blocked", "failed"} : Dispatch(w, x, outcome)
    BY DEF DispatchSent, DispatchBlocked, DispatchError
  <1>2. /\ x \in batch[w] /\ current[w] = NoMessage
        /\ batch'[w] = batch[w] \ {x} /\ current'[w] = x /\ worker'[w] = outcome
        /\ \A v \in Workers \ {w} : /\ batch'[v] = batch[v] /\ current'[v] = current[v]
                                    /\ worker'[v] = worker[v]
        /\ UNCHANGED <<msg, inApp, call>>
    BY <1>1 DEF Dispatch, IInv, TypeInv, TypeOK, PhaseShape, Working, rowVars, callVars
  <1>3. /\ accepted \subseteq accepted' /\ accepted' \subseteq accepted \union {x}
        /\ excused \subseteq excused'
        /\ outcome = "accepted" => x \in accepted'
        /\ outcome = "failed" => x \in excused'
    BY <1>1, <1>2 DEF DispatchSent, DispatchBlocked, DispatchError, Dispatch, IInv, TypeInv, TypeOK
  <1>4. x # NoMessage
    BY NoMessageDistinct
  <1>5. \A v \in Workers : Hand(v)' = Hand(v)
    BY <1>2, <1>4 DEF Hand
  <1>6. InsertedOnce' /\ HandsDisjoint' /\ HeldOnce'
    BY <1>2, <1>5 DEF IInv, InsertedOnce, HandsDisjoint, HeldOnce
  <1>7. TakenWhenMarked' /\ ExcusedWhenFailed'
    BY <1>2, <1>3 DEF IInv, TakenWhenMarked, ExcusedWhenFailed
  <1>8. TakenOnce'
    <2>1. ASSUME NEW y \in accepted' \ excused', NEW v \in Workers
          PROVE  msg'[y] \notin {"PENDING", "ABSENT"} /\ y \notin batch'[v]
      <3>1. CASE y \in accepted
        BY <3>1, <2>1, <1>2, <1>3 DEF IInv, TakenOnce
      <3>2. CASE y = x
        <4>1. x \in Hand(w) /\ (v # w => x \notin Hand(v))
          BY <1>2 DEF Hand, IInv, HandsDisjoint
        <4> QED BY <4>1, <3>2, <1>2 DEF IInv, HeldOnce, Hand
      <3> QED BY <3>1, <3>2, <1>3
    <2>2. \A y \in accepted' \ excused' : msg'[y] \notin {"PENDING", "ABSENT"}
      BY <2>1, <1>2, <1>3
    <2> QED BY <2>1, <2>2 DEF TakenOnce
  <1>9. SentIsDelivered'
    BY <1>2, <1>3 DEF IInv, SentIsDelivered
  <1> QED BY <1>6, <1>7, <1>8, <1>9, DispatchType DEF IInv

\* A message leaves its worker's hand as the worker's last word on it; only a
\* failed attempt, which is excused by then, queues it again.
LEMMA OutcomeSafe ==
  ASSUME IInv, NEW w \in Workers,
         MarkSent(w) \/ MarkBlocked(w) \/ MarkError(w) \/ EnqueueSent(w) \/ MarkFailed(w)
  PROVE  IInv'
  <1>1. /\ worker[w] \in Working /\ current[w] \in Messages
        /\ excused \subseteq excused'
    BY OutcomeStep DEF IInv
  <1>2. PICK status \in MessageStatuses, next \in {"looping", "marked", "failed"} :
          /\ WriteOutcome(w, status, next)
          /\ status = "PENDING" => worker[w] = "failed" \/ msg[current[w]] = "PENDING"
          /\ status = "ABSENT" => msg[current[w]] = "ABSENT"
          /\ status = "SENT" => worker[w] = "accepted" \/ msg[current[w]] = "SENT"
          /\ status = "PENDING" /\ worker[w] = "failed" => next = "looping"
          /\ next = "marked" => worker[w] = "accepted"
          /\ next = "failed" => current[w] \in excused'
    BY OutcomeStep DEF IInv
  <1>3. PICK x \in Messages : x = current[w]
    BY <1>1
  <1>4. /\ msg'[x] = status /\ \A y \in Messages \ {x} : msg'[y] = msg[y]
        /\ worker'[w] = next /\ current'[w] = IF next = "looping" THEN NoMessage ELSE x
        /\ \A v \in Workers \ {w} : worker'[v] = worker[v] /\ current'[v] = current[v]
        /\ UNCHANGED <<inApp, call, batch, accepted>>
    BY <1>2, <1>3 DEF WriteOutcome, IInv, TypeInv, TypeOK, callVars
  <1>5. x \in Hand(w) /\ x # NoMessage /\ x \notin batch[w]
    BY <1>1, <1>3, NoMessageDistinct DEF Hand, IInv, TypeInv, PhaseShape
  <1>6. msg[x] \notin {"PENDING", "ABSENT"} /\ \A v \in Workers \ {w} : x \notin Hand(v)
    BY <1>5 DEF IInv, HeldOnce, HandsDisjoint
  <1>7. status # "ABSENT" /\ (status = "PENDING" => worker[w] = "failed" /\ next = "looping")
    BY <1>2, <1>3, <1>6
  <1>8. /\ \A v \in Workers \ {w} : Hand(v)' = Hand(v)
        /\ Hand(w)' = IF next = "looping" THEN Hand(w) \ {x} ELSE Hand(w)
    BY <1>3, <1>4, <1>5 DEF Hand
  <1>9. InsertedOnce'
    <2>1. ASSUME NEW c \in Calls, NEW m \in Members, call[c] # "done"
          PROVE  msg'[<<m, c>>] = "ABSENT"
      <3>1. msg[<<m, c>>] = "ABSENT" /\ <<m, c>> \in Messages
        BY <2>1 DEF IInv, InsertedOnce, Messages
      <3> QED BY <3>1, <1>4, <1>6
    <2> QED BY <2>1, <1>4 DEF InsertedOnce
  <1>10. HandsDisjoint'
    BY <1>8 DEF IInv, HandsDisjoint
  <1>11. HeldOnce'
    <2>1. ASSUME NEW v \in Workers, NEW y \in Hand(v)'
          PROVE  msg'[y] \notin {"PENDING", "ABSENT"}
      <3>1. y \in Hand(v) /\ y \in Messages /\ msg[y] \notin {"PENDING", "ABSENT"}
        BY <2>1, <1>8, HandType DEF IInv, HeldOnce
      <3>2. CASE y # x
        BY <3>1, <3>2, <1>4
      <3>3. CASE y = x
        <4>1. v = w
          BY <3>1, <3>3, <1>6
        <4>2. next # "looping"
          BY <4>1, <3>3, <2>1, <1>8
        <4> QED BY <4>2, <3>3, <1>4, <1>7
      <3> QED BY <3>2, <3>3
    <2> QED BY <2>1 DEF HeldOnce
  <1>12. TakenWhenMarked' /\ ExcusedWhenFailed'
    BY <1>1, <1>2, <1>3, <1>4 DEF IInv, TakenWhenMarked, ExcusedWhenFailed
  <1>13. TakenOnce'
    <2>1. ASSUME NEW y \in accepted \ excused'
          PROVE  msg'[y] \notin {"PENDING", "ABSENT"}
      <3>1. y \in accepted \ excused /\ y \in Messages
        BY <1>1 DEF IInv, TypeInv, TypeOK
      <3>2. worker[w] = "failed" => x \in excused
        BY <1>3 DEF IInv, ExcusedWhenFailed
      <3> QED BY <3>1, <3>2, <1>4, <1>7 DEF IInv, TakenOnce
    <2> QED BY <2>1, <1>1, <1>4 DEF IInv, TakenOnce
  <1>14. SentIsDelivered'
    <2>1. msg'[x] = "SENT" => inApp \/ x \in accepted
      BY <1>2, <1>3, <1>4 DEF IInv, SentIsDelivered, TakenWhenMarked
    <2> QED BY <2>1, <1>4 DEF IInv, SentIsDelivered
  <1>15. TypeInv'
    BY TypeStep DEF IInv, Next, WorkerStep
  <1> QED BY <1>9, <1>10, <1>11, <1>12, <1>13, <1>14, <1>15 DEF IInv

\* Computing the campaign's status and giving up touch no message.
LEMMA ForgetSafe ==
  ASSUME IInv, NEW w \in Workers,
         EndBatch(w) \/ ReadCounts(w) \/ WriteStatus(w) \/ Abandon(w)
  PROVE  IInv'
  <1>1. /\ UNCHANGED <<msg, inApp, call, accepted, excused>>
        /\ worker'[w] \in {"idle", "counting", "writing"}
        /\ \A v \in Workers : batch'[v] \subseteq batch[v] /\ current'[v] \in {current[v], NoMessage}
        /\ \A v \in Workers \ {w} : current'[v] = current[v] /\ worker'[v] = worker[v]
    BY DEF EndBatch, ReadCounts, WriteStatus, Abandon, IInv, TypeInv, TypeOK,
           rowVars, callVars, history
  <1>2. \A v \in Workers : Hand(v)' \subseteq Hand(v)
    BY <1>1 DEF Hand
  <1>3. InsertedOnce' /\ HandsDisjoint' /\ HeldOnce'
    BY <1>1, <1>2 DEF IInv, InsertedOnce, HandsDisjoint, HeldOnce
  <1>4. TakenWhenMarked' /\ ExcusedWhenFailed'
    BY <1>1 DEF IInv, TakenWhenMarked, ExcusedWhenFailed
  <1>5. TakenOnce' /\ SentIsDelivered'
    BY <1>1 DEF IInv, TakenOnce, SentIsDelivered
  <1> QED BY <1>3, <1>4, <1>5, RefreshType, AbandonType DEF IInv

LEMMA SafetyStep == IInv /\ [Next]_vars => IInv'
  <1> SUFFICES ASSUME IInv, [Next]_vars PROVE IInv'
    OBVIOUS
  <1>1. CASE UNCHANGED vars
    <2>1. InsertedOnce'
      BY <1>1 DEF IInv, InsertedOnce, vars, rowVars, callVars
    <2> QED BY <1>1, <2>1, TypeStep, RowStep DEF IInv, vars, rowVars, history
  <1>2. CASE Next
    BY <1>2, CallSafe, ClaimSafe, DispatchSafe, OutcomeSafe, ForgetSafe DEF Next, WorkerStep
  <1> QED BY <1>1, <1>2

LEMMA SafetyAlways == Spec => []IInv
  BY SafetyInit, SafetyStep, PTL DEF Spec

-----------------------------------------------------------------------------
(* What follows *)

\* The claims of any number of workers are exclusive.  (claimBatch)
THEOREM ClaimsExclusive == Spec => []ClaimExclusive
  <1>1. IInv => ClaimExclusive
    BY DEF IInv, ClaimExclusive, HandsDisjoint, HeldOnce
  <1> QED BY <1>1, SafetyAlways, PTL

\* A message that is SENT was taken by its provider.  (markSent, markBlocked)
THEOREM SentDelivered == Spec => []SentIsDelivered
  <1>1. IInv => SentIsDelivered
    BY DEF IInv
  <1> QED BY <1>1, SafetyAlways, PTL

\* No message is given to its provider again without a reported failure.
THEOREM ResendsExcused == Spec => ResendExcused
  <1>1. ASSUME IInv, [Next]_vars, NEW w \in Workers, NEW x \in Messages,
               worker[w] = "looping", worker'[w] = "accepted", current'[w] = x
        PROVE  x \notin accepted \/ x \in excused
    <2>1. x \in batch[w]
      BY <1>1 DEF Next, WorkerStep, CallStep, BeginExpand, BeginCancel, Begin, CountMessages,
         Reschedule, Expand, GiveUp, Cancel, BecomeDue, Claim, Take, EndBatch, ReadCounts,
         WriteStatus, DispatchSent, DispatchBlocked, DispatchError, Dispatch, MarkSent,
         EnqueueSent, MarkBlocked, MarkFailed, MarkError, WriteOutcome, Abandon, vars,
         workerVars, IInv, TypeInv, TypeOK
    <2> QED BY <2>1, <1>1 DEF IInv, TakenOnce
  <1>2. IInv /\ [Next]_vars =>
          [\A w \in Workers, x \in Messages :
             worker[w] = "looping" /\ worker'[w] = "accepted" /\ current'[w] = x
               => x \notin accepted \/ x \in excused]_vars
    BY <1>1
  <1> QED BY <1>2, SafetyAlways, PTL DEF Spec, ResendExcused

\* What is settled is changed by nobody but the worker that holds it.
THEOREM SettledStays == Spec => SettledByHolder
  <1>1. ASSUME IInv, [Next]_vars, NEW x \in Messages, msg[x] \in Terminal, msg'[x] # msg[x]
        PROVE  \E w \in Workers : current[w] = x
    <2>1. CASE \E w \in Workers :
                 MarkSent(w) \/ MarkBlocked(w) \/ MarkError(w) \/ EnqueueSent(w) \/ MarkFailed(w)
      <3>1. PICK w \in Workers :
              MarkSent(w) \/ MarkBlocked(w) \/ MarkError(w) \/ EnqueueSent(w) \/ MarkFailed(w)
        BY <2>1
      <3>2. PICK status \in MessageStatuses, next \in {"looping", "marked", "failed"} :
              WriteOutcome(w, status, next)
        BY <3>1, OutcomeStep, <1>1 DEF IInv
      <3> QED BY <3>2, <1>1 DEF WriteOutcome, IInv, TypeInv, TypeOK
    <2>2. ASSUME NEW w \in Workers, Claim(w) PROVE FALSE
      BY <2>2, <1>1 DEF Claim, Take, Claimable, Terminal
    <2>3. ASSUME NEW c \in Calls, Cancel(c) PROVE FALSE
      BY <2>3, <1>1 DEF Cancel, Terminal
    <2>4. ASSUME NEW c \in Calls, Expand(c) PROVE FALSE
      <3>1. call[c] = "expanding"
        BY <2>4 DEF Expand
      <3>2. x[2] = c => msg[x] = "ABSENT"
        BY <3>1, <1>1 DEF IInv, InsertedOnce, Messages
      <3> QED BY <2>4, <3>2, <1>1 DEF Expand, Terminal
    <2> QED BY <1>1, <2>1, <2>2, <2>3, <2>4
            DEF Next, WorkerStep, CallStep, BeginExpand, BeginCancel, Begin, CountMessages,
                Reschedule, GiveUp, BecomeDue, EndBatch, ReadCounts, WriteStatus,
                DispatchSent, DispatchBlocked, DispatchError, Dispatch, Abandon, vars, rowVars
  <1>2. IInv /\ [Next]_vars =>
          [\A x \in Messages : msg[x] \in Terminal /\ msg'[x] # msg[x]
             => \E w \in Workers : current[w] = x]_vars
    BY <1>1
  <1> QED BY <1>2, SafetyAlways, PTL DEF Spec, SettledByHolder
=============================================================================
