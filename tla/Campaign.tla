------------------------------ MODULE Campaign ------------------------------
(***************************************************************************)
(* One notification campaign (modules/notifications): API calls send,      *)
(* schedule and cancel it while workers claim its messages, hand them to a *)
(* provider, record the outcome and recompute the campaign's status.       *)
(*                                                                         *)
(* Each transaction is one step.  The calls read the campaign in one and   *)
(* write it in another; a worker calls the provider between two of them.   *)
(* Members of the audience stand for themselves, time for which messages   *)
(* are due.  What depends on contacts and configuration is a free choice.  *)
(***************************************************************************)
EXTENDS Naturals, FiniteSets

CONSTANTS Members,     \* the members the audience filter selects
          Calls,       \* API calls, one operation each
          Workers,     \* processes that run NotificationJobRunner
          BatchSize,   \* config.notificationWorker.batchSize
          MaxAttempts, \* DEFAULT_MAX_ATTEMPTS, 5 in the source
          NoMessage,   \* no current message
          MaxFaults    \* bound on crashes and failed transactions

ASSUME BatchSizePositive == BatchSize \in Nat \ {0}
ASSUME MaxAttemptsPositive == MaxAttempts \in Nat \ {0}
ASSUME MaxFaultsNat == MaxFaults \in Nat

\* The message that call c creates for member m
Messages == Members \X Calls
ASSUME NoMessageDistinct == NoMessage \notin Messages

VARIABLES
  campaign,  \* notification_campaigns.status
  msg,       \* notification_messages.status, "ABSENT" before the insert
  attempts,  \* notification_messages.attempts, saturating above MaxAttempts
  due,       \* messages with available_at <= now()
  inApp,     \* the campaign's channel is IN_APP
  call,      \* where each API call is
  target,    \* the status it will write
  seen,      \* the campaign's status as it read it
  worker,    \* where each worker is
  batch,     \* claimed rows a worker has not begun
  current,   \* the row it works on
  verdict,   \* the campaign status it computed from the counts
  accepted,  \* messages the provider has taken at least once (history)
  excused,   \* messages an attempt of which was reported failed (history)
  stranded,  \* claimed messages whose worker gave them up (history)
  faults     \* faults so far, at most MaxFaults

rowVars == <<campaign, msg, attempts, due, inApp>>
callVars == <<call, target, seen>>
workerVars == <<worker, batch, current, verdict>>
history == <<accepted, excused, stranded>>
vars == <<rowVars, callVars, workerVars, history, faults>>

CampaignStatuses == {"DRAFT", "SCHEDULED", "SENDING", "SENT", "FAILED", "CANCELLED"}
Terminal == {"SENT", "FAILED", "BLOCKED", "CANCELLED"}
MessageStatuses == Terminal \union {"ABSENT", "PENDING", "SENDING"}
Bump(n) == IF n <= MaxAttempts THEN n + 1 ELSE n

TypeOK ==
  /\ campaign \in CampaignStatuses
  /\ msg \in [Messages -> MessageStatuses]
  /\ attempts \in [Messages -> 0..MaxAttempts + 1]
  /\ due \subseteq Messages
  /\ inApp \in BOOLEAN
  /\ call \in [Calls -> {"new", "counting", "expanding", "rescheduling", "cancelling", "done"}]
  /\ target \in [Calls -> {"SENDING", "SCHEDULED", "CANCELLED"}]
  /\ seen \in [Calls -> CampaignStatuses]
  /\ worker \in [Workers -> {"idle", "looping", "accepted", "marked", "blocked",
                             "failed", "counting", "writing"}]
  /\ batch \in [Workers -> SUBSET Messages]
  /\ current \in [Workers -> Messages \union {NoMessage}]
  /\ verdict \in [Workers -> CampaignStatuses]
  /\ accepted \subseteq Messages
  /\ excused \subseteq Messages
  /\ stranded \subseteq Messages
  /\ faults \in 0..MaxFaults

\* create() leaves a DRAFT without messages.
Init ==
  /\ campaign = "DRAFT"
  /\ msg = [x \in Messages |-> "ABSENT"]
  /\ attempts = [x \in Messages |-> 0]
  /\ due = {}
  /\ inApp \in BOOLEAN
  /\ call = [c \in Calls |-> "new"]
  /\ target = [c \in Calls |-> "SENDING"]
  /\ seen = [c \in Calls |-> "DRAFT"]
  /\ worker = [w \in Workers |-> "idle"]
  /\ batch = [w \in Workers |-> {}]
  /\ current = [w \in Workers |-> NoMessage]
  /\ verdict = [w \in Workers |-> "DRAFT"]
  /\ accepted = {}
  /\ excused = {}
  /\ stranded = {}
  /\ faults = 0

Fault == faults < MaxFaults /\ faults' = faults + 1
Written == {x \in Messages : msg[x] # "ABSENT"}

-----------------------------------------------------------------------------
(* API calls *)

\* A call goes on with the status it has read.
Begin(c, to, next) ==
  /\ call[c] = "new"
  /\ call' = [call EXCEPT ![c] = next]
  /\ target' = [target EXCEPT ![c] = to]
  /\ seen' = [seen EXCEPT ![c] = campaign]
  /\ UNCHANGED <<rowVars, workerVars, history, faults>>

\* send or schedule: findCampaign and the check of its status
BeginExpand(c) ==
  /\ campaign \in {"DRAFT", "SCHEDULED"}
  /\ \E to \in {"SENDING", "SCHEDULED"} : Begin(c, to, "counting")

BeginCancel(c) ==
  /\ campaign \notin {"SENT", "CANCELLED"}
  /\ Begin(c, "CANCELLED", "cancelling")

\* existingCount decides between expanding and only setting the status.
CountMessages(c) ==
  /\ call[c] = "counting"
  /\ call' = [call EXCEPT ![c] =
                IF Written # {} /\ seen[c] # "DRAFT"
                THEN "rescheduling" ELSE "expanding"]
  /\ seen' = [seen EXCEPT ![c] = "DRAFT"]
  /\ UNCHANGED <<rowVars, target, workerVars, history, faults>>

\* Faulty variant: the messages of the campaign are queued once more.
RescheduleReopens(c) ==
  /\ call[c] = "rescheduling"
  /\ campaign' = target[c]
  /\ msg' = [x \in Messages |-> IF msg[x] = "SENT" THEN "PENDING" ELSE msg[x]]
  /\ call' = [call EXCEPT ![c] = "done"]
  /\ UNCHANGED <<attempts, due, inApp, target, seen, workerVars, history, faults>>

\* The messages keep the availableAt they have.
Reschedule(c) ==
  /\ call[c] = "rescheduling"
  /\ campaign' = target[c]
  /\ call' = [call EXCEPT ![c] = "done"]
  /\ UNCHANGED <<msg, attempts, due, inApp, target, seen, workerVars, history, faults>>

\* One message per member, BLOCKED at once if it has no address or provider
\* and SENT at once in the app; the campaign's status is not read again.
Expand(c) ==
  /\ call[c] = "expanding"
  /\ \E blocked \in SUBSET Members :
       /\ inApp => blocked = {}
       /\ msg' = [x \in Messages |->
                    IF x[2] # c THEN msg[x]
                    ELSE IF x[1] \in blocked THEN "BLOCKED"
                    ELSE IF inApp THEN "SENT" ELSE "PENDING"]
  /\ due' = IF target[c] = "SENDING" THEN due \union (Members \X {c}) ELSE due
  /\ campaign' = target[c]
  /\ call' = [call EXCEPT ![c] = "done"]
  /\ UNCHANGED <<attempts, inApp, target, seen, workerVars, history, faults>>

\* The audience is empty, or a step of the call fails: nothing was written.
GiveUp(c) ==
  /\ call[c] \notin {"new", "done"}
  /\ call' = [call EXCEPT ![c] = "done"]
  /\ UNCHANGED <<rowVars, target, seen, workerVars, history, faults>>

Cancel(c) ==
  /\ call[c] = "cancelling"
  /\ campaign' = "CANCELLED"
  /\ msg' = [x \in Messages |->
               IF msg[x] \in {"PENDING", "SENDING"} THEN "CANCELLED" ELSE msg[x]]
  /\ call' = [call EXCEPT ![c] = "done"]
  /\ UNCHANGED <<attempts, due, inApp, target, seen, workerVars, history, faults>>

\* The scheduled time comes, or a backoff elapses.
BecomeDue(x) ==
  /\ msg[x] = "PENDING" /\ x \notin due
  /\ due' = due \union {x}
  /\ UNCHANGED <<campaign, msg, attempts, inApp, callVars, workerVars, history, faults>>

-----------------------------------------------------------------------------
(* Workers: runOnce *)

Hand(w) == batch[w] \union (IF current[w] = NoMessage THEN {} ELSE {current[w]})
Claimable == {x \in due : msg[x] = "PENDING"}

\* w claims the rows xs.
Take(w, xs) ==
  /\ worker[w] = "idle"
  /\ xs # {} /\ Cardinality(xs) <= BatchSize
  /\ msg' = [x \in Messages |-> IF x \in xs THEN "SENDING" ELSE msg[x]]
  /\ attempts' = [x \in Messages |-> IF x \in xs THEN Bump(attempts[x]) ELSE attempts[x]]
  /\ batch' = [batch EXCEPT ![w] = xs]
  /\ worker' = [worker EXCEPT ![w] = "looping"]
  /\ UNCHANGED <<campaign, due, inApp, callVars, current, verdict, history, faults>>

\* claimBatch: as many due PENDING rows as fit; rows it finds locked it skips.
Claim(w) == \E xs \in SUBSET Claimable : Take(w, xs)

\* execute begins with a row and dispatch ends in one of three ways.
Dispatch(w, x, outcome) ==
  /\ worker[w] = "looping" /\ x \in batch[w]
  /\ batch' = [batch EXCEPT ![w] = @ \ {x}]
  /\ current' = [current EXCEPT ![w] = x]
  /\ worker' = [worker EXCEPT ![w] = outcome]
  /\ UNCHANGED <<rowVars, callVars, verdict, stranded, faults>>

DispatchSent(w, x) ==
  /\ Dispatch(w, x, "accepted")
  /\ accepted' = accepted \union {x}
  /\ UNCHANGED excused

DispatchBlocked(w, x) ==
  /\ Dispatch(w, x, "blocked")
  /\ UNCHANGED <<accepted, excused>>

\* The provider refuses, or takes the message and the reply is lost.
DispatchError(w, x) ==
  /\ Dispatch(w, x, "failed")
  /\ accepted' \in {accepted, accepted \union {x}}
  /\ excused' = excused \union {x}

\* The row's status is written, whatever it has become in the meantime.
WriteOutcome(w, status, next) ==
  /\ msg' = [msg EXCEPT ![current[w]] = status]
  /\ worker' = [worker EXCEPT ![w] = next]
  /\ current' = [current EXCEPT ![w] = IF next = "looping" THEN NoMessage ELSE @]
  /\ UNCHANGED <<campaign, attempts, inApp, callVars, batch, verdict, accepted, stranded>>

\* Faulty variant: the status the contract reserves for delivery receipts.
MarkDelivered(w) ==
  /\ worker[w] = "accepted"
  /\ WriteOutcome(w, "DELIVERED", "marked")
  /\ UNCHANGED <<due, excused, faults>>

\* markSent is two transactions: the row, then its outbox event.
MarkSent(w) ==
  /\ worker[w] = "accepted"
  /\ WriteOutcome(w, "SENT", "marked")
  /\ UNCHANGED <<due, excused, faults>>

\* Faulty variant: dispatch's BLOCKED is recorded as a success.
MarkBlockedSent(w) ==
  /\ worker[w] = "blocked"
  /\ WriteOutcome(w, "SENT", "looping")
  /\ UNCHANGED <<due, excused, faults>>

MarkBlocked(w) ==
  /\ worker[w] = "blocked"
  /\ WriteOutcome(w, "BLOCKED", "looping")
  /\ UNCHANGED <<due, excused, faults>>

\* One of those transactions fails, committed or not: the catch of execute.
MarkError(w) ==
  /\ Fault
  /\ \/ worker[w] = "accepted" /\ WriteOutcome(w, "SENT", "failed")
     \/ worker[w] = "blocked" /\ WriteOutcome(w, "BLOCKED", "failed")
     \/ worker[w] \in {"accepted", "blocked", "marked"}
        /\ WriteOutcome(w, msg[current[w]], "failed")
  /\ excused' = excused \union {current[w]}
  /\ UNCHANGED due

EnqueueSent(w) ==
  /\ worker[w] = "marked"
  /\ WriteOutcome(w, msg[current[w]], "looping")
  /\ UNCHANGED <<due, excused, faults>>

Exhausted(x) == attempts[x] >= MaxAttempts

\* Faulty variant: a retry is counted but the row stays SENDING.
MarkFailedKeeps(w) ==
  /\ worker[w] = "failed"
  /\ WriteOutcome(w, IF Exhausted(current[w]) THEN "FAILED" ELSE "SENDING", "looping")
  /\ UNCHANGED <<due, excused, faults>>

MarkFailed(w) ==
  /\ worker[w] = "failed"
  /\ IF Exhausted(current[w])
     THEN WriteOutcome(w, "FAILED", "looping") /\ due' = due
     ELSE WriteOutcome(w, "PENDING", "looping") /\ due' = due \ {current[w]}
  /\ UNCHANGED <<excused, faults>>

EndBatch(w) ==
  /\ worker[w] = "looping" /\ batch[w] = {}
  /\ worker' = [worker EXCEPT ![w] = "counting"]
  /\ UNCHANGED <<rowVars, callVars, batch, current, verdict, history, faults>>

-----------------------------------------------------------------------------
(* Workers: refreshCampaign *)

\* campaignStatusFromCounts
StatusFromCounts ==
  LET Of(ss) == {x \in Written : msg[x] \in ss}
  IN IF Written = {} THEN "FAILED"
     ELSE IF Of({"PENDING", "SENDING"}) # {} THEN "SENDING"
     ELSE IF Of({"CANCELLED"}) = Written THEN "CANCELLED"
     ELSE IF Of({"FAILED", "BLOCKED"}) = Written THEN "FAILED"
     ELSE "SENT"

ReadCounts(w) ==
  /\ worker[w] = "counting"
  /\ verdict' = [verdict EXCEPT ![w] = StatusFromCounts]
  /\ worker' = [worker EXCEPT ![w] = "writing"]
  /\ UNCHANGED <<rowVars, callVars, batch, current, history, faults>>

WriteStatus(w) ==
  /\ worker[w] = "writing"
  /\ campaign' = verdict[w]
  /\ verdict' = [verdict EXCEPT ![w] = "DRAFT"]
  /\ worker' = [worker EXCEPT ![w] = "idle"]
  /\ UNCHANGED <<msg, attempts, due, inApp, callVars, batch, current, history, faults>>

\* The process dies, or a transaction of runOnce fails where nothing catches
\* the error: markFailed or refreshCampaign.  What it held stays SENDING.
Abandon(w) ==
  /\ worker[w] # "idle" /\ Fault
  /\ stranded' = stranded \union Hand(w)
  /\ batch' = [batch EXCEPT ![w] = {}]
  /\ current' = [current EXCEPT ![w] = NoMessage]
  /\ verdict' = [verdict EXCEPT ![w] = "DRAFT"]
  /\ worker' = [worker EXCEPT ![w] = "idle"]
  /\ UNCHANGED <<rowVars, callVars, accepted, excused>>

WorkerStep(w) ==
  \/ Claim(w) \/ EndBatch(w) \/ ReadCounts(w) \/ WriteStatus(w)
  \/ \E x \in Messages :
       DispatchSent(w, x) \/ DispatchBlocked(w, x) \/ DispatchError(w, x)
  \/ MarkSent(w) \/ EnqueueSent(w) \/ MarkBlocked(w) \/ MarkFailed(w)

CallStep(c) ==
  CountMessages(c) \/ Reschedule(c) \/ Expand(c) \/ GiveUp(c) \/ Cancel(c)

Next ==
  \/ \E c \in Calls : BeginExpand(c) \/ BeginCancel(c) \/ CallStep(c)
  \/ \E x \in Messages : BecomeDue(x)
  \/ \E w \in Workers : WorkerStep(w) \/ MarkError(w) \/ Abandon(w)

Spec == Init /\ [][Next]_vars

\* Calls that were begun go on, time passes and the workers' timers fire.
Fairness ==
  /\ \A c \in Calls : WF_vars(CallStep(c))
  /\ \A x \in Messages : WF_vars(BecomeDue(x))
  /\ \A w \in Workers : WF_vars(WorkerStep(w))

FairSpec == Spec /\ Fairness

-----------------------------------------------------------------------------
(* Properties *)

\* No two workers hold the same message, and a message a worker holds is
\* nobody's to claim.  ("several workers cooperate without processing the
\* same message twice", notification-job.runner)
ClaimExclusive ==
  /\ \A v, w \in Workers : v # w => Hand(v) \intersect Hand(w) = {}
  /\ \A w \in Workers : \A x \in Hand(w) : msg[x] # "PENDING"

\* A message is given to a provider that already took it only after an attempt
\* at it was reported failed, whatever is cancelled or rescheduled meanwhile.
ResendExcused ==
  [][\A w \in Workers, x \in Messages :
       worker[w] = "looping" /\ worker'[w] = "accepted" /\ current'[w] = x
         => x \notin accepted \/ x \in excused]_vars

\* A message that is SENT was taken by its provider, or is an in-app message:
\* no missing provider, cancellation or retry makes a successful empty send.
SentIsDelivered == \A x \in Messages : msg[x] = "SENT" => inApp \/ x \in accepted

\* A settled message changes again only by the worker that holds it: nothing
\* else revives what was cancelled, sent or blocked.
SettledByHolder ==
  [][\A x \in Messages : msg[x] \in Terminal /\ msg'[x] # msg[x]
       => \E w \in Workers : current[w] = x]_vars

\* Every message is settled in the end, with bounded retries, unless the worker
\* that had claimed it went away.
MessagesSettle ==
  \A x \in Messages :
    msg[x] \in {"PENDING", "SENDING"} ~> msg[x] \in Terminal \/ x \in stranded
=============================================================================
