------------------------------- MODULE Memory -------------------------------
(***************************************************************************)
(* One artifact of the memory engine (modules/memory): workers claim the   *)
(* jobs that process it while API calls archive it and ask for more jobs.  *)
(*                                                                         *)
(* Each transaction is one step, and reprocess, which reads a job and then *)
(* writes it in one transaction without a lock, is two.  A request that    *)
(* names several stages does for each of them what a request for one does. *)
(* Bytes, tags, links and titles are left out; time is which jobs are due. *)
(***************************************************************************)
EXTENDS Naturals, FiniteSets

CONSTANTS
  Stages,       \* what a reprocess request may name, METADATA among them
  Lacking,      \* stages that need a capability that is not configured
  Calls,        \* API calls
  Workers,      \* processes that run a MemoryJobRunner
  BatchSize,    \* memoryWorker.batchSize
  MaxAttempts,  \* memory_processing_jobs.max_attempts
  None,         \* stands for no job
  MaxFaults     \* bound on crashes and failing updates

ASSUME MetadataStage == "METADATA" \in Stages
ASSUME LackingStages == Lacking \subseteq Stages \ {"METADATA"}
ASSUME BatchSizePositive == BatchSize \in Nat \ {0}
ASSUME MaxAttemptsPositive == MaxAttempts \in Nat \ {0}
ASSUME MaxFaultsNat == MaxFaults \in Nat

\* A job is its stage and who created it: the upload the METADATA job, which a
\* request then finds, and a call any other.  The dedupe key has no unique index.
First == <<"METADATA", None>>
Jobs == {First} \union ((Stages \ {"METADATA"}) \X Calls)
ASSUME NoneDistinct == None \notin Calls \union Jobs

VARIABLES
  artifact,  \* memory_artifacts.status
  job,       \* memory_processing_jobs.status, "ABSENT" before the insert
  attempts,  \* memory_processing_jobs.attempts
  due,       \* jobs with available_at <= now()
  call,      \* where each API call is
  wanted,    \* the stage it asks for
  found,     \* the job it has read, and the status it read
  worker,    \* where each worker is
  batch,     \* claimed jobs it has not begun
  current,   \* the job it works on
  raced,     \* jobs written between the read and the write of a call, or whose
             \* outcome was recorded without the worker knowing (history)
  stranded,  \* claimed jobs whose worker gave them up (history)
  faults     \* faults so far, at most MaxFaults

rowVars == <<artifact, job, attempts, due>>
callVars == <<call, wanted, found>>
workerVars == <<worker, batch, current>>
history == <<raced, stranded>>
vars == <<rowVars, callVars, workerVars, history, faults>>

JobStatuses == {"ABSENT", "PENDING", "RUNNING", "SUCCEEDED", "BLOCKED", "FAILED"}
ArtifactStatuses == {"PROCESSING", "READY", "PARTIAL", "FAILED", "ARCHIVED"}
NotFound == [job |-> None, status |-> "ABSENT"]

TypeOK ==
  /\ artifact \in ArtifactStatuses
  /\ job \in [Jobs -> JobStatuses]
  /\ attempts \in [Jobs -> 0..MaxAttempts]
  /\ due \subseteq Jobs
  /\ call \in [Calls -> {"new", "finding", "writing", "done"}]
  /\ wanted \in [Calls -> Stages]
  /\ found \in [Calls -> [job : Jobs \union {None}, status : JobStatuses]]
  /\ worker \in [Workers -> {"idle", "looping", "succeeded", "blocked", "failed"}]
  /\ batch \in [Workers -> SUBSET Jobs]
  /\ current \in [Workers -> Jobs \union {None}]
  /\ raced \subseteq Jobs
  /\ stranded \subseteq Jobs
  /\ faults \in 0..MaxFaults

\* create writes the artifact, its version and the METADATA job together.
Init ==
  /\ artifact = "PROCESSING"
  /\ job = [x \in Jobs |-> IF x = First THEN "PENDING" ELSE "ABSENT"]
  /\ attempts = [x \in Jobs |-> 0]
  /\ due = {First}
  /\ call = [c \in Calls |-> "new"]
  /\ wanted = [c \in Calls |-> "METADATA"]
  /\ found = [c \in Calls |-> NotFound]
  /\ worker = [w \in Workers |-> "idle"]
  /\ batch = [w \in Workers |-> {}]
  /\ current = [w \in Workers |-> None]
  /\ raced = {}
  /\ stranded = {}
  /\ faults = 0

Fault == faults < MaxFaults /\ faults' = faults + 1
Hand(w) == batch[w] \union (IF current[w] = None THEN {} ELSE {current[w]})
Settled(status) == status \in {"SUCCEEDED", "BLOCKED", "FAILED"}

\* Jobs of xs that a call has read and not written yet
ReadBy(xs) == {x \in xs : \E c \in Calls : call[c] = "writing" /\ found[c].job = x}

-----------------------------------------------------------------------------
(* API calls *)

\* archive; findRow only looks whether the artifact exists.
Archive(c) ==
  /\ call[c] = "new"
  /\ artifact' = "ARCHIVED"
  /\ call' = [call EXCEPT ![c] = "done"]
  /\ UNCHANGED <<job, attempts, due, wanted, found, workerVars, history, faults>>

\* reprocess begins; an archived artifact is not refused.
Reprocess(c, s) ==
  /\ call[c] = "new"
  /\ call' = [call EXCEPT ![c] = "finding"]
  /\ wanted' = [wanted EXCEPT ![c] = s]
  /\ UNCHANGED <<rowVars, found, workerVars, history, faults>>

\* findFirst by the dedupe key: any of the jobs of the stage
FindJob(c) ==
  LET same == {x \in Jobs : x[1] = wanted[c] /\ job[x] # "ABSENT"}
  IN /\ call[c] = "finding"
     /\ IF same = {} THEN found' = found
        ELSE \E x \in same : found' = [found EXCEPT ![c] = [job |-> x, status |-> job[x]]]
     /\ call' = [call EXCEPT ![c] = "writing"]
     /\ UNCHANGED <<rowVars, wanted, workerVars, history, faults>>

\* The call writes job x: PENDING, not tried yet and due at once.
Queue(c, x) ==
  /\ job' = [job EXCEPT ![x] = "PENDING"]
  /\ attempts' = [attempts EXCEPT ![x] = 0]
  /\ due' = due \union {x}
  /\ raced' = raced \union {y \in {x} : \E b \in Calls \ {c} :
                                         call[b] = "writing" /\ found[b].job = y}

CreateJob(c) ==
  /\ call[c] = "writing" /\ found[c] = NotFound
  /\ Queue(c, <<wanted[c], c>>)
  /\ call' = [call EXCEPT ![c] = "done"]
  /\ UNCHANGED <<artifact, wanted, found, workerVars, stranded, faults>>

\* Faulty variant: a running job is put back as well.
RequeueableRunning(status) == status \in {"RUNNING", "BLOCKED", "FAILED"}

\* A job is put back if it was found blocked or failed, and else left alone.
Requeueable(status) == status \in {"BLOCKED", "FAILED"}

ResetJob(c) ==
  /\ call[c] = "writing" /\ Requeueable(found[c].status)
  /\ Queue(c, found[c].job)
  /\ call' = [call EXCEPT ![c] = "done"]
  /\ found' = [found EXCEPT ![c] = NotFound]
  /\ UNCHANGED <<artifact, wanted, workerVars, stranded, faults>>

KeepJob(c) ==
  /\ call[c] = "writing" /\ found[c] # NotFound /\ ~Requeueable(found[c].status)
  /\ call' = [call EXCEPT ![c] = "done"]
  /\ found' = [found EXCEPT ![c] = NotFound]
  /\ UNCHANGED <<rowVars, wanted, workerVars, history, faults>>

-----------------------------------------------------------------------------
(* Workers *)

\* The retry delay is over.
BecomeDue(x) ==
  /\ job[x] = "PENDING" /\ x \notin due
  /\ due' = due \union {x}
  /\ UNCHANGED <<artifact, job, attempts, callVars, workerVars, history, faults>>

Claimable == {x \in due : job[x] = "PENDING"}

\* claimBatch: as many as fit; it skips what it finds locked.  The attempts of
\* a job stay as they are.
Claim(w) ==
  /\ worker[w] = "idle"
  /\ \E xs \in SUBSET Claimable \ {{}} :
       /\ Cardinality(xs) <= BatchSize
       /\ job' = [x \in Jobs |-> IF x \in xs THEN "RUNNING" ELSE job[x]]
       /\ batch' = [batch EXCEPT ![w] = xs]
       /\ raced' = raced \union ReadBy(xs)
  /\ worker' = [worker EXCEPT ![w] = "looping"]
  /\ UNCHANGED <<artifact, attempts, due, callVars, current, stranded, faults>>

\* execute takes the next job: its tenant, version and bytes are loaded.
Start(w, x, next) ==
  /\ worker[w] = "looping" /\ x \in batch[w]
  /\ batch' = [batch EXCEPT ![w] = @ \ {x}]
  /\ current' = [current EXCEPT ![w] = x]
  /\ worker' = [worker EXCEPT ![w] = next]
  /\ UNCHANGED <<job, attempts, due, callVars, raced, stranded, faults>>

\* Faulty variants: METADATA leaves the artifact as it is; the default of the
\* contract comes back.
StatusAfterUnmarked(stage) == IF stage \in Lacking THEN "PARTIAL" ELSE artifact
StatusAfterPending(stage) == IF stage = "METADATA" THEN "PENDING" ELSE artifact

\* What dispatch leaves in the artifact's status: METADATA, which also writes
\* the detected type, makes it READY, a stage that lacks its capability PARTIAL.
StatusAfter(stage) ==
  IF stage = "METADATA" THEN "READY" ELSE IF stage \in Lacking THEN "PARTIAL" ELSE artifact

\* runMetadata, or a stage that is blocked: by its capability or because it
\* does not exist yet.
Dispatch(w, x) ==
  /\ Start(w, x, IF x[1] = "METADATA" THEN "succeeded" ELSE "blocked")
  /\ artifact' = StatusAfter(x[1])

\* Storage or the database refuses, before or after the status was written.
DispatchError(w, x) ==
  /\ Start(w, x, "failed")
  /\ artifact' \in {artifact, StatusAfter(x[1])}

\* The row of the current job is written by its id.
Record(w, status, next) ==
  /\ job' = [job EXCEPT ![current[w]] = status]
  /\ worker' = [worker EXCEPT ![w] = next]
  /\ current' = [current EXCEPT ![w] = IF next = "looping" THEN None ELSE @]
  /\ UNCHANGED <<attempts, callVars, batch, stranded>>

MarkSucceeded(w) ==
  /\ worker[w] = "succeeded"
  /\ Record(w, "SUCCEEDED", "looping")
  /\ raced' = raced \union ReadBy({current[w]})
  /\ UNCHANGED <<artifact, due, faults>>

MarkBlocked(w) ==
  /\ worker[w] = "blocked"
  /\ Record(w, "BLOCKED", "looping")
  /\ raced' = raced \union ReadBy({current[w]})
  /\ UNCHANGED <<artifact, due, faults>>

\* The update fails, or it is done and the reply lost: the catch of execute.
MarkError(w) ==
  /\ Fault
  /\ \/ worker[w] \in {"succeeded", "blocked"} /\ Record(w, job[current[w]], "failed")
     \/ worker[w] = "succeeded" /\ Record(w, "SUCCEEDED", "failed")
     \/ worker[w] = "blocked" /\ Record(w, "BLOCKED", "failed")
  /\ raced' = raced \union {current[w]}
  /\ UNCHANGED <<artifact, due>>

\* Faulty variant: a job that failed is not given back.
MarkFailedKeeps(w) ==
  /\ worker[w] = "failed"
  /\ Record(w, "RUNNING", "looping")
  /\ raced' = raced \union ReadBy({current[w]})
  /\ UNCHANGED <<artifact, due, faults>>

\* markFailed compares the attempts the claim returned.  A METADATA job that is
\* exhausted takes the artifact with it; the code has a transaction of its own for
\* that, which is part of this step, because no job is ever exhausted: its attempts
\* stay 0.
MarkFailed(w) ==
  LET exhausted == attempts[current[w]] >= MaxAttempts
  IN /\ worker[w] = "failed"
     /\ Record(w, IF exhausted THEN "FAILED" ELSE "PENDING", "looping")
     /\ due' = IF exhausted THEN due ELSE due \ {current[w]}
     /\ artifact' = IF exhausted /\ current[w][1] = "METADATA" THEN "FAILED" ELSE artifact
     /\ raced' = raced \union ReadBy({current[w]})
     /\ UNCHANGED faults

EndBatch(w) ==
  /\ worker[w] = "looping" /\ batch[w] = {}
  /\ worker' = [worker EXCEPT ![w] = "idle"]
  /\ UNCHANGED <<rowVars, callVars, batch, current, history, faults>>

\* The process dies, or markFailed itself fails: what was claimed stays RUNNING.
Abandon(w) ==
  /\ worker[w] # "idle" /\ Fault
  /\ stranded' = stranded \union Hand(w)
  /\ batch' = [batch EXCEPT ![w] = {}]
  /\ current' = [current EXCEPT ![w] = None]
  /\ worker' = [worker EXCEPT ![w] = "idle"]
  /\ UNCHANGED <<rowVars, callVars, raced>>

CallStep(c) == FindJob(c) \/ CreateJob(c) \/ ResetJob(c) \/ KeepJob(c)

WorkerStep(w) ==
  \/ Claim(w) \/ EndBatch(w) \/ MarkSucceeded(w) \/ MarkBlocked(w) \/ MarkFailed(w)
  \/ \E x \in Jobs : Dispatch(w, x) \/ DispatchError(w, x)

Next ==
  \/ \E c \in Calls : Archive(c) \/ (\E s \in Stages : Reprocess(c, s)) \/ CallStep(c)
  \/ \E x \in Jobs : BecomeDue(x)
  \/ \E w \in Workers : WorkerStep(w) \/ MarkError(w) \/ Abandon(w)

Spec == Init /\ [][Next]_vars

\* Calls go on, time passes and timers fire.
Scheduling ==
  /\ \A c \in Calls : WF_vars(CallStep(c))
  /\ \A x \in Jobs : WF_vars(BecomeDue(x))
  /\ \A w \in Workers : WF_vars(WorkerStep(w))

\* Storage does not refuse a job for ever that is tried again and again.
StorageRecovers == \A x \in Jobs : SF_vars(\E w \in Workers : Dispatch(w, x))

ScheduledSpec == Spec /\ Scheduling
FairSpec == ScheduledSpec /\ StorageRecovers

-----------------------------------------------------------------------------
(* Properties *)

\* Workers "cooperate without ever processing the same job twice"
\* (memory-job.runner): two hold one job only if a call wrote it between that
\* call's read and another write, or if its outcome was recorded unknown to its
\* worker.
HeldOnce ==
  \A v, w \in Workers : v # w => Hand(v) \intersect Hand(w) \subseteq raced

\* An artifact whose METADATA is done and was recorded does not stay in
\* PROCESSING, and one in PROCESSING has its METADATA ahead of it: what the
\* pages show as being processed is.
ProcessingIsOwed ==
  artifact = "PROCESSING" => ~Settled(job[First])

\* Every job is settled in the end, however often it is retried, unless a worker
\* that had claimed it went away: the code has nothing that looks for such a job
\* again (CrashedJobsAreReclaimed).
JobsSettle ==
  \A x \in Jobs :
    job[x] \in {"PENDING", "RUNNING"} ~> Settled(job[x]) \/ x \in stranded

\* "A transient error retries with exponential backoff up to max_attempts, then
\* the job is FAILED" (MEMORY_ENGINE.md), so it ends even if storage never
\* recovers.
RetriesEnd == JobsSettle

\* "a crash leaves the job RUNNING to be reclaimed rather than lost"
\* (MEMORY_ENGINE.md:107-109): a job whose worker went away does not stay RUNNING for
\* ever.  It does: claimBatch selects PENDING jobs, and a request requeues those that
\* are BLOCKED or FAILED.
CrashedJobsAreReclaimed ==
  \A x \in Jobs : x \in stranded /\ job[x] = "RUNNING" ~> job[x] # "RUNNING"
=============================================================================
