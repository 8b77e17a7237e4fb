------------------------------- MODULE Sermon -------------------------------
(***************************************************************************)
(* One sermon (modules/sermon): its status, the versions of its transcript *)
(* and the jobs of its processing pipeline.  The call that creates it, API *)
(* calls and workers meet in the same rows.                                *)
(*                                                                         *)
(* A transaction that reads a row and writes it later without a lock is    *)
(* split there; the others are one step.  enqueue reads all its jobs       *)
(* before it writes the first.  A transcript is its version, and what a    *)
(* stage has derived is the version it was derived from.  SPEAKER and TAG, *)
(* which only add to what is there, notes, shares and media are left out;  *)
(* time is which jobs are due.                                             *)
(***************************************************************************)
EXTENDS Naturals, FiniteSets

CONSTANTS
  Derived,     \* the stages that replace what they derive from the transcript
  Calls,       \* API calls
  Creator,     \* the call that creates the sermon
  Workers,     \* processes that run a SermonJobRunner
  BatchSize,   \* sermonWorker.batchSize
  MaxAttempts, \* sermon_processing_jobs.max_attempts
  None,        \* stands for no job
  MaxVersions, \* bound on the versions of the transcript
  MaxFaults    \* bound on crashes and failing updates

ASSUME CreatorIsCall == Creator \in Calls
ASSUME DerivedStages == "TRANSCRIBE" \notin Derived /\ None \notin Derived \union {"TRANSCRIBE"}
ASSUME BatchSizePositive == BatchSize \in Nat \ {0}
ASSUME MaxAttemptsPositive == MaxAttempts \in Nat \ {0}
ASSUME MaxVersionsPositive == MaxVersions \in Nat \ {0}
ASSUME MaxFaultsNat == MaxFaults \in Nat

Stages == {"TRANSCRIBE"} \union Derived

VARIABLES
  status,    \* sermons.status
  medium,    \* what TRANSCRIBE finds: readable text, media it cannot read, nothing
  versions,  \* versions of the transcript; the last one is current
  output,    \* the version each derived stage has last worked from, 0 for none
  job,       \* sermon_processing_jobs.status, "ABSENT" before the insert
  attempts,  \* sermon_processing_jobs.attempts
  due,       \* jobs with available_at <= now()
  call,      \* each API call: where it is, the status and the version it has read, the
             \* stages it asks for (then: the jobs it writes) and those without a job
  worker,    \* each worker: where it is, the claimed jobs it has not begun, the one it
             \* works on, which of these were claimed for the last time, the version it read
  raced,     \* stages whose transcript was replaced while they ran (history)
  lost,      \* a call ended half-way, or a worker that had claimed jobs (history)
  faults     \* faults so far, at most MaxFaults

rowVars == <<status, medium, versions, output>>
jobVars == <<job, attempts, due>>
history == <<raced, lost, faults>>
vars == <<rowVars, jobVars, call, worker, history>>

Statuses == {"DRAFT", "PROCESSING", "READY", "PUBLISHED", "ARCHIVED"}
JobStatuses == {"ABSENT", "PENDING", "RUNNING", "SUCCEEDED", "BLOCKED", "FAILED"}

CallPlaces == {"new", "publishing", "archiving", "reprocessing", "versioning", "writing",
               "finding", "queueing", "reading", "generating", "done"}
WorkerPlaces == {"looping", "versioning", "writing", "checking", "requeueing", "blocked",
                 "succeeded", "settling", "counting", "finishing", "failed"}

CallAt(place, stages) ==
  [at |-> place, saw |-> "DRAFT", read |-> 0, asked |-> stages, fresh |-> {}]
Looping(xs, spent) ==
  [at |-> "looping", batch |-> xs, job |-> None, spent |-> spent, read |-> 0]

TypeOK ==
  /\ status \in Statuses
  /\ medium \in {"TEXT", "OTHER", "NONE"}
  /\ versions \in 0..MaxVersions
  /\ output \in [Derived -> 0..MaxVersions]
  /\ job \in [Stages -> JobStatuses]
  /\ attempts \in [Stages -> 0..MaxAttempts]
  /\ due \subseteq Stages
  /\ call \in [Calls -> [at : CallPlaces, saw : Statuses, read : 0..MaxVersions,
                          asked : SUBSET Stages, fresh : SUBSET Stages]]
  /\ worker \in [Workers -> [at : WorkerPlaces, batch : SUBSET Stages,
                              job : Stages \union {None}, spent : SUBSET Stages,
                              read : 0..MaxVersions]]
  /\ raced \subseteq Derived
  /\ lost \in BOOLEAN
  /\ faults \in 0..MaxFaults

\* defaultStages
DefaultStages(hasTranscript, kind) ==
  IF hasTranscript THEN Derived ELSE IF kind = "NONE" THEN {} ELSE Stages

\* create has committed the sermon; its transcript and its jobs, if it has any,
\* are separate transactions that follow.
Created ==
  /\ \E hasTranscript \in BOOLEAN :
       LET stages == DefaultStages(hasTranscript, medium)
       IN /\ status = (IF stages = {} THEN "DRAFT" ELSE "PROCESSING")
          /\ call = [c \in Calls |->
                       IF c # Creator THEN CallAt("new", {})
                       ELSE CallAt(CASE hasTranscript -> "versioning"
                                     [] ~hasTranscript /\ stages # {} -> "finding"
                                     [] OTHER -> "done", stages)]
  /\ versions = 0
  /\ job = [s \in Stages |-> "ABSENT"]

\* Or it was created with its transcript long ago, and its jobs have succeeded.
Existing ==
  /\ status \in {"READY", "PUBLISHED"}
  /\ call = [c \in Calls |-> CallAt("new", {})]
  /\ versions = 1
  /\ job = [s \in Stages |-> IF s \in Derived THEN "SUCCEEDED" ELSE "ABSENT"]

Init ==
  /\ medium \in {"TEXT", "OTHER", "NONE"}
  /\ Created \/ Existing
  /\ output = [s \in Derived |-> versions]
  /\ attempts = [s \in Stages |-> IF job[s] = "SUCCEEDED" THEN 1 ELSE 0]
  /\ due = {s \in Stages : job[s] = "SUCCEEDED"}
  /\ worker = [w \in Workers |-> Looping({}, {})]
  /\ raced = {}
  /\ lost = FALSE
  /\ faults = 0

Open == {s \in Stages : job[s] \in {"PENDING", "RUNNING"}}
Fault == faults < MaxFaults /\ faults' = faults + 1

\* Stages that a worker runs, or whose text a call has read
Executing ==
  {s \in Derived : \/ \E w \in Workers : worker[w].job = s
                   \/ \E c \in Calls : call[c].at = "generating" /\ s \in call[c].asked}

-----------------------------------------------------------------------------
(* API calls *)

\* Faulty variant: only publish looks whether the sermon is archived.
AdmitsArchived(next) == next = "publishing" => status \notin {"ARCHIVED", "PUBLISHED", "PROCESSING"}

\* requireSermon and the checks of each service, on one snapshot
Admits(next) ==
  /\ status # "ARCHIVED"
  /\ next = "publishing" =>
       /\ status \notin {"PUBLISHED", "PROCESSING"}
       /\ status = "DRAFT" => medium # "NONE" \/ versions > 0

Begin(c, next, stages) ==
  /\ call[c].at = "new" /\ Admits(next)
  /\ call' = [call EXCEPT ![c] = [CallAt(next, stages) EXCEPT !.saw = status]]
  /\ UNCHANGED <<rowVars, jobVars, worker, history>>

\* publish and archive; reprocess names its stages or gets the default ones,
\* upsertTranscript asks for what follows a transcript, generate for one stage.
BeginCall(c) ==
  \/ \E next \in {"publishing", "archiving"} : Begin(c, next, {})
  \/ \E stages \in SUBSET Stages \ {{}} : Begin(c, "reprocessing", stages)
  \/ versions < MaxVersions /\ Begin(c, "versioning", Derived)
  \/ \E s \in Derived : Begin(c, "reading", {s})

\* The call goes on with the stages it asks for.
Goto(c, next) == call' = [call EXCEPT ![c] = CallAt(next, IF next = "done" THEN {} ELSE @.asked)]

\* What a call writes over the status, whatever it has become
NewStatus(c) ==
  CASE call[c].at = "publishing" -> "PUBLISHED"
    [] call[c].at = "archiving" -> "ARCHIVED"
    [] call[c].at = "reprocessing" /\ call[c].saw = "PUBLISHED" -> "PUBLISHED"
    [] OTHER -> "PROCESSING"

WriteStatus(c) ==
  /\ call[c].at \in {"publishing", "archiving", "reprocessing"}
  /\ status' = NewStatus(c)
  /\ Goto(c, IF call[c].at = "reprocessing" THEN "finding" ELSE "done")
  /\ UNCHANGED <<medium, versions, output, jobVars, worker, history>>

\* writeTranscript reads the latest version and adds the next one; a second writer
\* of the same version fails on the unique index.
ReadVersion(c) ==
  /\ call[c].at = "versioning"
  /\ call' = [call EXCEPT ![c].at = "writing", ![c].read = versions]
  /\ UNCHANGED <<rowVars, jobVars, worker, history>>

NewVersion(readVersion, alsoRaced) ==
  /\ readVersion = versions /\ versions < MaxVersions
  /\ versions' = versions + 1
  /\ raced' = raced \union Executing \union alsoRaced
  /\ UNCHANGED <<status, medium, output, jobVars, lost, faults>>

UpsertTranscript(c) ==
  /\ call[c].at = "writing"
  /\ NewVersion(call[c].read, {})
  /\ Goto(c, "finding")
  /\ UNCHANGED worker

\* Faulty variant: a job that has succeeded once is left alone.
RequeueableUnfinished(s) == job[s] \in {"ABSENT", "BLOCKED", "FAILED"}

\* enqueue creates a job or puts a settled one back; an open one is left alone.
Requeueable(s) == job[s] \notin {"PENDING", "RUNNING"}

FindJobs(c) ==
  /\ call[c].at = "finding"
  /\ call' = [call EXCEPT ![c].at = "queueing",
                          ![c].asked = {s \in @ : Requeueable(s)},
                          ![c].fresh = {s \in call[c].asked : job[s] = "ABSENT"}]
  /\ UNCHANGED <<rowVars, jobVars, worker, history>>

Enqueue(c) ==
  LET xs == call[c].asked
  IN /\ call[c].at = "queueing" /\ \A s \in call[c].fresh : job[s] = "ABSENT"
     /\ job' = [s \in Stages |-> IF s \in xs THEN "PENDING" ELSE job[s]]
     /\ attempts' = [s \in Stages |-> IF s \in xs THEN 0 ELSE attempts[s]]
     /\ due' = due \union xs
     /\ Goto(c, "done")
     /\ UNCHANGED <<rowVars, worker, history>>

\* generate runs the stage inside the request.
ReadText(c) ==
  /\ call[c].at = "reading"
  /\ IF versions = 0 THEN Goto(c, "done")
     ELSE call' = [call EXCEPT ![c].at = "generating", ![c].read = versions]
  /\ UNCHANGED <<rowVars, jobVars, worker, history>>

Generate(c) ==
  /\ call[c].at = "generating"
  /\ output' = [s \in Derived |-> IF s \in call[c].asked THEN call[c].read ELSE output[s]]
  /\ Goto(c, "done")
  /\ UNCHANGED <<status, medium, versions, jobVars, worker, history>>

\* The unique index of versions or of dedupe keys refuses a transaction: the call
\* ends with an error, and what it committed before stays.
Refused(c) ==
  /\ \/ call[c].at = "writing" /\ call[c].read # versions
     \/ call[c].at = "queueing" /\ \E s \in call[c].fresh : job[s] # "ABSENT"
  /\ Goto(c, "done")
  /\ lost' = TRUE
  /\ UNCHANGED <<rowVars, jobVars, worker, raced, faults>>

\* The process or its connection dies between two transactions of a call.
Drop(c) ==
  /\ call[c].at \notin {"new", "done"} /\ Fault
  /\ Goto(c, "done")
  /\ lost' = TRUE
  /\ UNCHANGED <<rowVars, jobVars, worker, raced>>

-----------------------------------------------------------------------------
(* Workers *)

\* The retry delay is over.
BecomeDue(s) ==
  /\ job[s] = "PENDING" /\ s \notin due
  /\ due' = due \union {s}
  /\ UNCHANGED <<rowVars, job, attempts, call, worker, history>>

Claimable == {s \in due : job[s] = "PENDING"}
Bump(n) == IF n < MaxAttempts THEN n + 1 ELSE n  \* it is only compared with MaxAttempts

\* claimBatch takes what is due, up to the limit; a request sets the priorities.
Claim(w) ==
  /\ worker[w] = Looping({}, {})
  /\ \E xs \in SUBSET Claimable \ {{}} :
       /\ Cardinality(xs) = BatchSize \/ (xs = Claimable /\ Cardinality(xs) < BatchSize)
       /\ job' = [s \in Stages |-> IF s \in xs THEN "RUNNING" ELSE job[s]]
       /\ attempts' = [s \in Stages |-> IF s \in xs THEN Bump(attempts[s]) ELSE attempts[s]]
       /\ worker' = [worker EXCEPT ![w] = Looping(xs, {s \in xs : attempts'[s] >= MaxAttempts})]
  /\ UNCHANGED <<rowVars, due, call, history>>

\* What a stage does once it has looked for the current transcript
AfterReading(s) ==
  CASE s \in Derived -> IF versions > 0 THEN "writing" ELSE "checking"
    [] s \notin Derived /\ (versions > 0 \/ medium = "NONE") -> "succeeded"
    [] OTHER -> IF medium = "TEXT" THEN "versioning" ELSE "blocked"

\* execute takes the next job and runStage begins.
StartStage(w, s) ==
  /\ worker[w].at = "looping" /\ s \in worker[w].batch
  /\ worker' = [worker EXCEPT ![w] =
       [at |-> AfterReading(s), batch |-> @.batch \ {s}, job |-> s, spent |-> @.spent,
        read |-> versions]]
  /\ UNCHANGED <<rowVars, jobVars, call, history>>

GotoW(w, next) ==
  worker' = [worker EXCEPT ![w] =
    IF next = "looping" THEN Looping(@.batch, @.spent \intersect @.batch)
    ELSE [@ EXCEPT !.at = next, !.read = 0]]

WorkerVersion(w) ==
  /\ worker[w].at = "versioning"
  /\ worker' = [worker EXCEPT ![w].at = "writing", ![w].read = versions]
  /\ UNCHANGED <<rowVars, jobVars, call, history>>

\* runTranscribe found no transcript when it began; if there is one by now, nothing
\* derives the stages again from the one it writes.
Transcribe(w) ==
  /\ worker[w].at = "writing" /\ worker[w].job = "TRANSCRIBE"
  /\ NewVersion(worker[w].read, IF versions > 0 THEN Derived ELSE {})
  /\ GotoW(w, "succeeded")
  /\ UNCHANGED call

\* runScripture, runSummarize, runChapterize, runIndex
Derive(w) ==
  /\ worker[w].at = "writing" /\ worker[w].job \in Derived
  /\ output' = [output EXCEPT ![worker[w].job] = worker[w].read]
  /\ GotoW(w, "succeeded")
  /\ UNCHANGED <<status, medium, versions, jobVars, call, history>>

\* Storage, the database or the chat provider refuses, or the version is taken.
StageError(w) ==
  /\ worker[w].at \in {"versioning", "writing"}
  /\ GotoW(w, "failed")
  /\ UNCHANGED <<rowVars, jobVars, call, history>>

\* transcriptStillPending
CheckTranscript(w) ==
  /\ worker[w].at = "checking"
  /\ GotoW(w, IF "TRANSCRIBE" \in Open THEN "requeueing" ELSE "blocked")
  /\ UNCHANGED <<rowVars, jobVars, call, history>>

\* The row of the current job is written by its id.
Record(w, result, next) ==
  /\ job' = [job EXCEPT ![worker[w].job] = result]
  /\ GotoW(w, next)
  /\ UNCHANGED <<rowVars, attempts, call, raced, lost>>

Requeue(w) ==
  /\ worker[w].at = "requeueing"
  /\ Record(w, "PENDING", "looping")
  /\ UNCHANGED <<due, faults>>

\* Faulty variant: the status of the sermon is written to its job.
OutcomeReady(w) == IF worker[w].at = "succeeded" THEN "READY" ELSE "BLOCKED"

Outcome(w) == IF worker[w].at = "succeeded" THEN "SUCCEEDED" ELSE "BLOCKED"

\* Faulty variant: an outcome is recorded and nobody looks whether it was the last.
MarkOutcomeUnsettled(w) ==
  /\ worker[w].at \in {"succeeded", "blocked"}
  /\ Record(w, Outcome(w), "looping")
  /\ UNCHANGED <<due, faults>>

\* markSucceeded, markBlocked
MarkOutcome(w) ==
  /\ worker[w].at \in {"succeeded", "blocked"}
  /\ Record(w, Outcome(w), "settling")
  /\ UNCHANGED <<due, faults>>

\* markReadyIfSettled reads the status, counts the open jobs and writes.
ReadStatus(w) ==
  /\ worker[w].at = "settling"
  /\ GotoW(w, IF status = "PROCESSING" THEN "counting" ELSE "looping")
  /\ UNCHANGED <<rowVars, jobVars, call, history>>

CountOpen(w) ==
  /\ worker[w].at = "counting"
  /\ GotoW(w, IF Open = {} THEN "finishing" ELSE "looping")
  /\ UNCHANGED <<rowVars, jobVars, call, history>>

MarkReady(w) ==
  /\ worker[w].at = "finishing"
  /\ status' = "READY"
  /\ GotoW(w, "looping")
  /\ UNCHANGED <<medium, versions, output, jobVars, call, history>>

\* The catch of execute: a transaction of the outcome fails, or is done and its
\* reply lost.  A job that has succeeded is failed when markReadyIfSettled fails.
OutcomeError(w) ==
  /\ Fault
  /\ \/ /\ worker[w].at \in {"checking", "requeueing", "succeeded", "blocked",
                             "settling", "counting", "finishing"}
        /\ Record(w, job[worker[w].job], "failed")
     \/ worker[w].at \in {"succeeded", "blocked"} /\ Record(w, Outcome(w), "failed")
  /\ UNCHANGED due

\* It judges by the attempts of the row as it was claimed.
MarkFailed(w) ==
  LET s == worker[w].job
      exhausted == s \in worker[w].spent
  IN /\ worker[w].at = "failed"
     /\ Record(w, IF exhausted THEN "FAILED" ELSE "PENDING", "looping")
     /\ due' = IF exhausted THEN due ELSE due \ {s}
     /\ UNCHANGED faults

\* The process dies: what it has claimed and not recorded stays RUNNING.
Abandon(w) ==
  /\ worker[w] # Looping({}, {}) /\ Fault
  /\ worker' = [worker EXCEPT ![w] = Looping({}, {})]
  /\ lost' = TRUE
  /\ UNCHANGED <<rowVars, jobVars, call, raced>>

CallStep(c) ==
  \/ WriteStatus(c) \/ ReadVersion(c) \/ UpsertTranscript(c) \/ FindJobs(c)
  \/ Enqueue(c) \/ ReadText(c) \/ Generate(c) \/ Refused(c)

WorkerStep(w) ==
  \/ Claim(w) \/ (\E s \in Stages : StartStage(w, s)) \/ WorkerVersion(w) \/ Transcribe(w)
  \/ Derive(w) \/ StageError(w) \/ CheckTranscript(w) \/ Requeue(w) \/ MarkOutcome(w)
  \/ ReadStatus(w) \/ CountOpen(w) \/ MarkReady(w) \/ MarkFailed(w)

Next ==
  \/ \E c \in Calls : BeginCall(c) \/ CallStep(c) \/ Drop(c)
  \/ \E s \in Stages : BecomeDue(s)
  \/ \E w \in Workers : WorkerStep(w) \/ OutcomeError(w) \/ Abandon(w)

Spec == Init /\ [][Next]_vars

\* Requests go on, time passes and timers fire; nothing has to succeed.
Fairness ==
  /\ \A c \in Calls : WF_vars(CallStep(c))
  /\ \A s \in Stages : WF_vars(BecomeDue(s))
  /\ \A w \in Workers : WF_vars(WorkerStep(w))

FairSpec == Spec /\ Fairness

-----------------------------------------------------------------------------
(* Properties *)

\* What a finished stage shows was derived from the current transcript ("every
\* derived field is produced here so the worker, a generate request and a manual
\* transcript upload all take the same path", sermon-pipeline.service), unless
\* the transcript was replaced while the stage ran, which enqueue then leaves
\* alone, or a call that replaced it has not come to its enqueue.
DerivedIsCurrent ==
  \A s \in Derived \ raced :
    job[s] = "SUCCEEDED" /\ ~lost /\ (\A c \in Calls : call[c].at \notin {"finding", "queueing"})
      => output[s] = versions

\* A call or a worker that is about to write a status over one it has not read
Overtaken ==
  \/ \E c \in Calls : call[c].at \in {"publishing", "reprocessing"} /\ call[c].saw # status
  \/ \E w \in Workers : worker[w].at \in {"counting", "finishing"} /\ status # "PROCESSING"

\* Unless a call or a worker had read the status before, an archived sermon stays
\* archived (assertMutable, publish), and a published one is withdrawn by archive
\* alone: reprocess and the jobs it queues leave it online.
StatusStays ==
  [][/\ status = "ARCHIVED" /\ ~Overtaken => status' = "ARCHIVED"
     /\ status = "PUBLISHED" /\ ~Overtaken => status' \in {"PUBLISHED", "ARCHIVED"}]_vars

\* Processing ends (SERMON.md: READY, "jobs have settled"), unless a stage has
\* used up its attempts or a call or a worker was lost half-way.
ProcessingEnds ==
  status = "PROCESSING" ~> status # "PROCESSING" \/ lost \/ \E s \in Stages : job[s] = "FAILED"
=============================================================================
