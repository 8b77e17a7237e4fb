---------------------------- MODULE MemoryProofs ----------------------------
(***************************************************************************)
(* Proofs about Memory, for any stages, calls, workers and faults.         *)
(***************************************************************************)
EXTENDS Memory, TLAPS

-----------------------------------------------------------------------------
(* The inductive invariant *)

\* A call has found something only while it is about to write it, ...
FoundShape ==
  \A c \in Calls :
    found[c] # NotFound
      => /\ call[c] = "writing" /\ found[c].job \in Jobs /\ found[c].status # "ABSENT"
         /\ job[found[c].job] # "ABSENT"

\* ... and the job is as it was found, or raced.
FoundCurrent ==
  \A c \in Calls :
    found[c] # NotFound => job[found[c].job] = found[c].status \/ found[c].job \in raced

\* The METADATA job is there, so that no call makes another one, and what a
\* call would make is not there yet.
FirstThere ==
  /\ job[First] # "ABSENT"
  /\ \A c \in Calls : call[c] = "writing" /\ found[c] = NotFound => wanted[c] # "METADATA"
NotMade == \A c \in Calls, s \in Stages \ {"METADATA"} : call[c] # "done" => job[<<s, c>>] = "ABSENT"

\* What a worker has in hand at each place
Shape(w) ==
  /\ worker[w] = "idle" => batch[w] = {}
  /\ current[w] = None <=> worker[w] \in {"idle", "looping"}
  /\ current[w] \notin batch[w]
Shapes == \A w \in Workers : Shape(w)

\* Nobody has written a job that is in hand, unless it has raced.
HandRunning ==
  \A w \in Workers : \A x \in Hand(w) : job[x] = "RUNNING" \/ (x \in raced /\ job[x] # "ABSENT")

\* The METADATA job is never blocked, and succeeds when it has marked the artifact.
MetadataMarks ==
  \A w \in Workers :
    /\ worker[w] = "blocked" => current[w] # First
    /\ worker[w] = "succeeded" => artifact # "PROCESSING"

IInv ==
  /\ TypeOK /\ FoundShape /\ FoundCurrent /\ FirstThere /\ NotMade
  /\ Shapes /\ HandRunning /\ HeldOnce /\ MetadataMarks /\ ProcessingIsOwed

-----------------------------------------------------------------------------
(* Jobs and hands *)

LEMMA JobFacts ==
  /\ First \in Jobs /\ First[1] = "METADATA" /\ None \notin Jobs
  /\ \A x \in Jobs : x[1] \in Stages /\ (x[1] = "METADATA" => x = First)
  /\ \A s \in Stages \ {"METADATA"}, c \in Calls : <<s, c>> \in Jobs /\ <<s, c>> # First
  /\ \A s, t \in Stages \ {"METADATA"}, b, c \in Calls : <<s, b>> = <<t, c>> => b = c
  BY MetadataStage, NoneDistinct DEF Jobs, First

LEMMA HandJobs ==
  ASSUME IInv, NEW w \in Workers
  PROVE  Hand(w) \subseteq Jobs /\ \A x \in Hand(w) : x = current[w] \/ x \in batch[w]
  BY DEF IInv, TypeOK, Hand

\* The rows of jobs stay, and no hand grows.
LEMMA JobsStay ==
  ASSUME IInv, UNCHANGED job, raced \subseteq raced', \A w \in Workers : Hand(w)' \subseteq Hand(w)
  PROVE  HandRunning' /\ HeldOnce'
  <1>1. HandRunning'
    BY DEF IInv, HandRunning
  <1>2. HeldOnce'
    BY DEF IInv, HeldOnce
  <1> QED BY <1>1, <1>2

\* One job is written, whoever read it has raced, and nobody holds it unraced any more.
LEMMA JobWritten ==
  ASSUME IInv, NEW x \in Jobs, NEW status \in JobStatuses \ {"ABSENT"}, job' = [job EXCEPT ![x] = status],
         raced \subseteq raced', \A w \in Workers : Hand(w)' \subseteq Hand(w),
         \A w \in Workers : x \in Hand(w)' => x \in raced'
  PROVE  HandRunning' /\ HeldOnce'
  <1>1. job \in [Jobs -> JobStatuses]
    BY DEF IInv, TypeOK
  <1>2. \A y \in Jobs \ {x} : job'[y] = job[y]
    BY <1>1
  <1>3. \A w \in Workers : Hand(w) \subseteq Jobs
    BY HandJobs
  <1>4. HandRunning'
    BY <1>1, <1>2, <1>3 DEF IInv, HandRunning
  <1>5. HeldOnce'
    BY DEF IInv, HeldOnce
  <1> QED BY <1>4, <1>5

\* What calls have found is still so after a write of which they are said to be raced.
LEMMA FoundStays ==
  ASSUME IInv, NEW xs, \A x \in Jobs \ xs : job'[x] = job[x], raced \subseteq raced',
         \A c \in Calls : found'[c] = found[c] \/ found'[c] = NotFound,
         \A c \in Calls :
           call[c] = "writing" /\ found'[c] # NotFound /\ found[c].job \in xs => found[c].job \in raced'
  PROVE  FoundCurrent'
  <1> SUFFICES ASSUME NEW c \in Calls, found'[c] # NotFound
               PROVE  job'[found'[c].job] = found'[c].status \/ found'[c].job \in raced'
    BY DEF FoundCurrent, NotFound
  <1>1. found'[c] = found[c] /\ call[c] = "writing" /\ found[c].job \in Jobs
    BY DEF IInv, FoundShape
  <1> QED BY <1>1 DEF IInv, FoundCurrent

\* What IInv says of rows and calls while the calls rest
RowsOfCalls == FoundShape /\ FirstThere /\ NotMade

LEMMA CallsRest ==
  ASSUME IInv, UNCHANGED callVars, \A x \in Jobs : job'[x] = "ABSENT" <=> job[x] = "ABSENT"
  PROVE  RowsOfCalls'
  <1>1. FoundShape'
    BY DEF IInv, FoundShape, callVars, NotFound
  <1>2. FirstThere'
    BY JobFacts DEF IInv, FirstThere, callVars
  <1>3. NotMade'
    BY JobFacts DEF IInv, NotMade, callVars
  <1> QED BY <1>1, <1>2, <1>3 DEF RowsOfCalls

\* While no job is settled anew and nothing is marked anew
LEMMA OwedStays ==
  ASSUME IInv, artifact' = "PROCESSING" => artifact = "PROCESSING",
         Settled(job'[First]) => Settled(job[First]) \/ artifact' # "PROCESSING"
  PROVE  ProcessingIsOwed'
  BY DEF IInv, ProcessingIsOwed, Settled

LEMMA Together ==
  ASSUME TypeOK', FoundCurrent', RowsOfCalls', Shapes', HandRunning' /\ HeldOnce',
         MetadataMarks', ProcessingIsOwed'
  PROVE  IInv'
  BY DEF IInv, RowsOfCalls

-----------------------------------------------------------------------------
(* Calls *)

LEMMA ArchiveStep ==
  ASSUME IInv, NEW c \in Calls, Archive(c)
  PROVE  IInv'
  <1> USE DEF workerVars, history
  <1>1. call' = [call EXCEPT ![c] = "done"] /\ call \in [Calls -> {"new", "finding", "writing", "done"}]
        /\ call[c] = "new"
    BY DEF Archive, IInv, TypeOK
  <1>2. TypeOK'
    BY <1>1 DEF Archive, IInv, TypeOK, ArtifactStatuses
  <1>3. FoundCurrent' /\ FoundShape'
    BY <1>1 DEF Archive, IInv, FoundCurrent, FoundShape
  <1>4. FirstThere' /\ NotMade'
    BY <1>1 DEF Archive, IInv, FirstThere, NotMade
  <1>5. Shapes' /\ HandRunning' /\ HeldOnce'
    BY DEF Archive, IInv, Shapes, Shape, HandRunning, HeldOnce, Hand
  <1>6. MetadataMarks' /\ ProcessingIsOwed'
    BY DEF Archive, IInv, MetadataMarks, ProcessingIsOwed
  <1> QED BY <1>2, <1>3, <1>4, <1>5, <1>6 DEF IInv

LEMMA ReprocessStep ==
  ASSUME IInv, NEW c \in Calls, NEW s \in Stages, Reprocess(c, s)
  PROVE  IInv'
  <1> USE DEF workerVars, history, rowVars
  <1>1. call' = [call EXCEPT ![c] = "finding"] /\ call \in [Calls -> {"new", "finding", "writing", "done"}]
        /\ call[c] = "new" /\ wanted' = [wanted EXCEPT ![c] = s] /\ wanted \in [Calls -> Stages]
    BY DEF Reprocess, IInv, TypeOK
  <1>2. TypeOK'
    BY <1>1 DEF Reprocess, IInv, TypeOK
  <1>3. FoundCurrent' /\ FoundShape'
    BY <1>1 DEF Reprocess, IInv, FoundCurrent, FoundShape
  <1>4. FirstThere' /\ NotMade'
    BY <1>1 DEF Reprocess, IInv, FirstThere, NotMade
  <1>5. Shapes' /\ HandRunning' /\ HeldOnce'
    BY DEF Reprocess, IInv, Shapes, Shape, HandRunning, HeldOnce, Hand
  <1>6. MetadataMarks' /\ ProcessingIsOwed'
    BY DEF Reprocess, IInv, MetadataMarks, ProcessingIsOwed
  <1> QED BY <1>2, <1>3, <1>4, <1>5, <1>6 DEF IInv

LEMMA FindJobStep ==
  ASSUME IInv, NEW c \in Calls, FindJob(c)
  PROVE  IInv'
  <1> USE DEF workerVars, history, rowVars
  <1> DEFINE same == {x \in Jobs : x[1] = wanted[c] /\ job[x] # "ABSENT"}
  <1>1. /\ call' = [call EXCEPT ![c] = "writing"] /\ call[c] = "finding"
        /\ call \in [Calls -> {"new", "finding", "writing", "done"}]
        /\ job \in [Jobs -> JobStatuses]
        /\ found \in [Calls -> [job : Jobs \union {None}, status : JobStatuses]]
    BY DEF FindJob, IInv, TypeOK
  <1>2. found[c] = NotFound
    BY <1>1 DEF IInv, FoundShape
  <1>3. /\ \A b \in Calls \ {c} : found'[b] = found[b]
        /\ \/ same = {} /\ found'[c] = NotFound
           \/ \E x \in same : found'[c] = [job |-> x, status |-> job[x]]
        /\ found' \in [Calls -> [job : Jobs \union {None}, status : JobStatuses]]
    <2>1. CASE same = {}
      BY <1>1, <1>2, <2>1 DEF FindJob
    <2>2. CASE same # {}
      <3>1. PICK x \in same : found' = [found EXCEPT ![c] = [job |-> x, status |-> job[x]]]
        BY <2>2 DEF FindJob
      <3> QED BY <1>1, <3>1
    <2> QED BY <2>1, <2>2
  <1>4. found'[c] # NotFound => found'[c].job \in Jobs /\ found'[c].status = job[found'[c].job]
                                /\ found'[c].status # "ABSENT"
    BY <1>3
  <1>5. found'[c] = NotFound => wanted[c] # "METADATA"
    <2>1. wanted[c] = "METADATA" => First \in same
      BY JobFacts DEF IInv, FirstThere
    <2>2. \A x \in same : [job |-> x, status |-> job[x]] # NotFound
      BY JobFacts DEF NotFound
    <2> QED BY <1>3, <2>1, <2>2
  <1>6. TypeOK'
    BY <1>1, <1>3 DEF FindJob, IInv, TypeOK
  <1>7. FoundCurrent' /\ FoundShape'
    <2> SUFFICES ASSUME NEW b \in Calls, found'[b] # NotFound
                 PROVE  /\ call'[b] = "writing" /\ found'[b].job \in Jobs /\ found'[b].status # "ABSENT"
                        /\ job'[found'[b].job] # "ABSENT"
                        /\ job'[found'[b].job] = found'[b].status \/ found'[b].job \in raced'
      BY DEF FoundCurrent, FoundShape, NotFound
    <2>1. UNCHANGED <<job, raced>>
      BY DEF FindJob
    <2>2. CASE b = c
      BY <1>1, <1>4, <2>1, <2>2
    <2>3. CASE b # c
      BY <1>1, <1>3, <2>1, <2>3 DEF IInv, FoundCurrent, FoundShape
    <2> QED BY <2>2, <2>3
  <1>8. FirstThere'
    BY <1>1, <1>3, <1>5 DEF FindJob, IInv, FirstThere, NotFound
  <1>9. NotMade'
    BY <1>1 DEF FindJob, IInv, NotMade
  <1>10. Shapes' /\ HandRunning' /\ HeldOnce'
    BY DEF FindJob, IInv, Shapes, Shape, HandRunning, HeldOnce, Hand
  <1>11. MetadataMarks' /\ ProcessingIsOwed'
    BY DEF FindJob, IInv, MetadataMarks, ProcessingIsOwed
  <1> QED BY <1>6, <1>7, <1>8, <1>9, <1>10, <1>11 DEF IInv

\* A call puts a job back of which it knows that nobody works on it.
LEMMA QueueStep ==
  ASSUME IInv, NEW c \in Calls, call[c] = "writing", NEW x \in Jobs, Queue(c, x),
         job[x] # "RUNNING" \/ x \in raced,
         x = First \/ job[x] # "ABSENT" \/ \E s \in Stages : x = <<s, c>>,
         call' = [call EXCEPT ![c] = "done"], found' = [found EXCEPT ![c] = NotFound],
         UNCHANGED <<artifact, wanted, worker, batch, current, stranded, faults>>
  PROVE  IInv'
  <1>1. /\ call \in [Calls -> {"new", "finding", "writing", "done"}]
        /\ job \in [Jobs -> JobStatuses] /\ attempts \in [Jobs -> 0..MaxAttempts]
        /\ found \in [Calls -> [job : Jobs \union {None}, status : JobStatuses]]
    BY DEF IInv, TypeOK
  <1>2. /\ job'[x] = "PENDING" /\ \A y \in Jobs \ {x} : job'[y] = job[y]
        /\ raced \subseteq raced' /\ raced' \subseteq raced \union {x}
        /\ found'[c] = NotFound /\ \A b \in Calls \ {c} : found'[b] = found[b] /\ call'[b] = call[b]
        /\ call'[c] = "done"
    BY <1>1 DEF Queue
  <1>3. TypeOK'
    <2>1. job' \in [Jobs -> JobStatuses]
      BY <1>1 DEF Queue, JobStatuses
    <2>2. attempts' \in [Jobs -> 0..MaxAttempts]
      <3>1. 0 \in 0..MaxAttempts
        BY MaxAttemptsPositive
      <3> QED BY <1>1, <3>1 DEF Queue
    <2>3. found' \in [Calls -> [job : Jobs \union {None}, status : JobStatuses]]
      BY <1>1 DEF NotFound, JobStatuses
    <2>4. due' \subseteq Jobs /\ raced' \subseteq Jobs
      BY <1>2 DEF Queue, IInv, TypeOK
    <2> QED BY <1>1, <2>1, <2>2, <2>3, <2>4 DEF IInv, TypeOK
  <1>4. FoundCurrent'
    <2>1. \A b \in Calls : call[b] = "writing" /\ found'[b] # NotFound /\ found[b].job \in {x}
                             => found[b].job \in raced'
      BY <1>2 DEF Queue
    <2> QED BY <1>2, <2>1, FoundStays
  <1>5. FoundShape' /\ FirstThere'
    BY <1>2, JobFacts DEF IInv, FoundShape, FirstThere, NotFound
  <1>6. NotMade'
    <2> SUFFICES ASSUME NEW b \in Calls, NEW t \in Stages \ {"METADATA"}, call'[b] # "done"
                 PROVE  job'[<<t, b>>] = "ABSENT"
      BY DEF NotMade
    <2>1. b # c /\ call[b] # "done" /\ job[<<t, b>>] = "ABSENT" /\ <<t, b>> \in Jobs
      BY <1>2, JobFacts DEF IInv, NotMade
    <2>2. <<t, b>> # x
      BY <2>1, JobFacts
    <2> QED BY <1>2, <2>1, <2>2
  <1>7. \A w \in Workers : Hand(w)' = Hand(w)
    BY DEF Hand
  <1>8. HandRunning' /\ HeldOnce'
    <2>1. \A w \in Workers : x \in Hand(w)' => x \in raced'
      BY <1>2, <1>7 DEF IInv, HandRunning
    <2>2. "PENDING" \in JobStatuses \ {"ABSENT"} /\ job' = [job EXCEPT ![x] = "PENDING"]
      BY DEF JobStatuses, Queue
    <2> QED BY <1>2, <1>7, <2>1, <2>2, JobWritten
  <1>9. Shapes' /\ MetadataMarks'
    BY DEF IInv, Shapes, Shape, MetadataMarks
  <1>10. ProcessingIsOwed'
    <2>1. job'[First] = job[First] \/ job'[First] = "PENDING"
      BY <1>2, JobFacts
    <2> QED BY <2>1 DEF IInv, ProcessingIsOwed, Settled
  <1> QED BY <1>3, <1>4, <1>5, <1>6, <1>8, <1>9, <1>10 DEF IInv

LEMMA WriteSteps ==
  ASSUME IInv, NEW c \in Calls, CreateJob(c) \/ ResetJob(c) \/ KeepJob(c)
  PROVE  IInv'
  <1>1. found \in [Calls -> [job : Jobs \union {None}, status : JobStatuses]] /\ wanted[c] \in Stages
    BY DEF IInv, TypeOK
  <1>2. CASE CreateJob(c)
    <2> DEFINE x == <<wanted[c], c>>
    <2>1. wanted[c] # "METADATA" /\ call[c] = "writing" /\ found[c] = NotFound
      BY <1>2 DEF CreateJob, IInv, FirstThere
    <2>2. x \in Jobs /\ job[x] = "ABSENT"
      BY <1>1, <2>1, JobFacts DEF IInv, NotMade
    <2>3. found' = [found EXCEPT ![c] = NotFound]
      BY <1>1, <1>2, <2>1 DEF CreateJob
    <2>4. /\ Queue(c, x) /\ call' = [call EXCEPT ![c] = "done"]
          /\ UNCHANGED <<artifact, wanted, worker, batch, current, stranded, faults>>
      BY <1>2 DEF CreateJob, workerVars
    <2>5. \E s \in Stages : x = <<s, c>>
      BY <1>1
    <2> HIDE DEF x
    <2> QED BY <2>1, <2>2, <2>3, <2>4, <2>5, QueueStep
  <1>3. CASE ResetJob(c)
    <2> DEFINE x == found[c].job
    <2>1. /\ call[c] = "writing" /\ found[c].status \in {"BLOCKED", "FAILED"}
          /\ Queue(c, x) /\ call' = [call EXCEPT ![c] = "done"] /\ found' = [found EXCEPT ![c] = NotFound]
          /\ UNCHANGED <<artifact, wanted, worker, batch, current, stranded, faults>>
      BY <1>3 DEF ResetJob, Requeueable, workerVars
    <2>2. found[c] # NotFound
      BY <2>1 DEF NotFound
    <2>3. x \in Jobs /\ (job[x] = found[c].status \/ x \in raced)
      BY <2>2 DEF IInv, FoundShape, FoundCurrent
    <2>4. x = First \/ job[x] # "ABSENT" \/ \E s \in Stages : x = <<s, c>>
      BY <2>2 DEF IInv, FoundShape
    <2> HIDE DEF x
    <2> QED BY <2>1, <2>3, <2>4, QueueStep
  <1>4. CASE KeepJob(c)
    <2> USE <1>4 DEF workerVars, history, rowVars
    <2>1. /\ call' = [call EXCEPT ![c] = "done"] /\ found' = [found EXCEPT ![c] = NotFound]
          /\ call \in [Calls -> {"new", "finding", "writing", "done"}]
          /\ UNCHANGED <<rowVars, wanted, workerVars, history, faults>>
      BY DEF KeepJob, IInv, TypeOK
    <2>2. TypeOK'
      <3>1. NotFound \in [job : Jobs \union {None}, status : JobStatuses]
        BY DEF NotFound, JobStatuses
      <3> QED BY <1>1, <2>1, <3>1 DEF IInv, TypeOK
    <2>3. FoundCurrent' /\ FoundShape'
      BY <1>1, <2>1 DEF IInv, FoundCurrent, FoundShape, NotFound
    <2>4. FirstThere' /\ NotMade'
      BY <1>1, <2>1 DEF IInv, FirstThere, NotMade, NotFound
    <2>5. Shapes' /\ HandRunning' /\ HeldOnce'
      BY <2>1 DEF IInv, Shapes, Shape, HandRunning, HeldOnce, Hand
    <2>6. MetadataMarks' /\ ProcessingIsOwed'
      BY <2>1 DEF IInv, MetadataMarks, ProcessingIsOwed
    <2> QED BY <2>2, <2>3, <2>4, <2>5, <2>6 DEF IInv
  <1> QED BY <1>2, <1>3, <1>4

-----------------------------------------------------------------------------
(* Workers *)

LEMMA BecomeDueStep ==
  ASSUME IInv, NEW x \in Jobs, BecomeDue(x)
  PROVE  IInv'
  <1> USE DEF callVars, workerVars, history
  <1>1. UNCHANGED <<artifact, job, attempts, callVars, workerVars, history, faults>>
    BY DEF BecomeDue
  <1>2. TypeOK'
    BY <1>1 DEF BecomeDue, IInv, TypeOK
  <1>3. FoundCurrent'
    BY <1>1 DEF IInv, FoundCurrent
  <1>4. RowsOfCalls'
    BY <1>1, CallsRest
  <1>5. HandRunning' /\ HeldOnce'
    BY <1>1, JobsStay DEF Hand
  <1>6. Shapes' /\ MetadataMarks' /\ ProcessingIsOwed'
    BY <1>1 DEF IInv, Shapes, Shape, MetadataMarks, ProcessingIsOwed
  <1> QED BY <1>2, <1>3, <1>4, <1>5, <1>6, Together

LEMMA ClaimStep ==
  ASSUME IInv, NEW w \in Workers, Claim(w)
  PROVE  IInv'
  <1>1. PICK xs \in SUBSET Claimable :
          /\ job' = [x \in Jobs |-> IF x \in xs THEN "RUNNING" ELSE job[x]]
          /\ batch' = [batch EXCEPT ![w] = xs]
          /\ raced' = raced \union ReadBy(xs)
    BY DEF Claim
  <1>2. /\ worker[w] = "idle" /\ worker' = [worker EXCEPT ![w] = "looping"]
        /\ UNCHANGED <<artifact, attempts, due, callVars, current, stranded, faults>>
    BY DEF Claim
  <1>3. /\ job \in [Jobs -> JobStatuses] /\ batch \in [Workers -> SUBSET Jobs]
        /\ worker \in [Workers -> {"idle", "looping", "succeeded", "blocked", "failed"}]
        /\ current \in [Workers -> Jobs \union {None}] /\ raced \subseteq Jobs
    BY DEF IInv, TypeOK
  <1>4. xs \subseteq Jobs /\ \A x \in xs : job[x] = "PENDING"
    BY DEF Claimable, IInv, TypeOK
  <1>5. /\ \A x \in xs : job'[x] = "RUNNING"
        /\ \A x \in Jobs \ xs : job'[x] = job[x]
    BY <1>1, <1>4
  <1>6. TypeOK'
    <2>1. job' \in [Jobs -> JobStatuses]
      BY <1>1, <1>3 DEF JobStatuses
    <2>2. /\ worker' \in [Workers -> {"idle", "looping", "succeeded", "blocked", "failed"}]
          /\ batch' \in [Workers -> SUBSET Jobs]
      BY <1>1, <1>2, <1>3, <1>4
    <2>3. raced' \subseteq Jobs
      BY <1>1, <1>3, <1>4 DEF ReadBy
    <2> QED BY <1>2, <2>1, <2>2, <2>3 DEF IInv, TypeOK, callVars
  <1>7. FoundCurrent'
    <2>1. \A c \in Calls : found'[c] = found[c]
      BY <1>2 DEF callVars
    <2>2. \A c \in Calls : call[c] = "writing" /\ found'[c] # NotFound /\ found[c].job \in xs
                             => found[c].job \in raced'
      BY <1>1 DEF ReadBy
    <2> QED BY <1>1, <1>5, <2>1, <2>2, FoundStays
  <1>8. RowsOfCalls'
    BY <1>2, <1>4, <1>5, CallsRest
  <1>9. current[w] = None /\ Hand(w)' = xs
    <2>1. current[w] = None
      BY <1>2 DEF IInv, Shapes, Shape
    <2>2. batch'[w] = xs /\ current'[w] = None
      BY <1>1, <1>2, <1>3, <2>1
    <2> QED BY <2>1, <2>2 DEF Hand
  <1>10. \A v \in Workers \ {w} : Hand(v)' = Hand(v) /\ Hand(v) \subseteq Jobs
    BY <1>1, <1>2, <1>3, HandJobs DEF Hand
  <1>11. HandRunning'
    <2> SUFFICES ASSUME NEW v \in Workers, NEW x \in Hand(v)'
                 PROVE  job'[x] = "RUNNING" \/ (x \in raced' /\ job'[x] # "ABSENT")
      BY DEF HandRunning
    <2>1. CASE v = w
      BY <1>5, <1>9, <2>1
    <2>2. CASE v # w
      BY <1>1, <1>5, <1>10, <2>2 DEF IInv, HandRunning
    <2> QED BY <2>1, <2>2
  <1>12. HeldOnce'
    <2>1. \A v \in Workers \ {w} : Hand(v) \intersect xs \subseteq raced
      BY <1>4 DEF IInv, HandRunning
    <2> SUFFICES ASSUME NEW u \in Workers, NEW v \in Workers, u # v
                 PROVE  Hand(u)' \intersect Hand(v)' \subseteq raced'
      BY DEF HeldOnce
    <2>2. CASE u = w
      BY <1>1, <1>9, <1>10, <2>1, <2>2
    <2>3. CASE v = w
      BY <1>1, <1>9, <1>10, <2>1, <2>3
    <2>4. CASE u # w /\ v # w
      BY <1>1, <1>10, <2>4 DEF IInv, HeldOnce
    <2> QED BY <2>2, <2>3, <2>4
  <1>13. Shapes'
    <2> SUFFICES ASSUME NEW v \in Workers
                 PROVE  Shape(v)'
      BY DEF Shapes
    <2>1. CASE v = w
      <3>1. worker'[w] = "looping" /\ current'[w] = None /\ batch'[w] = xs /\ None \notin xs
        BY <1>1, <1>2, <1>3, <1>4, <1>9, JobFacts
      <3> QED BY <2>1, <3>1 DEF Shape
    <2>2. CASE v # w
      BY <1>1, <1>2, <1>3, <2>2 DEF IInv, Shapes, Shape
    <2> QED BY <2>1, <2>2
  <1>14. MetadataMarks'
    BY <1>2, <1>3 DEF IInv, MetadataMarks
  <1>15. ProcessingIsOwed'
    <2>1. job'[First] = job[First] \/ job'[First] = "RUNNING"
      BY <1>5, JobFacts
    <2> QED BY <1>2, <2>1 DEF IInv, ProcessingIsOwed, Settled
  <1> QED BY <1>6, <1>7, <1>8, <1>11, <1>12, <1>13, <1>14, <1>15, Together

LEMMA StartSteps ==
  ASSUME IInv, NEW w \in Workers, NEW x \in Jobs, Dispatch(w, x) \/ DispatchError(w, x)
  PROVE  IInv'
  <1>1. PICK next \in {"succeeded", "blocked", "failed"} :
          /\ Start(w, x, next)
          /\ next = "succeeded" => x[1] = "METADATA" /\ artifact' = StatusAfter(x[1])
          /\ next = "blocked" => x[1] # "METADATA"
          /\ artifact' \in {artifact, StatusAfter(x[1])}
    <2>1. CASE Dispatch(w, x)
      BY <2>1 DEF Dispatch
    <2>2. CASE DispatchError(w, x)
      BY <2>2 DEF DispatchError
    <2> QED BY <2>1, <2>2
  <1>2. /\ worker[w] = "looping" /\ x \in batch[w]
        /\ batch' = [batch EXCEPT ![w] = @ \ {x}] /\ current' = [current EXCEPT ![w] = x]
        /\ worker' = [worker EXCEPT ![w] = next]
        /\ UNCHANGED <<job, attempts, due, callVars, raced, stranded, faults>>
    BY <1>1 DEF Start
  <1>3. /\ batch \in [Workers -> SUBSET Jobs] /\ current \in [Workers -> Jobs \union {None}]
        /\ worker \in [Workers -> {"idle", "looping", "succeeded", "blocked", "failed"}]
    BY DEF IInv, TypeOK
  <1>4. /\ StatusAfter(x[1]) \in ArtifactStatuses
        /\ StatusAfter(x[1]) = "PROCESSING" => artifact = "PROCESSING"
        /\ StatusAfter("METADATA") = "READY"
    BY DEF StatusAfter, IInv, TypeOK, ArtifactStatuses
  <1>5. /\ batch'[w] = batch[w] \ {x} /\ current'[w] = x /\ worker'[w] = next
        /\ \A v \in Workers \ {w} :
             batch'[v] = batch[v] /\ current'[v] = current[v] /\ worker'[v] = worker[v]
    BY <1>2, <1>3
  <1>6. TypeOK'
    <2>1. /\ batch' \in [Workers -> SUBSET Jobs] /\ current' \in [Workers -> Jobs \union {None}]
          /\ worker' \in [Workers -> {"idle", "looping", "succeeded", "blocked", "failed"}]
      BY <1>2, <1>3
    <2> QED BY <1>1, <1>2, <1>4, <2>1 DEF IInv, TypeOK, callVars
  <1>7. FoundCurrent' /\ RowsOfCalls'
    BY <1>2, CallsRest DEF IInv, FoundCurrent, callVars
  <1>8. HandRunning' /\ HeldOnce'
    <2>1. current[w] = None
      BY <1>2 DEF IInv, Shapes, Shape
    <2>2. \A v \in Workers : Hand(v)' \subseteq Hand(v)
      BY <1>2, <1>5, <2>1 DEF Hand
    <2> QED BY <1>2, <2>2, JobsStay
  <1>9. Shapes'
    <2> SUFFICES ASSUME NEW v \in Workers
                 PROVE  Shape(v)'
      BY DEF Shapes
    <2>1. CASE v = w
      BY <1>5, <2>1, JobFacts DEF Shape
    <2>2. CASE v # w
      BY <1>5, <2>2 DEF IInv, Shapes, Shape
    <2> QED BY <2>1, <2>2
  <1>10. MetadataMarks'
    <2>1. artifact' = "PROCESSING" => artifact = "PROCESSING"
      BY <1>1, <1>4
    <2> SUFFICES ASSUME NEW v \in Workers
                 PROVE  /\ worker'[v] = "blocked" => current'[v] # First
                        /\ worker'[v] = "succeeded" => artifact' # "PROCESSING"
      BY DEF MetadataMarks
    <2>2. CASE v = w
      BY <1>1, <1>4, <1>5, <2>2, JobFacts
    <2>3. CASE v # w
      BY <1>5, <2>1, <2>3 DEF IInv, MetadataMarks
    <2> QED BY <2>2, <2>3
  <1>11. ProcessingIsOwed'
    BY <1>1, <1>2, <1>4, OwedStays
  <1> QED BY <1>6, <1>7, <1>8, <1>9, <1>10, <1>11, Together

\* The worker writes its job and lets go of it, or goes on to markFailed.
LEMMA RecordStep ==
  ASSUME IInv, NEW w \in Workers, worker[w] \notin {"idle", "looping"},
         NEW status \in JobStatuses \ {"ABSENT"}, NEW next \in {"looping", "failed"},
         Record(w, status, next),
         raced \union ReadBy({current[w]}) \subseteq raced', raced' \subseteq Jobs,
         next = "failed" => current[w] \in raced',
         artifact' \in ArtifactStatuses, artifact' = "PROCESSING" => artifact = "PROCESSING",
         current[w] = First /\ Settled(status) => Settled(job[First]) \/ artifact' # "PROCESSING",
         due' \subseteq Jobs, faults' \in 0..MaxFaults
  PROVE  IInv'
  <1> DEFINE x == current[w]
  <1>1. /\ job \in [Jobs -> JobStatuses]
        /\ batch \in [Workers -> SUBSET Jobs] /\ current \in [Workers -> Jobs \union {None}]
        /\ worker \in [Workers -> {"idle", "looping", "succeeded", "blocked", "failed"}]
    BY DEF IInv, TypeOK
  <1>2. x # None /\ x \in Jobs /\ x \notin batch[w] /\ x \in Hand(w)
    BY <1>1 DEF IInv, Shapes, Shape, Hand
  <1>3. /\ job' = [job EXCEPT ![x] = status] /\ worker' = [worker EXCEPT ![w] = next]
        /\ current' = [current EXCEPT ![w] = IF next = "looping" THEN None ELSE @]
        /\ UNCHANGED <<attempts, callVars, batch, stranded>>
    BY DEF Record
  <1>4. /\ worker'[w] = next /\ current'[w] = IF next = "looping" THEN None ELSE x
        /\ \A v \in Workers \ {w} : current'[v] = current[v] /\ worker'[v] = worker[v]
    BY <1>1, <1>3
  <1> HIDE DEF x
  <1>5. job'[x] = status /\ \A y \in Jobs \ {x} : job'[y] = job[y]
    BY <1>1, <1>2, <1>3
  <1>6. TypeOK'
    <2>1. /\ job' \in [Jobs -> JobStatuses] /\ current' \in [Workers -> Jobs \union {None}]
          /\ worker' \in [Workers -> {"idle", "looping", "succeeded", "blocked", "failed"}]
      BY <1>1, <1>3
    <2> QED BY <1>3, <2>1 DEF IInv, TypeOK, callVars
  <1>7. FoundCurrent'
    <2>1. \A c \in Calls : call[c] = "writing" /\ found'[c] # NotFound /\ found[c].job \in {x}
                             => found[c].job \in raced'
      BY DEF ReadBy, x
    <2>2. \A c \in Calls : found'[c] = found[c]
      BY <1>3 DEF callVars
    <2> QED BY <1>5, <2>1, <2>2, FoundStays
  <1>8. RowsOfCalls'
    <2>1. job[x] # "ABSENT"
      BY <1>2 DEF IInv, HandRunning
    <2> QED BY <1>3, <1>5, <2>1, CallsRest
  <1>9. HandRunning' /\ HeldOnce'
    <2>1. \A v \in Workers : Hand(v)' \subseteq Hand(v)
      BY <1>3, <1>4 DEF Hand, x
    <2>2. ASSUME NEW v \in Workers, x \in Hand(v)'
          PROVE  x \in raced'
      <3>1. CASE v = w
        <4>1. x # current'[w] => x \notin Hand(w)'
          BY <1>2, <1>3 DEF Hand
        <4> QED BY <1>2, <1>4, <2>2, <3>1, <4>1 DEF x
      <3>2. CASE v # w
        BY <1>2, <2>1, <2>2, <3>2 DEF IInv, HeldOnce
      <3> QED BY <3>1, <3>2
    <2> QED BY <1>2, <1>3, <2>1, <2>2, JobWritten
  <1>10. Shapes'
    <2> SUFFICES ASSUME NEW v \in Workers
                 PROVE  Shape(v)'
      BY DEF Shapes
    <2>1. CASE v = w
      BY <1>1, <1>2, <1>3, <1>4, <2>1, JobFacts DEF Shape
    <2>2. CASE v # w
      BY <1>3, <1>4, <2>2 DEF IInv, Shapes, Shape
    <2> QED BY <2>1, <2>2
  <1>11. MetadataMarks'
    <2> SUFFICES ASSUME NEW v \in Workers
                 PROVE  /\ worker'[v] = "blocked" => current'[v] # First
                        /\ worker'[v] = "succeeded" => artifact' # "PROCESSING"
      BY DEF MetadataMarks
    <2>1. CASE v = w
      BY <1>4, <2>1
    <2>2. CASE v # w
      BY <1>4, <2>2 DEF IInv, MetadataMarks
    <2> QED BY <2>1, <2>2
  <1>12. ProcessingIsOwed'
    <2>1. Settled(job'[First]) => Settled(job[First]) \/ artifact' # "PROCESSING"
      BY <1>5, JobFacts DEF x
    <2> QED BY <2>1, OwedStays
  <1> QED BY <1>6, <1>7, <1>8, <1>9, <1>10, <1>11, <1>12, Together

LEMMA MarkSteps ==
  ASSUME IInv, NEW w \in Workers, MarkSucceeded(w) \/ MarkBlocked(w) \/ MarkFailed(w) \/ MarkError(w)
  PROVE  IInv'
  <1>1. /\ artifact \in ArtifactStatuses /\ due \subseteq Jobs /\ faults \in 0..MaxFaults
        /\ raced \subseteq Jobs
        /\ worker[w] = "blocked" => current[w] # First
        /\ worker[w] = "succeeded" => artifact # "PROCESSING"
    BY DEF IInv, TypeOK, MetadataMarks
  <1>2. \A xs : ReadBy(xs) \subseteq xs
    BY DEF ReadBy
  <1>3. worker[w] \notin {"idle", "looping"}
    BY DEF MarkSucceeded, MarkBlocked, MarkFailed, MarkError
  <1>4. current[w] \in Jobs /\ job[current[w]] \in JobStatuses \ {"ABSENT"}
    <2>1. current[w] # None /\ current[w] \in Jobs
      BY <1>3 DEF IInv, Shapes, Shape, TypeOK
    <2>2. current[w] \in Hand(w)
      BY <2>1 DEF Hand
    <2> QED BY <2>1, <2>2 DEF IInv, TypeOK, HandRunning, JobStatuses
  <1>5. {"SUCCEEDED", "BLOCKED", "FAILED", "PENDING"} \subseteq JobStatuses \ {"ABSENT"}
    BY DEF JobStatuses
  <1>6. CASE MarkSucceeded(w)
    BY <1>1, <1>2, <1>4, <1>5, <1>6, RecordStep DEF MarkSucceeded
  <1>7. CASE MarkBlocked(w)
    BY <1>1, <1>2, <1>4, <1>5, <1>7, RecordStep DEF MarkBlocked
  <1>8. CASE MarkFailed(w)
    <2> DEFINE exhausted == attempts[current[w]] >= MaxAttempts
               status == IF exhausted THEN "FAILED" ELSE "PENDING"
    <2>1. /\ Record(w, status, "looping") /\ due' \subseteq due
          /\ artifact' = IF exhausted /\ current[w][1] = "METADATA" THEN "FAILED" ELSE artifact
          /\ raced' = raced \union ReadBy({current[w]}) /\ faults' = faults
      BY <1>8 DEF MarkFailed
    <2>2. status \in JobStatuses \ {"ABSENT"} /\ "FAILED" \in ArtifactStatuses
      BY <1>5 DEF ArtifactStatuses
    <2>3. Settled(status) => exhausted
      BY DEF Settled
    <2> HIDE DEF exhausted, status
    <2> QED BY <1>1, <1>2, <1>3, <1>4, <2>1, <2>2, <2>3, RecordStep, JobFacts
  <1>9. CASE MarkError(w)
    <2>1. PICK status \in JobStatuses \ {"ABSENT"} :
            /\ Record(w, status, "failed")
            /\ \/ status = job[current[w]]
               \/ worker[w] = "succeeded" /\ status = "SUCCEEDED"
               \/ worker[w] = "blocked" /\ status = "BLOCKED"
      BY <1>4, <1>5, <1>9 DEF MarkError
    <2>2. /\ raced' = raced \union {current[w]} /\ artifact' = artifact /\ due' = due
          /\ faults' \in 0..MaxFaults
      BY <1>1, <1>9, MaxFaultsNat DEF MarkError, Fault
    <2> QED BY <1>1, <1>2, <1>3, <1>4, <2>1, <2>2, RecordStep
  <1> QED BY <1>6, <1>7, <1>8, <1>9

\* A worker lets go of all that it has.
LEMMA LeaveSteps ==
  ASSUME IInv, NEW w \in Workers, EndBatch(w) \/ Abandon(w)
  PROVE  IInv'
  <1>1. /\ batch \in [Workers -> SUBSET Jobs] /\ current \in [Workers -> Jobs \union {None}]
        /\ worker \in [Workers -> {"idle", "looping", "succeeded", "blocked", "failed"}]
        /\ faults \in 0..MaxFaults /\ stranded \subseteq Jobs /\ Hand(w) \subseteq Jobs
    BY HandJobs DEF IInv, TypeOK
  <1>2. /\ batch' = [batch EXCEPT ![w] = {}] /\ current' = [current EXCEPT ![w] = None]
        /\ worker' = [worker EXCEPT ![w] = "idle"] /\ worker[w] # "idle"
        /\ UNCHANGED <<rowVars, callVars, raced>>
        /\ stranded' \subseteq Jobs /\ faults' \in 0..MaxFaults
    <2>1. CASE EndBatch(w)
      <3>1. batch[w] = {} /\ current[w] = None
        BY <2>1 DEF EndBatch, IInv, Shapes, Shape
      <3> QED BY <1>1, <2>1, <3>1 DEF EndBatch, history
    <2>2. CASE Abandon(w)
      BY <1>1, <2>2, MaxFaultsNat DEF Abandon, Fault
    <2> QED BY <2>1, <2>2
  <1>3. /\ batch'[w] = {} /\ current'[w] = None /\ worker'[w] = "idle"
        /\ \A v \in Workers \ {w} :
             batch'[v] = batch[v] /\ current'[v] = current[v] /\ worker'[v] = worker[v]
    BY <1>1, <1>2
  <1>4. TypeOK'
    <2>1. /\ batch' \in [Workers -> SUBSET Jobs] /\ current' \in [Workers -> Jobs \union {None}]
          /\ worker' \in [Workers -> {"idle", "looping", "succeeded", "blocked", "failed"}]
      BY <1>1, <1>2
    <2> QED BY <1>2, <2>1 DEF IInv, TypeOK, callVars, rowVars
  <1>5. FoundCurrent' /\ RowsOfCalls'
    BY <1>2, CallsRest DEF IInv, FoundCurrent, callVars, rowVars
  <1>6. HandRunning' /\ HeldOnce'
    <2>1. \A v \in Workers : Hand(v)' \subseteq Hand(v)
      BY <1>3 DEF Hand
    <2> QED BY <1>2, <2>1, JobsStay DEF rowVars
  <1>7. Shapes'
    BY <1>3 DEF IInv, Shapes, Shape
  <1>8. MetadataMarks' /\ ProcessingIsOwed'
    BY <1>2, <1>3 DEF IInv, MetadataMarks, ProcessingIsOwed, rowVars
  <1> QED BY <1>4, <1>5, <1>6, <1>7, <1>8, Together

-----------------------------------------------------------------------------
(* The invariant, and what follows from it *)

LEMMA IInvInit == Init => IInv
  <1> SUFFICES ASSUME Init
               PROVE  IInv
    OBVIOUS
  <1>1. 0 \in 0..MaxAttempts /\ 0 \in 0..MaxFaults
    BY MaxAttemptsPositive, MaxFaultsNat
  <1>2. NotFound \in [job : Jobs \union {None}, status : JobStatuses]
    BY DEF NotFound, JobStatuses
  <1>3. TypeOK
    <2>1. job \in [Jobs -> JobStatuses] /\ attempts \in [Jobs -> 0..MaxAttempts] /\ due \subseteq Jobs
      BY <1>1, JobFacts DEF Init, JobStatuses
    <2> QED BY <1>1, <1>2, <2>1, MetadataStage DEF Init, TypeOK, ArtifactStatuses
  <1>4. FoundShape /\ FoundCurrent /\ FirstThere /\ NotMade
    BY JobFacts DEF Init, FoundShape, FoundCurrent, FirstThere, NotMade
  <1>5. Shapes
    BY DEF Init, Shapes, Shape
  <1>6. HandRunning /\ HeldOnce /\ MetadataMarks
    BY DEF Init, HandRunning, HeldOnce, MetadataMarks, Hand
  <1>7. ProcessingIsOwed
    BY JobFacts DEF Init, ProcessingIsOwed, Settled
  <1> QED BY <1>3, <1>4, <1>5, <1>6, <1>7 DEF IInv

LEMMA IInvStep == IInv /\ [Next]_vars => IInv'
  <1> SUFFICES ASSUME IInv, [Next]_vars
               PROVE  IInv'
    OBVIOUS
  <1>1. ASSUME NEW c \in Calls, Archive(c) \/ (\E s \in Stages : Reprocess(c, s)) \/ CallStep(c)
        PROVE  IInv'
    BY <1>1, ArchiveStep, ReprocessStep, FindJobStep, WriteSteps DEF CallStep
  <1>2. ASSUME NEW x \in Jobs, BecomeDue(x)
        PROVE  IInv'
    BY <1>2, BecomeDueStep
  <1>3. ASSUME NEW w \in Workers, WorkerStep(w) \/ MarkError(w) \/ Abandon(w)
        PROVE  IInv'
    BY <1>3, ClaimStep, StartSteps, MarkSteps, LeaveSteps DEF WorkerStep
  <1>4. CASE UNCHANGED vars
    BY <1>4 DEF vars, rowVars, callVars, workerVars, history, IInv, TypeOK, FoundShape, FoundCurrent,
                FirstThere, NotMade, Shapes, Shape, HandRunning, HeldOnce, MetadataMarks,
                ProcessingIsOwed, Hand
  <1> QED BY <1>1, <1>2, <1>3, <1>4 DEF Next

LEMMA Always == Spec => []IInv
  BY IInvInit, IInvStep, PTL DEF Spec

(* The artifact, its jobs, the calls and the workers keep their types.     *)
THEOREM TypeCorrect == Spec => []TypeOK
  <1>1. IInv => TypeOK
    BY DEF IInv
  <1> QED BY <1>1, Always, PTL

(* Two workers never hold one job, but one that a call wrote between its   *)
(* read and another write, or whose outcome was recorded unknown to its    *)
(* worker (claimBatch, enqueueReprocess, markFailed).                      *)
THEOREM JobsHeldOnce == Spec => []HeldOnce
  <1>1. IInv => HeldOnce
    BY DEF IInv
  <1> QED BY <1>1, Always, PTL

(* An artifact that is shown as being processed has its METADATA job ahead *)
(* of it, whatever calls and workers interleave (dispatch, markFailed).    *)
THEOREM ProcessingStaysOwed == Spec => []ProcessingIsOwed
  <1>1. IInv => ProcessingIsOwed
    BY DEF IInv
  <1> QED BY <1>1, Always, PTL

=============================================================================
