---------------------------- MODULE SermonProofs ----------------------------
(***************************************************************************)
(* Proofs about Sermon, for any sets of derived stages, calls and workers, *)
(* any size of a batch and any number of attempts, versions and faults.    *)
(***************************************************************************)
EXTENDS Sermon, TLAPS

-----------------------------------------------------------------------------
(* The inductive invariant *)

\* A call has seen what its status rests on, asks for every stage that follows a new
\* transcript, and has the current one in hand if nobody has replaced it.
CallKnows(r, last, late) ==
  /\ r.at \in {"publishing", "archiving", "reprocessing"} => r.saw # "ARCHIVED"
  /\ r.at = "publishing" => r.saw \notin {"PUBLISHED", "PROCESSING"}
  /\ r.at \in {"versioning", "writing"} => r.asked = Derived
  /\ r.at = "generating" => \A s \in (Derived \intersect r.asked) \ late : r.read = last

\* A worker has a job unless it is between two.  The one that derives has the current
\* transcript in hand if nobody has replaced it, and what has succeeded came from it.
WorkerKnows(r, last, derived, late) ==
  /\ r.at = "looping" <=> r.job = None
  /\ r.at = "versioning" => r.job \notin Derived
  /\ r.job \in Derived /\ r.at \in {"writing", "succeeded"} => last > 0
  /\ r.job \in Derived \ late =>
       /\ r.at = "writing" => r.read = last
       /\ r.at = "succeeded" => derived[r.job] = last

\* A call that will queue the stage again, which is why it may be behind
Asks(r, s) == r.at \in {"finding", "queueing"} /\ s \in r.asked
Asked(s) == \E c \in Calls : Asks(call[c], s)

\* Without a transcript nothing is derived.  A stage that has succeeded is current, or
\* it is asked for again.
StagesKnown ==
  \A s \in Derived :
    job[s] = "SUCCEEDED" =>
      /\ versions > 0
      /\ s \notin raced /\ ~lost => output[s] = versions \/ Asked(s)

Known ==
  /\ \A c \in Calls : CallKnows(call[c], versions, raced)
  /\ \A w \in Workers : WorkerKnows(worker[w], versions, output, raced)
  /\ StagesKnown

IInv == TypeOK /\ Known

-----------------------------------------------------------------------------
(* The states of calls and of workers *)

CallStates == [at : CallPlaces, saw : Statuses, read : 0..MaxVersions,
               asked : SUBSET Stages, fresh : SUBSET Stages]
WorkerStates == [at : WorkerPlaces, batch : SUBSET Stages, job : Stages \union {None},
                 spent : SUBSET Stages, read : 0..MaxVersions]

LEMMA StatesTyped ==
  ASSUME TypeOK
  PROVE  call \in [Calls -> CallStates] /\ worker \in [Workers -> WorkerStates]
  BY DEF TypeOK, CallStates, WorkerStates

LEMMA StagesApart ==
  /\ Derived \subseteq Stages /\ "TRANSCRIBE" \in Stages /\ None \notin Stages
  /\ "TRANSCRIBE" \notin Derived /\ None \notin Derived
  BY DerivedStages DEF Stages

LEMMA CallAtTyped ==
  ASSUME NEW place \in CallPlaces, NEW stages \in SUBSET Stages, NEW r, r = CallAt(place, stages)
  PROVE  /\ r \in CallStates /\ r.at = place /\ r.saw = "DRAFT" /\ r.read = 0 /\ r.asked = stages
         /\ r.fresh = {}
  BY MaxVersionsPositive DEF CallAt, CallStates, Statuses

LEMMA LoopingTyped ==
  ASSUME NEW xs \in SUBSET Stages, NEW spent \in SUBSET Stages, NEW r, r = Looping(xs, spent)
  PROVE  /\ r \in WorkerStates /\ r.at = "looping" /\ r.batch = xs /\ r.job = None /\ r.read = 0
         /\ \A last, derived, late : WorkerKnows(r, last, derived, late)
  BY MaxVersionsPositive, StagesApart DEF Looping, WorkerStates, WorkerPlaces, WorkerKnows

\* Goto and GotoW
LEMMA CallGoes ==
  ASSUME TypeOK, NEW c \in Calls, NEW next \in CallPlaces, Goto(c, next)
  PROVE  \E r \in CallStates :
           /\ call' = [call EXCEPT ![c] = r] /\ r.at = next
           /\ r.asked = IF next = "done" THEN {} ELSE call[c].asked
  <1> DEFINE stages == IF next = "done" THEN {} ELSE call[c].asked
             r == CallAt(next, stages)
  <1>1. call \in [Calls -> CallStates]
    BY StatesTyped
  <1>2. call' = [call EXCEPT ![c] = r]
    BY <1>1 DEF Goto
  <1>3. stages \in SUBSET Stages
    BY <1>1 DEF CallStates
  <1>4. r = CallAt(next, stages)
    OBVIOUS
  <1> HIDE DEF r, stages
  <1>5. r \in CallStates /\ r.at = next /\ r.asked = stages
    BY <1>3, <1>4, CallAtTyped
  <1> QED
    BY <1>2, <1>5 DEF stages

LEMMA WorkerGoes ==
  ASSUME TypeOK, NEW w \in Workers, NEW next \in WorkerPlaces, GotoW(w, next)
  PROVE  \E r \in WorkerStates :
           /\ worker' = [worker EXCEPT ![w] = r] /\ r.at = next
           /\ r.job = IF next = "looping" THEN None ELSE worker[w].job
  <1> DEFINE x == Looping(worker[w].batch, worker[w].spent \intersect worker[w].batch)
             y == [worker[w] EXCEPT !.at = next, !.read = 0]
             r == IF next = "looping" THEN x ELSE y
  <1>1. worker \in [Workers -> WorkerStates] /\ worker[w] \in WorkerStates
    BY StatesTyped
  <1>2. worker' = [worker EXCEPT ![w] = r]
    BY <1>1 DEF GotoW
  <1>3. /\ x = Looping(worker[w].batch, worker[w].spent \intersect worker[w].batch)
        /\ worker[w].batch \in SUBSET Stages
        /\ worker[w].spent \intersect worker[w].batch \in SUBSET Stages
    BY <1>1 DEF WorkerStates
  <1> HIDE DEF x
  <1>4. x \in WorkerStates /\ x.at = "looping" /\ x.job = None
    <2> DEFINE xs == worker[w].batch
               spent == worker[w].spent \intersect xs
    <2>1. x = Looping(xs, spent) /\ xs \in SUBSET Stages /\ spent \in SUBSET Stages
      BY <1>3
    <2> HIDE DEF xs, spent
    <2> QED
      BY <2>1, MaxVersionsPositive DEF Looping, WorkerStates, WorkerPlaces
  <1>5. y \in WorkerStates /\ y.at = next /\ y.job = worker[w].job
    <2>1. 0 \in 0..MaxVersions
      BY MaxVersionsPositive
    <2> QED
      BY <1>1, <2>1 DEF WorkerStates
  <1> HIDE DEF y
  <1>6. r \in WorkerStates /\ r.at = next /\ r.job = IF next = "looping" THEN None ELSE worker[w].job
    BY <1>4, <1>5
  <1> HIDE DEF r
  <1> QED
    BY <1>2, <1>6

LEMMA FaultCounts ==
  ASSUME TypeOK, Fault \/ faults' = faults
  PROVE  faults' \in 0..MaxFaults
  BY MaxFaultsNat DEF TypeOK, Fault

LEMMA Typed ==
  ASSUME TypeOK, status' \in Statuses, medium' = medium, versions' \in 0..MaxVersions,
         output' \in [Derived -> 0..MaxVersions],
         job' \in [Stages -> JobStatuses], attempts' \in [Stages -> 0..MaxAttempts],
         due' \subseteq Stages,
         call' \in [Calls -> CallStates], worker' \in [Workers -> WorkerStates],
         raced' \subseteq Derived, lost' \in BOOLEAN, Fault \/ faults' = faults
  PROVE  TypeOK'
  <1>1. faults' \in 0..MaxFaults
    BY FaultCounts
  <1> QED
    BY <1>1 DEF TypeOK, CallStates, WorkerStates

-----------------------------------------------------------------------------
(* The first states *)

LEMMA InitIsFine ==
  ASSUME Init
  PROVE  IInv
  <1>1. worker \in [Workers -> WorkerStates]
        /\ \A w \in Workers : WorkerKnows(worker[w], versions, output, raced)
    <2> DEFINE r == Looping({}, {})
    <2>1. {} \in SUBSET Stages /\ r = Looping({}, {}) /\ worker = [w \in Workers |-> r]
      BY DEF Init
    <2> HIDE DEF r
    <2>2. r \in WorkerStates /\ \A last, derived, late : WorkerKnows(r, last, derived, late)
      BY <2>1, LoopingTyped
    <2> QED
      BY <2>1, <2>2
  <1>2. ASSUME NEW place \in {"new", "versioning", "finding", "done"}, NEW stages \in SUBSET Stages,
               place = "versioning" => stages = Derived
        PROVE  CallAt(place, stages) \in CallStates /\ CallKnows(CallAt(place, stages), versions, raced)
    <2> DEFINE r == CallAt(place, stages)
    <2>1. place \in CallPlaces /\ r = CallAt(place, stages)
      BY DEF CallPlaces
    <2> HIDE DEF r
    <2>2. r \in CallStates /\ r.at = place /\ r.asked = stages
      BY <2>1, CallAtTyped
    <2>3. CallKnows(r, versions, raced)
      BY <1>2, <2>2 DEF CallKnows
    <2> QED
      BY <2>2, <2>3 DEF r
  <1>3. /\ call \in [Calls -> CallStates]
        /\ \A c \in Calls : CallKnows(call[c], versions, raced)
        /\ versions \in 0..1 /\ job \in [Stages -> {"ABSENT", "SUCCEEDED"}] /\ status \in Statuses
        /\ \A s \in Derived : job[s] = "SUCCEEDED" => versions = 1
    <2>1. CASE Created
      <3>1. PICK hasTranscript \in BOOLEAN :
              LET stages == DefaultStages(hasTranscript, medium)
              IN /\ status = (IF stages = {} THEN "DRAFT" ELSE "PROCESSING")
                 /\ call = [c \in Calls |->
                              IF c # Creator THEN CallAt("new", {})
                              ELSE CallAt(CASE hasTranscript -> "versioning"
                                            [] ~hasTranscript /\ stages # {} -> "finding"
                                            [] OTHER -> "done", stages)]
        BY <2>1 DEF Created
      <3> DEFINE stages == DefaultStages(hasTranscript, medium)
                 place == CASE hasTranscript -> "versioning"
                            [] ~hasTranscript /\ stages # {} -> "finding"
                            [] OTHER -> "done"
      <3>2. stages \in SUBSET Stages /\ (hasTranscript => stages = Derived)
        BY StagesApart DEF DefaultStages
      <3> HIDE DEF stages
      <3>3. place \in {"new", "versioning", "finding", "done"} /\ (place = "versioning" => hasTranscript)
        OBVIOUS
      <3>4. \A c \in Calls : call[c] = IF c # Creator THEN CallAt("new", {}) ELSE CallAt(place, stages)
        BY <3>1 DEF stages
      <3>5. status \in Statuses
        BY <3>1 DEF Statuses
      <3>6. call = [c \in Calls |-> call[c]]
        BY <3>1
      <3> HIDE DEF place
      <3>7. CallAt(place, stages) \in CallStates /\ CallKnows(CallAt(place, stages), versions, raced)
        BY <1>2, <3>2, <3>3
      <3>8. CallAt("new", {}) \in CallStates /\ CallKnows(CallAt("new", {}), versions, raced)
        BY <1>2
      <3>9. versions = 0 /\ job = [s \in Stages |-> "ABSENT"]
        BY <2>1 DEF Created
      <3>10. /\ call \in [Calls -> CallStates]
             /\ \A c \in Calls : CallKnows(call[c], versions, raced)
        BY <3>4, <3>6, <3>7, <3>8
      <3> QED
        BY <3>5, <3>9, <3>10, StagesApart
    <2>2. CASE Existing
      <3>1. CallAt("new", {}) \in CallStates /\ CallKnows(CallAt("new", {}), versions, raced)
        BY <1>2
      <3> QED
        BY <2>2, <3>1 DEF Existing, Statuses
    <2> QED
      BY <2>1, <2>2 DEF Init
  <1>4. versions \in 0..MaxVersions /\ output = [s \in Derived |-> versions]
    BY <1>3, MaxVersionsPositive DEF Init
  <1>5. TypeOK
    <2>1. attempts \in [Stages -> 0..MaxAttempts] /\ due \subseteq Stages
      BY MaxAttemptsPositive DEF Init
    <2>2. job \in [Stages -> JobStatuses]
      BY <1>3 DEF JobStatuses
    <2>3. faults \in 0..MaxFaults
      BY MaxFaultsNat DEF Init
    <2> QED
      BY <1>1, <1>3, <1>4, <2>1, <2>2, <2>3 DEF Init, TypeOK, CallStates, WorkerStates
  <1>6. StagesKnown
    BY <1>3, <1>4 DEF StagesKnown
  <1> QED
    BY <1>1, <1>3, <1>5, <1>6 DEF IInv, Known

-----------------------------------------------------------------------------
(* What every step of one call or of one worker keeps, if no version is added *)

\* A stage shows what it showed, or what comes from the current transcript.
Kept(s) == output'[s] = output[s] \/ output'[s] = versions

LEMMA CallMoves ==
  ASSUME IInv, NEW c \in Calls, NEW r \in CallStates, call' = [call EXCEPT ![c] = r],
         CallKnows(r, versions, raced),
         UNCHANGED <<medium, versions, worker, raced>>,
         status' \in Statuses, output' \in [Derived -> 0..MaxVersions],
         job' \in [Stages -> JobStatuses], attempts' \in [Stages -> 0..MaxAttempts],
         due' \subseteq Stages, lost' \in BOOLEAN, lost => lost', Fault \/ faults' = faults,
         \A s \in Derived \ raced : Kept(s),
         \A s \in Derived : job'[s] = "SUCCEEDED" =>
           job[s] = "SUCCEEDED" /\ (lost' \/ (Asks(call[c], s) => Asks(r, s)))
  PROVE  IInv'
  <1>1. call \in [Calls -> CallStates] /\ worker \in [Workers -> WorkerStates]
    BY StatesTyped DEF IInv
  <1>2. TypeOK'
    <2>1. TypeOK /\ call' \in [Calls -> CallStates] /\ worker' \in [Workers -> WorkerStates]
      BY <1>1 DEF IInv
    <2>2. medium' = medium /\ versions' \in 0..MaxVersions /\ raced' \subseteq Derived
      BY DEF IInv, TypeOK
    <2> QED
      BY <2>1, <2>2, Typed
  <1>3. ASSUME NEW d \in Calls
        PROVE  CallKnows(call'[d], versions', raced')
    <2>1. CallKnows(call'[d], versions, raced)
      BY <1>1 DEF IInv, Known
    <2> QED
      BY <2>1
  <1>4. ASSUME NEW w \in Workers
        PROVE  WorkerKnows(worker'[w], versions', output', raced')
    <2>1. WorkerKnows(worker[w], versions, output, raced)
      BY DEF IInv, Known
    <2>2. WorkerKnows(worker[w], versions, output', raced)
      BY <2>1 DEF WorkerKnows, Kept
    <2> QED
      BY <2>2
  <1>5. ASSUME NEW s \in Derived, job'[s] = "SUCCEEDED"
        PROVE  /\ versions' > 0
               /\ s \notin raced' /\ ~lost' => output'[s] = versions' \/ Asked(s)'
    <2>1. job[s] = "SUCCEEDED" /\ (lost' \/ (Asks(call[c], s) => Asks(r, s)))
      BY <1>5
    <2>2. versions > 0 /\ (s \notin raced /\ ~lost => output[s] = versions \/ Asked(s))
      BY <2>1 DEF IInv, Known, StagesKnown
    <2>3. ASSUME s \notin raced, ~lost', Asked(s)
          PROVE  Asked(s)'
      <3>1. PICK d \in Calls : Asks(call[d], s)
        BY <2>3 DEF Asked
      <3>2. Asks(call'[d], s)
        BY <1>1, <2>1, <2>3, <3>1
      <3> QED
        BY <3>2 DEF Asked, Asks
    <2> QED
      BY <2>2, <2>3 DEF Kept
  <1>6. StagesKnown'
    BY <1>5 DEF StagesKnown
  <1> QED
    BY <1>2, <1>3, <1>4, <1>6 DEF IInv, Known

LEMMA WorkerMoves ==
  ASSUME IInv, NEW w \in Workers, NEW r \in WorkerStates, worker' = [worker EXCEPT ![w] = r],
         WorkerKnows(r, versions, output', raced),
         UNCHANGED <<medium, versions, call, raced>>,
         status' \in Statuses, output' \in [Derived -> 0..MaxVersions],
         job' \in [Stages -> JobStatuses], attempts' \in [Stages -> 0..MaxAttempts],
         due' \subseteq Stages, lost' \in BOOLEAN, lost => lost', Fault \/ faults' = faults,
         \A s \in Derived \ raced : Kept(s),
         \A s \in Derived : job'[s] = "SUCCEEDED" =>
           job[s] = "SUCCEEDED" \/ (versions > 0 /\ (s \notin raced => output[s] = versions))
  PROVE  IInv'
  <1>1. call \in [Calls -> CallStates] /\ worker \in [Workers -> WorkerStates]
    BY StatesTyped DEF IInv
  <1>2. TypeOK'
    <2>1. TypeOK /\ call' \in [Calls -> CallStates] /\ worker' \in [Workers -> WorkerStates]
      BY <1>1 DEF IInv
    <2>2. medium' = medium /\ versions' \in 0..MaxVersions /\ raced' \subseteq Derived
      BY DEF IInv, TypeOK
    <2> QED
      BY <2>1, <2>2, Typed
  <1>3. ASSUME NEW c \in Calls
        PROVE  CallKnows(call'[c], versions', raced')
    <2>1. CallKnows(call[c], versions, raced)
      BY DEF IInv, Known
    <2> QED
      BY <2>1
  <1>4. ASSUME NEW v \in Workers
        PROVE  WorkerKnows(worker'[v], versions', output', raced')
    <2>1. WorkerKnows(worker[v], versions, output, raced)
      BY DEF IInv, Known
    <2>2. WorkerKnows(worker[v], versions, output', raced)
      BY <2>1 DEF WorkerKnows, Kept
    <2>3. WorkerKnows(worker'[v], versions, output', raced)
      BY <1>1, <2>2
    <2> QED
      BY <2>3
  <1>5. ASSUME NEW s \in Derived, job'[s] = "SUCCEEDED"
        PROVE  /\ versions' > 0
               /\ s \notin raced' /\ ~lost' => output'[s] = versions' \/ Asked(s)'
    <2>1. Asked(s)' <=> Asked(s)
      BY DEF Asked, Asks
    <2>2. versions > 0 /\ (s \notin raced /\ ~lost => output[s] = versions \/ Asked(s))
      BY <1>5 DEF IInv, Known, StagesKnown
    <2> QED
      BY <2>1, <2>2 DEF Kept
  <1>6. StagesKnown'
    BY <1>5 DEF StagesKnown
  <1> QED
    BY <1>2, <1>3, <1>4, <1>6 DEF IInv, Known

\* A new version finds nothing that still holds the old one for the current one: what
\* runs is raced, and so is what has run and not been recorded.
LEMMA NewVersionKnown ==
  ASSUME IInv, NEW readVersion, NEW alsoRaced \in SUBSET Derived,
         NewVersion(readVersion, alsoRaced)
  PROVE  /\ versions' \in 0..MaxVersions /\ versions' > 0 /\ raced' \subseteq Derived
         /\ \A c \in Calls : CallKnows(call[c], versions', raced')
         /\ \A w \in Workers : WorkerKnows(worker[w], versions', output', raced')
  <1>1. versions \in 0..MaxVersions /\ versions < MaxVersions /\ versions' = versions + 1
    BY DEF IInv, TypeOK, NewVersion
  <1>2. Executing \subseteq raced' /\ raced \subseteq raced' /\ raced' \subseteq Derived
    BY DEF IInv, TypeOK, NewVersion, Executing
  <1>3. versions' \in 0..MaxVersions /\ versions' > 0
    BY <1>1, MaxVersionsPositive
  <1>4. ASSUME NEW c \in Calls
        PROVE  CallKnows(call[c], versions', raced')
    <2>1. CallKnows(call[c], versions, raced)
      BY DEF IInv, Known
    <2>2. call[c].at = "generating" => Derived \intersect call[c].asked \subseteq raced'
      BY <1>2 DEF Executing
    <2> QED
      BY <2>1, <2>2 DEF CallKnows
  <1>5. ASSUME NEW w \in Workers
        PROVE  WorkerKnows(worker[w], versions', output', raced')
    <2>1. WorkerKnows(worker[w], versions, output, raced)
      BY DEF IInv, Known
    <2>2. worker[w].job \in Derived => worker[w].job \in raced'
      BY <1>2 DEF Executing
    <2> QED
      BY <1>3, <2>1, <2>2 DEF WorkerKnows
  <1> QED
    BY <1>2, <1>3, <1>4, <1>5

-----------------------------------------------------------------------------
(* The steps of a call *)

LEMMA BeginKeeps ==
  ASSUME IInv, NEW c \in Calls, BeginCall(c)
  PROVE  IInv'
  <1>1. PICK next \in {"publishing", "archiving", "reprocessing", "versioning", "reading"},
             stages \in SUBSET Stages :
          Begin(c, next, stages) /\ (next = "versioning" => stages = Derived)
    <2>1. CASE \E next \in {"publishing", "archiving"} : Begin(c, next, {})
      BY <2>1
    <2>2. CASE \E stages \in SUBSET Stages \ {{}} : Begin(c, "reprocessing", stages)
      BY <2>2
    <2>3. CASE Begin(c, "versioning", Derived)
      BY <2>3, StagesApart
    <2>4. CASE \E s \in Derived : Begin(c, "reading", {s})
      <3>1. PICK s \in Derived : Begin(c, "reading", {s})
        BY <2>4
      <3>2. {s} \in SUBSET Stages
        BY StagesApart
      <3> QED
        BY <3>1, <3>2
    <2> QED
      BY <2>1, <2>2, <2>3, <2>4 DEF BeginCall
  <1> DEFINE x == CallAt(next, stages)
             r == [x EXCEPT !.saw = status]
  <1>2. x = CallAt(next, stages) /\ next \in CallPlaces
    BY DEF CallPlaces
  <1>3. call' = [call EXCEPT ![c] = r] /\ status \in Statuses
    BY <1>1 DEF Begin, IInv, TypeOK
  <1> HIDE DEF x
  <1>4. x \in CallStates /\ x.at = next /\ x.asked = stages
    BY <1>2, CallAtTyped
  <1>5. r \in CallStates /\ r.at = next /\ r.saw = status /\ r.asked = stages
    BY <1>3, <1>4 DEF CallStates
  <1> HIDE DEF r
  <1>6. CallKnows(r, versions, raced)
    BY <1>1, <1>5 DEF CallKnows, Begin, Admits
  <1>7. call[c].at = "new" /\ UNCHANGED <<rowVars, jobVars, worker, history>>
    BY <1>1 DEF Begin
  <1>8. \A s \in Derived : ~Asks(call[c], s)
    BY <1>7 DEF Asks
  <1> QED
    BY <1>3, <1>5, <1>6, <1>7, <1>8, CallMoves
    DEF rowVars, jobVars, history, Kept, IInv, TypeOK

\* A call that goes on with other rows in hand, and writes no job and no field
LEMMA CallGoesOn ==
  ASSUME IInv, NEW c \in Calls, NEW next \in CallPlaces \ {"publishing", "archiving",
           "reprocessing", "versioning", "writing", "generating"},
         Goto(c, next), UNCHANGED <<medium, versions, output, jobVars, worker, raced>>,
         status' \in Statuses, lost' \in BOOLEAN, lost => lost', Fault \/ faults' = faults,
         lost' \/ call[c].at \notin {"finding", "queueing"}
  PROVE  IInv'
  <1>1. PICK r \in CallStates : call' = [call EXCEPT ![c] = r] /\ r.at = next
    BY CallGoes DEF IInv
  <1>2. CallKnows(r, versions, raced)
    BY <1>1 DEF CallKnows
  <1>3. \A s \in Derived : lost' \/ ~Asks(call[c], s)
    BY DEF Asks
  <1> QED
    BY <1>1, <1>2, <1>3, CallMoves DEF jobVars, Kept, IInv, TypeOK

LEMMA WriteStatusKeeps ==
  ASSUME IInv, NEW c \in Calls, WriteStatus(c)
  PROVE  IInv'
  <1> DEFINE next == IF call[c].at = "reprocessing" THEN "finding" ELSE "done"
  <1>1. /\ next \in CallPlaces \ {"publishing", "archiving", "reprocessing", "versioning",
                                  "writing", "generating"}
        /\ Goto(c, next)
    BY DEF WriteStatus, CallPlaces
  <1>2. status' \in Statuses
    BY DEF WriteStatus, NewStatus, Statuses
  <1> HIDE DEF next
  <1> QED
    BY <1>1, <1>2, CallGoesOn DEF WriteStatus, history, IInv, TypeOK

LEMMA ReadVersionKeeps ==
  ASSUME IInv, NEW c \in Calls, ReadVersion(c)
  PROVE  IInv'
  <1> DEFINE r == [call[c] EXCEPT !.at = "writing", !.read = versions]
  <1>1. call[c] \in CallStates /\ versions \in 0..MaxVersions /\ CallKnows(call[c], versions, raced)
    BY StatesTyped DEF IInv, TypeOK, Known
  <1>2. call' = [call EXCEPT ![c] = r]
    BY DEF ReadVersion
  <1>3. r \in CallStates /\ r.at = "writing" /\ r.asked = call[c].asked
    BY <1>1 DEF CallStates, CallPlaces
  <1> HIDE DEF r
  <1>4. CallKnows(r, versions, raced)
    BY <1>1, <1>3 DEF ReadVersion, CallKnows
  <1>5. \A s \in Derived : ~Asks(call[c], s)
    BY DEF ReadVersion, Asks
  <1> QED
    BY <1>2, <1>3, <1>4, <1>5, CallMoves
    DEF ReadVersion, rowVars, jobVars, history, Kept, IInv, TypeOK

LEMMA UpsertTranscriptKeeps ==
  ASSUME IInv, NEW c \in Calls, UpsertTranscript(c)
  PROVE  IInv'
  <1>1. call \in [Calls -> CallStates] /\ worker \in [Workers -> WorkerStates]
    BY StatesTyped DEF IInv
  <1>2. {} \in SUBSET Derived /\ NewVersion(call[c].read, {})
    BY DEF UpsertTranscript
  <1>3. /\ versions' \in 0..MaxVersions /\ versions' > 0 /\ raced' \subseteq Derived
        /\ \A d \in Calls : CallKnows(call[d], versions', raced')
        /\ \A w \in Workers : WorkerKnows(worker[w], versions', output', raced')
    BY <1>2, NewVersionKnown
  <1>4. call[c].asked = Derived
    BY DEF UpsertTranscript, IInv, Known, CallKnows
  <1>5. PICK r \in CallStates : call' = [call EXCEPT ![c] = r] /\ r.at = "finding" /\ r.asked = Derived
    BY <1>4, CallGoes DEF UpsertTranscript, IInv, CallPlaces
  <1>6. CallKnows(r, versions', raced')
    BY <1>5 DEF CallKnows
  <1>7. worker' = worker /\ UNCHANGED <<status, medium, output, jobVars, lost, faults>>
    BY DEF UpsertTranscript, NewVersion
  <1>8. TypeOK'
    <2>1. call' \in [Calls -> CallStates] /\ worker' \in [Workers -> WorkerStates]
      BY <1>1, <1>5, <1>7
    <2>2. TypeOK
      BY DEF IInv
    <2> QED
      BY <1>3, <1>7, <2>1, <2>2, Typed DEF jobVars, TypeOK
  <1>9. \A d \in Calls : CallKnows(call'[d], versions', raced')
    BY <1>1, <1>3, <1>5, <1>6
  <1>10. \A w \in Workers : WorkerKnows(worker'[w], versions', output', raced')
    BY <1>3, <1>7
  <1>11. ASSUME NEW s \in Derived
         PROVE  Asked(s)'
    <2>1. Asks(call'[c], s)
      BY <1>1, <1>5 DEF Asks
    <2> QED
      BY <2>1 DEF Asked, Asks
  <1>12. StagesKnown'
    BY <1>3, <1>11 DEF StagesKnown
  <1> QED
    BY <1>8, <1>9, <1>10, <1>12 DEF IInv, Known

LEMMA FindJobsKeeps ==
  ASSUME IInv, NEW c \in Calls, FindJobs(c)
  PROVE  IInv'
  <1> DEFINE found == {s \in call[c].asked : Requeueable(s)}
             new == {s \in call[c].asked : job[s] = "ABSENT"}
             r == [call[c] EXCEPT !.at = "queueing", !.asked = found, !.fresh = new]
  <1>1. call[c] \in CallStates
    BY StatesTyped DEF IInv
  <1>2. call' = [call EXCEPT ![c] = r]
    BY <1>1, StatesTyped DEF FindJobs, IInv
  <1>3. found \in SUBSET Stages /\ new \in SUBSET Stages
    BY <1>1 DEF CallStates
  <1>4. \A s \in Derived : job[s] = "SUCCEEDED" /\ Asks(call[c], s) => s \in found
    BY DEF Asks, Requeueable
  <1> HIDE DEF found, new
  <1>5. r \in CallStates /\ r.at = "queueing" /\ r.asked = found
    BY <1>1, <1>3 DEF CallStates, CallPlaces
  <1> HIDE DEF r
  <1>6. CallKnows(r, versions, raced)
    BY <1>5 DEF CallKnows
  <1>7. \A s \in Derived : job[s] = "SUCCEEDED" => (Asks(call[c], s) => Asks(r, s))
    BY <1>4, <1>5 DEF Asks
  <1> QED
    BY <1>2, <1>5, <1>6, <1>7, CallMoves
    DEF FindJobs, rowVars, jobVars, history, Kept, IInv, TypeOK

LEMMA EnqueueKeeps ==
  ASSUME IInv, NEW c \in Calls, Enqueue(c)
  PROVE  IInv'
  <1> DEFINE xs == call[c].asked
  <1>1. xs \in SUBSET Stages
    BY StatesTyped DEF IInv, CallStates
  <1>2. /\ job' = [s \in Stages |-> IF s \in xs THEN "PENDING" ELSE job[s]]
        /\ attempts' = [s \in Stages |-> IF s \in xs THEN 0 ELSE attempts[s]]
        /\ due' = due \union xs
    BY DEF Enqueue
  <1>3. \A s \in Derived : Asks(call[c], s) => s \in xs
    BY DEF Asks
  <1> HIDE DEF xs
  <1>4. PICK r \in CallStates : call' = [call EXCEPT ![c] = r] /\ r.at = "done"
    BY CallGoes DEF Enqueue, IInv, CallPlaces
  <1>5. CallKnows(r, versions, raced)
    BY <1>4 DEF CallKnows
  <1>6. job' \in [Stages -> JobStatuses] /\ attempts' \in [Stages -> 0..MaxAttempts] /\ due' \subseteq Stages
    BY <1>1, <1>2, MaxAttemptsPositive DEF IInv, TypeOK, JobStatuses
  <1>7. \A s \in Derived : job'[s] = "SUCCEEDED" => job[s] = "SUCCEEDED" /\ ~Asks(call[c], s)
    BY <1>2, <1>3, StagesApart
  <1> QED
    BY <1>4, <1>5, <1>6, <1>7, CallMoves DEF Enqueue, rowVars, history, Kept, IInv, TypeOK

LEMMA ReadTextKeeps ==
  ASSUME IInv, NEW c \in Calls, ReadText(c)
  PROVE  IInv'
  <1>1. /\ call[c].at = "reading" /\ UNCHANGED <<rowVars, jobVars, worker, history>>
        /\ status \in Statuses /\ lost \in BOOLEAN /\ versions \in 0..MaxVersions
    BY DEF ReadText, IInv, TypeOK
  <1>2. CASE versions = 0
    <2>1. Goto(c, "done") /\ "done" \in CallPlaces \ {"publishing", "archiving", "reprocessing",
                                                       "versioning", "writing", "generating"}
      BY <1>2 DEF ReadText, CallPlaces
    <2> QED
      BY <1>1, <2>1, CallGoesOn DEF rowVars, history
  <1>3. CASE versions # 0
    <2> DEFINE r == [call[c] EXCEPT !.at = "generating", !.read = versions]
    <2>1. call[c] \in CallStates
      BY StatesTyped DEF IInv
    <2>2. call' = [call EXCEPT ![c] = r]
      BY <1>3 DEF ReadText
    <2>3. r \in CallStates /\ r.at = "generating" /\ r.read = versions
      BY <1>1, <2>1 DEF CallStates, CallPlaces
    <2> HIDE DEF r
    <2>4. CallKnows(r, versions, raced)
      BY <2>3 DEF CallKnows
    <2>5. \A s \in Derived : ~Asks(call[c], s)
      BY <1>1 DEF Asks
    <2> QED
      BY <1>1, <2>2, <2>3, <2>4, <2>5, CallMoves
      DEF rowVars, jobVars, history, Kept, IInv, TypeOK
  <1> QED
    BY <1>2, <1>3

LEMMA GenerateKeeps ==
  ASSUME IInv, NEW c \in Calls, Generate(c)
  PROVE  IInv'
  <1> DEFINE xs == call[c].asked
             version == call[c].read
  <1>1. /\ call[c].at = "generating"
        /\ output' = [s \in Derived |-> IF s \in xs THEN version ELSE output[s]]
    BY DEF Generate
  <1>2. version \in 0..MaxVersions
    BY StatesTyped DEF IInv, CallStates
  <1>3. \A s \in (Derived \intersect xs) \ raced : version = versions
    BY <1>1 DEF IInv, Known, CallKnows
  <1> HIDE DEF xs, version
  <1>4. PICK r \in CallStates : call' = [call EXCEPT ![c] = r] /\ r.at = "done"
    BY CallGoes DEF Generate, IInv, CallPlaces
  <1>5. CallKnows(r, versions, raced)
    BY <1>4 DEF CallKnows
  <1>6. output' \in [Derived -> 0..MaxVersions] /\ \A s \in Derived \ raced : Kept(s)
    BY <1>1, <1>2, <1>3 DEF Kept, IInv, TypeOK
  <1>7. \A s \in Derived : ~Asks(call[c], s)
    BY <1>1 DEF Asks
  <1> QED
    BY <1>4, <1>5, <1>6, <1>7, CallMoves DEF Generate, jobVars, history, IInv, TypeOK

LEMMA EndKeeps ==
  ASSUME IInv, NEW c \in Calls, Refused(c) \/ Drop(c)
  PROVE  IInv'
  <1>1. Goto(c, "done") /\ "done" \in CallPlaces \ {"publishing", "archiving", "reprocessing",
                                                     "versioning", "writing", "generating"}
    BY DEF Refused, Drop, CallPlaces
  <1>2. /\ lost' = TRUE /\ UNCHANGED <<rowVars, jobVars, worker, raced>>
        /\ Fault \/ faults' = faults
    BY DEF Refused, Drop
  <1> QED
    BY <1>1, <1>2, CallGoesOn DEF rowVars, IInv, TypeOK

-----------------------------------------------------------------------------
(* The steps of a worker *)

LEMMA BecomeDueKeeps ==
  ASSUME IInv, NEW s \in Stages, BecomeDue(s)
  PROVE  IInv'
  <1>1. UNCHANGED <<rowVars, job, attempts, call, worker, history>> /\ due' \subseteq Stages
    BY DEF BecomeDue, IInv, TypeOK
  <1>2. TypeOK'
    BY <1>1 DEF rowVars, history, IInv, TypeOK
  <1> QED
    BY <1>1, <1>2
    DEF rowVars, history, IInv, Known, CallKnows, WorkerKnows, StagesKnown, Asked, Asks

LEMMA ClaimKeeps ==
  ASSUME IInv, NEW w \in Workers, Claim(w)
  PROVE  IInv'
  <1>1. PICK xs \in SUBSET Claimable \ {{}} :
          /\ job' = [s \in Stages |-> IF s \in xs THEN "RUNNING" ELSE job[s]]
          /\ attempts' = [s \in Stages |-> IF s \in xs THEN Bump(attempts[s]) ELSE attempts[s]]
          /\ worker' = [worker EXCEPT ![w] = Looping(xs, {s \in xs : attempts'[s] >= MaxAttempts})]
    BY DEF Claim
  <1> DEFINE spent == {s \in xs : attempts'[s] >= MaxAttempts}
             r == Looping(xs, spent)
  <1>2. xs \in SUBSET Stages /\ spent \in SUBSET Stages
    BY DEF Claimable, IInv, TypeOK
  <1>3. r = Looping(xs, spent) /\ worker' = [worker EXCEPT ![w] = r]
    BY <1>1
  <1> HIDE DEF r
  <1>4. r \in WorkerStates /\ WorkerKnows(r, versions, output', raced)
    BY <1>2, <1>3, LoopingTyped
  <1>5. job' \in [Stages -> JobStatuses] /\ attempts' \in [Stages -> 0..MaxAttempts]
    BY <1>1, MaxAttemptsPositive DEF IInv, TypeOK, JobStatuses, Bump
  <1>6. \A s \in Derived : job'[s] = "SUCCEEDED" => job[s] = "SUCCEEDED"
    BY <1>1, StagesApart
  <1> QED
    BY <1>3, <1>4, <1>5, <1>6, WorkerMoves DEF Claim, rowVars, history, Kept, IInv, TypeOK

LEMMA StartStageKeeps ==
  ASSUME IInv, NEW w \in Workers, NEW s \in Stages, StartStage(w, s)
  PROVE  IInv'
  <1> DEFINE place == AfterReading(s)
             r == [at |-> place, batch |-> worker[w].batch \ {s}, job |-> s,
                   spent |-> worker[w].spent, read |-> versions]
  <1>1. worker \in [Workers -> WorkerStates] /\ worker[w] \in WorkerStates /\ versions \in 0..MaxVersions
    BY StatesTyped DEF IInv, TypeOK
  <1>2. worker' = [worker EXCEPT ![w] = r] /\ UNCHANGED <<rowVars, jobVars, call, history>>
    BY <1>1 DEF StartStage
  <1>3. /\ place \in WorkerPlaces \ {"looping"}
        /\ s \in Derived => place \in {"writing", "checking"} /\ (place = "writing" => versions > 0)
        /\ s \notin Derived => place \in {"succeeded", "versioning", "blocked"}
    BY DEF AfterReading, WorkerPlaces
  <1> HIDE DEF place
  <1>4. /\ r \in WorkerStates /\ r.at = place /\ r.job = s /\ r.read = versions
    BY <1>1, <1>3 DEF WorkerStates
  <1> HIDE DEF r
  <1>5. WorkerKnows(r, versions, output', raced)
    BY <1>3, <1>4, StagesApart DEF WorkerKnows
  <1> QED
    BY <1>2, <1>4, <1>5, WorkerMoves DEF rowVars, jobVars, history, Kept, IInv, TypeOK

LEMMA WorkerVersionKeeps ==
  ASSUME IInv, NEW w \in Workers, WorkerVersion(w)
  PROVE  IInv'
  <1> DEFINE r == [worker[w] EXCEPT !.at = "writing", !.read = versions]
  <1>1. /\ worker[w] \in WorkerStates /\ versions \in 0..MaxVersions
        /\ WorkerKnows(worker[w], versions, output, raced)
    BY StatesTyped DEF IInv, TypeOK, Known
  <1>2. /\ worker' = [worker EXCEPT ![w] = r] /\ UNCHANGED <<rowVars, jobVars, call, history>>
        /\ worker[w].at = "versioning"
    BY DEF WorkerVersion
  <1>3. r \in WorkerStates /\ r.at = "writing" /\ r.job = worker[w].job /\ r.read = versions
    BY <1>1 DEF WorkerStates, WorkerPlaces
  <1> HIDE DEF r
  <1>4. WorkerKnows(r, versions, output', raced)
    BY <1>1, <1>2, <1>3 DEF WorkerKnows
  <1> QED
    BY <1>2, <1>3, <1>4, WorkerMoves DEF rowVars, jobVars, history, Kept, IInv, TypeOK

LEMMA TranscribeKeeps ==
  ASSUME IInv, NEW w \in Workers, Transcribe(w)
  PROVE  IInv'
  <1> DEFINE also == IF versions > 0 THEN Derived ELSE {}
  <1>1. call \in [Calls -> CallStates] /\ worker \in [Workers -> WorkerStates]
    BY StatesTyped DEF IInv
  <1>2. also \in SUBSET Derived /\ NewVersion(worker[w].read, also)
    BY DEF Transcribe
  <1>3. versions > 0 => Derived \subseteq raced'
    BY DEF Transcribe, NewVersion
  <1> HIDE DEF also
  <1>4. /\ versions' \in 0..MaxVersions /\ versions' > 0 /\ raced' \subseteq Derived
        /\ \A c \in Calls : CallKnows(call[c], versions', raced')
        /\ \A v \in Workers : WorkerKnows(worker[v], versions', output', raced')
    BY <1>2, NewVersionKnown
  <1>5. PICK r \in WorkerStates :
          worker' = [worker EXCEPT ![w] = r] /\ r.at = "succeeded" /\ r.job = "TRANSCRIBE"
    BY WorkerGoes DEF Transcribe, IInv, WorkerPlaces
  <1>6. WorkerKnows(r, versions', output', raced')
    BY <1>5, StagesApart DEF WorkerKnows
  <1>7. call' = call /\ UNCHANGED <<status, medium, output, jobVars, lost, faults>>
    BY DEF Transcribe, NewVersion
  <1>8. TypeOK'
    <2>1. call' \in [Calls -> CallStates] /\ worker' \in [Workers -> WorkerStates]
      BY <1>1, <1>5, <1>7
    <2>2. TypeOK
      BY DEF IInv
    <2> QED
      BY <1>4, <1>7, <2>1, <2>2, Typed DEF jobVars, TypeOK
  <1>9. \A c \in Calls : CallKnows(call'[c], versions', raced')
    BY <1>4, <1>7
  <1>10. \A v \in Workers : WorkerKnows(worker'[v], versions', output', raced')
    BY <1>1, <1>4, <1>5, <1>6
  <1>11. ASSUME NEW s \in Derived, job'[s] = "SUCCEEDED"
         PROVE  s \in raced'
    <2>1. versions > 0
      BY <1>7, <1>11 DEF jobVars, IInv, Known, StagesKnown
    <2> QED
      BY <1>3, <2>1
  <1>12. StagesKnown'
    BY <1>4, <1>11 DEF StagesKnown
  <1> QED
    BY <1>8, <1>9, <1>10, <1>12 DEF IInv, Known

LEMMA DeriveKeeps ==
  ASSUME IInv, NEW w \in Workers, Derive(w)
  PROVE  IInv'
  <1> DEFINE s == worker[w].job
             version == worker[w].read
  <1>1. /\ worker[w].at = "writing" /\ s \in Derived /\ output' = [output EXCEPT ![s] = version]
        /\ GotoW(w, "succeeded") /\ UNCHANGED <<status, medium, versions, jobVars, call, history>>
    BY DEF Derive
  <1>2. version \in 0..MaxVersions
    BY StatesTyped DEF IInv, WorkerStates
  <1>3. versions > 0 /\ (s \notin raced => version = versions)
    BY <1>1 DEF IInv, Known, WorkerKnows
  <1>4. PICK r \in WorkerStates : worker' = [worker EXCEPT ![w] = r] /\ r.at = "succeeded" /\ r.job = s
    BY <1>1, WorkerGoes DEF IInv, WorkerPlaces
  <1> HIDE DEF s, version
  <1>5. /\ output' \in [Derived -> 0..MaxVersions] /\ \A t \in Derived \ raced : Kept(t)
        /\ output'[s] = version
    BY <1>1, <1>2, <1>3 DEF Kept, IInv, TypeOK
  <1>6. WorkerKnows(r, versions, output', raced)
    BY <1>1, <1>3, <1>4, <1>5, StagesApart DEF WorkerKnows
  <1> QED
    BY <1>1, <1>4, <1>5, <1>6, WorkerMoves DEF jobVars, history, IInv, TypeOK

\* A worker that goes on without writing a field
LEMMA WorkerGoesOn ==
  ASSUME IInv, NEW w \in Workers, worker[w].at # "looping",
         NEW next \in WorkerPlaces \ {"versioning", "writing", "succeeded"}, GotoW(w, next),
         UNCHANGED <<medium, versions, output, call, raced, lost>>,
         status' \in Statuses, job' \in [Stages -> JobStatuses],
         attempts' \in [Stages -> 0..MaxAttempts], due' \subseteq Stages,
         Fault \/ faults' = faults,
         \A s \in Derived : job'[s] = "SUCCEEDED" =>
           job[s] = "SUCCEEDED" \/ (versions > 0 /\ (s \notin raced => output[s] = versions))
  PROVE  IInv'
  <1>1. PICK r \in WorkerStates :
          /\ worker' = [worker EXCEPT ![w] = r] /\ r.at = next
          /\ r.job = IF next = "looping" THEN None ELSE worker[w].job
    BY WorkerGoes DEF IInv
  <1>2. WorkerKnows(worker[w], versions, output, raced)
    BY DEF IInv, Known
  <1>3. WorkerKnows(r, versions, output', raced)
    BY <1>1, <1>2, StagesApart DEF WorkerKnows
  <1> QED
    BY <1>1, <1>3, WorkerMoves DEF Kept, IInv, TypeOK

\* The steps that write no job
LEMMA OnlyGoesKeeps ==
  ASSUME IInv, NEW w \in Workers,
         StageError(w) \/ CheckTranscript(w) \/ ReadStatus(w) \/ CountOpen(w) \/ MarkReady(w)
  PROVE  IInv'
  <1>1. /\ worker[w].at # "looping" /\ status' \in Statuses
        /\ UNCHANGED <<medium, versions, output, jobVars, call, history>>
    BY DEF StageError, CheckTranscript, ReadStatus, CountOpen, MarkReady, rowVars, IInv, TypeOK,
           Statuses
  <1>2. /\ {"failed", "requeueing", "blocked", "counting", "finishing", "looping"} \subseteq
             WorkerPlaces \ {"versioning", "writing", "succeeded"}
        /\ \E next \in {"failed", "requeueing", "blocked", "counting", "finishing", "looping"} :
             GotoW(w, next)
    <2>1. {"failed", "requeueing", "blocked", "counting", "finishing", "looping"} \subseteq
            WorkerPlaces \ {"versioning", "writing", "succeeded"}
      BY DEF WorkerPlaces
    <2>2. CASE StageError(w)
      BY <2>1, <2>2 DEF StageError
    <2>3. CASE CheckTranscript(w)
      BY <2>1, <2>3 DEF CheckTranscript
    <2>4. CASE ReadStatus(w)
      BY <2>1, <2>4 DEF ReadStatus
    <2>5. CASE CountOpen(w)
      BY <2>1, <2>5 DEF CountOpen
    <2>6. CASE MarkReady(w)
      BY <2>1, <2>6 DEF MarkReady
    <2> QED
      BY <2>2, <2>3, <2>4, <2>5, <2>6
  <1>3. PICK next \in WorkerPlaces \ {"versioning", "writing", "succeeded"} : GotoW(w, next)
    BY <1>2
  <1> QED
    BY <1>1, <1>3, WorkerGoesOn DEF jobVars, history, IInv, TypeOK

\* The steps that record a result: what they record as succeeded has been derived.
LEMMA RecordKeeps ==
  ASSUME IInv, NEW w \in Workers, worker[w].at # "looping", NEW result \in JobStatuses,
         NEW next \in WorkerPlaces \ {"versioning", "writing", "succeeded"},
         Record(w, result, next), due' \subseteq Stages, Fault \/ faults' = faults,
         result = "SUCCEEDED" => worker[w].at = "succeeded" \/ job[worker[w].job] = "SUCCEEDED"
  PROVE  IInv'
  <1> DEFINE s == worker[w].job
  <1>1. /\ GotoW(w, next) /\ job' = [job EXCEPT ![s] = result]
        /\ UNCHANGED <<rowVars, attempts, call, raced, lost>>
    BY DEF Record
  <1>2. WorkerKnows(worker[w], versions, output, raced)
    BY DEF IInv, Known
  <1>3. s \in Stages
    BY <1>2, StatesTyped DEF WorkerKnows, IInv, WorkerStates
  <1>4. s \in Derived /\ worker[w].at = "succeeded" =>
          versions > 0 /\ (s \notin raced => output[s] = versions)
    BY <1>2 DEF WorkerKnows
  <1>5. result = "SUCCEEDED" => worker[w].at = "succeeded" \/ job[s] = "SUCCEEDED"
    OBVIOUS
  <1> HIDE DEF s
  <1>6. job' \in [Stages -> JobStatuses]
    BY <1>1, <1>3 DEF IInv, TypeOK
  <1>7. \A t \in Derived : job'[t] = "SUCCEEDED" =>
          job[t] = "SUCCEEDED" \/ (versions > 0 /\ (t \notin raced => output[t] = versions))
    BY <1>1, <1>3, <1>4, <1>5, StagesApart DEF IInv, TypeOK
  <1> QED
    BY <1>1, <1>6, <1>7, WorkerGoesOn DEF rowVars, IInv, TypeOK

LEMMA RecordedKeeps ==
  ASSUME IInv, NEW w \in Workers,
         Requeue(w) \/ MarkOutcome(w) \/ OutcomeError(w) \/ MarkFailed(w)
  PROVE  IInv'
  <1>1. WorkerKnows(worker[w], versions, output, raced) /\ due \subseteq Stages
    BY DEF IInv, TypeOK, Known
  <1>2. worker[w].job \in Stages \union {None}
    BY StatesTyped DEF IInv, WorkerStates
  <1>3. worker[w].at # "looping"
    BY DEF Requeue, MarkOutcome, OutcomeError, MarkFailed
  <1>4. job[worker[w].job] \in JobStatuses
    BY <1>1, <1>2, <1>3 DEF WorkerKnows, IInv, TypeOK
  <1>5. /\ {"PENDING", "FAILED"} \subseteq JobStatuses /\ Outcome(w) \in JobStatuses
        /\ Outcome(w) = "SUCCEEDED" => worker[w].at = "succeeded"
    BY DEF JobStatuses, Outcome
  <1>6. {"looping", "settling", "failed"} \subseteq WorkerPlaces \ {"versioning", "writing", "succeeded"}
    BY DEF WorkerPlaces
  <1>7. PICK result \in JobStatuses, next \in {"looping", "settling", "failed"} :
          /\ Record(w, result, next)
          /\ result = "SUCCEEDED" => worker[w].at = "succeeded" \/ job[worker[w].job] = "SUCCEEDED"
    <2>1. CASE Requeue(w)
      BY <1>5, <2>1 DEF Requeue
    <2>2. CASE MarkOutcome(w)
      BY <1>5, <2>2 DEF MarkOutcome
    <2>3. CASE OutcomeError(w)
      BY <1>4, <1>5, <2>3 DEF OutcomeError
    <2>4. CASE MarkFailed(w)
      BY <1>5, <2>4 DEF MarkFailed
    <2> QED
      BY <2>1, <2>2, <2>3, <2>4
  <1>8. due' \subseteq Stages
    BY <1>1 DEF Requeue, MarkOutcome, OutcomeError, MarkFailed
  <1>9. Fault \/ faults' = faults
    BY DEF Requeue, MarkOutcome, OutcomeError, MarkFailed
  <1> QED
    BY <1>3, <1>6, <1>7, <1>8, <1>9, RecordKeeps

LEMMA AbandonKeeps ==
  ASSUME IInv, NEW w \in Workers, Abandon(w)
  PROVE  IInv'
  <1> DEFINE r == Looping({}, {})
  <1>1. /\ {} \in SUBSET Stages /\ r = Looping({}, {}) /\ worker' = [worker EXCEPT ![w] = r]
        /\ UNCHANGED <<rowVars, jobVars, call, raced>> /\ lost' = TRUE /\ Fault
    BY DEF Abandon
  <1> HIDE DEF r
  <1>2. r \in WorkerStates /\ WorkerKnows(r, versions, output', raced)
    BY <1>1, LoopingTyped
  <1> QED
    BY <1>1, <1>2, WorkerMoves DEF rowVars, jobVars, Kept, IInv, TypeOK

LEMMA StepKeeps ==
  ASSUME IInv, [Next]_vars
  PROVE  IInv'
  <1>1. CASE \E c \in Calls : BeginCall(c) \/ CallStep(c) \/ Drop(c)
    <2>1. PICK c \in Calls : BeginCall(c) \/ CallStep(c) \/ Drop(c)
      BY <1>1
    <2> QED
      BY <2>1, BeginKeeps, WriteStatusKeeps, ReadVersionKeeps, UpsertTranscriptKeeps, FindJobsKeeps,
         EnqueueKeeps, ReadTextKeeps, GenerateKeeps, EndKeeps DEF CallStep
  <1>2. CASE \E s \in Stages : BecomeDue(s)
    BY <1>2, BecomeDueKeeps
  <1>3. CASE \E w \in Workers : WorkerStep(w) \/ OutcomeError(w) \/ Abandon(w)
    <2>1. PICK w \in Workers : WorkerStep(w) \/ OutcomeError(w) \/ Abandon(w)
      BY <1>3
    <2>2. CASE \E s \in Stages : StartStage(w, s)
      BY <2>2, StartStageKeeps
    <2> QED
      BY <2>1, <2>2, ClaimKeeps, WorkerVersionKeeps, TranscribeKeeps, DeriveKeeps, OnlyGoesKeeps,
         RecordedKeeps, AbandonKeeps DEF WorkerStep
  <1>4. CASE UNCHANGED vars
    BY <1>4
    DEF vars, rowVars, jobVars, history, IInv, TypeOK, Known, CallKnows, WorkerKnows, StagesKnown,
        Asked, Asks
  <1> QED
    BY <1>1, <1>2, <1>3, <1>4 DEF Next

LEMMA Invariance == Spec => []IInv
  <1>1. Init => IInv
    BY InitIsFine
  <1>2. IInv /\ [Next]_vars => IInv'
    BY StepKeeps
  <1> QED
    BY <1>1, <1>2, PTL DEF Spec

-----------------------------------------------------------------------------
(* Theorems *)

\* The rows, the calls and the workers stay what the schema and the code allow.
THEOREM TypeCorrect == Spec => []TypeOK
  <1>1. IInv => TypeOK
    BY DEF IInv
  <1> QED
    BY <1>1, Invariance, PTL

\* A stage that has succeeded shows what it derived from the current transcript, unless
\* that was replaced while the stage ran, or the call that replaced it has its enqueue to
\* come or was lost.
THEOREM DerivedStaysCurrent == Spec => []DerivedIsCurrent
  <1>1. IInv => DerivedIsCurrent
    <2> SUFFICES ASSUME IInv, NEW s \in Derived \ raced, job[s] = "SUCCEEDED", ~lost,
                        \A c \in Calls : call[c].at \notin {"finding", "queueing"}
                 PROVE  output[s] = versions
      BY DEF DerivedIsCurrent
    <2>1. ~Asked(s)
      BY DEF Asked, Asks
    <2> QED
      BY <2>1 DEF IInv, Known, StagesKnown
  <1> QED
    BY <1>1, Invariance, PTL

\* Only a call or a worker that had read the status before can bring an archived sermon
\* back, or take a published one offline otherwise than archive does.
THEOREM StatusIsKept == Spec => StatusStays
  <1> DEFINE Stays == /\ status = "ARCHIVED" /\ ~Overtaken => status' = "ARCHIVED"
                      /\ status = "PUBLISHED" /\ ~Overtaken => status' \in {"PUBLISHED", "ARCHIVED"}
  <1>1. IInv /\ [Next]_vars => [Stays]_vars
    <2> SUFFICES ASSUME IInv, Next
                 PROVE  Stays
      OBVIOUS
    <2>1. ASSUME NEW c \in Calls, WriteStatus(c)
          PROVE  Stays
      <3>1. CallKnows(call[c], versions, raced)
        BY DEF IInv, Known
      <3>2. ~Overtaken /\ call[c].at \in {"publishing", "reprocessing"} => call[c].saw = status
        BY DEF Overtaken
      <3> QED
        BY <2>1, <3>1, <3>2 DEF WriteStatus, NewStatus, CallKnows
    <2>2. ASSUME NEW w \in Workers, MarkReady(w)
          PROVE  Stays
      <3>1. ~Overtaken => status = "PROCESSING"
        BY <2>2 DEF MarkReady, Overtaken
      <3> QED
        BY <3>1
    <2>3. ASSUME NEW c \in Calls, BeginCall(c) \/ Drop(c) \/ ReadVersion(c) \/ UpsertTranscript(c)
                   \/ FindJobs(c) \/ Enqueue(c) \/ ReadText(c) \/ Generate(c) \/ Refused(c)
          PROVE  status' = status
      BY <2>3 DEF BeginCall, Begin, Drop, ReadVersion, UpsertTranscript, NewVersion, FindJobs, Enqueue,
                  ReadText, Generate, Refused, rowVars
    <2>4. ASSUME NEW w \in Workers, Claim(w) \/ (\E s \in Stages : StartStage(w, s))
                   \/ WorkerVersion(w) \/ Transcribe(w) \/ Derive(w) \/ StageError(w)
                   \/ CheckTranscript(w) \/ Requeue(w) \/ MarkOutcome(w) \/ ReadStatus(w)
                   \/ CountOpen(w) \/ MarkFailed(w) \/ OutcomeError(w) \/ Abandon(w)
          PROVE  status' = status
      BY <2>4 DEF Claim, StartStage, WorkerVersion, Transcribe, NewVersion, Derive, StageError,
                  CheckTranscript, Requeue, MarkOutcome, ReadStatus, CountOpen, MarkFailed,
                  OutcomeError, Record, Abandon, rowVars
    <2>5. ASSUME NEW s \in Stages, BecomeDue(s)
          PROVE  status' = status
      BY <2>5 DEF BecomeDue, rowVars
    <2>6. status' = status => Stays
      OBVIOUS
    <2> HIDE DEF Stays
    <2> QED
      BY <2>1, <2>2, <2>3, <2>4, <2>5, <2>6 DEF Next, CallStep, WorkerStep
  <1> QED
    BY <1>1, Invariance, PTL DEF Spec, StatusStays

=============================================================================
