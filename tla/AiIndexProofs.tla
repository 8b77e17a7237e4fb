---------------------------- MODULE AiIndexProofs ----------------------------
(***************************************************************************)
(* Proofs about AiIndex, for any sets of artifacts, sermons and workers,   *)
(* any size of a batch and any number of transcripts and faults.           *)
(***************************************************************************)
EXTENDS AiIndex, TLAPS

-----------------------------------------------------------------------------
(* The inductive invariant *)

\* What is left of a worker's pass
Waiting(r) == {r.batch[i] : i \in DOMAIN r.batch}

\* A worker has a document in hand unless it is between two; what is left of its pass
\* is of the kind it is at, and of artifacts within the limit.
Ordered(r) ==
  /\ r.doc = None <=> r.at \in {"sources", "sermons"}
  /\ r.at = "sources" \/ r.doc \in Artifacts =>
       /\ \A x \in Waiting(r) : x.doc \in Artifacts
       /\ r.processed + Len(r.batch) + (IF r.doc = None THEN 0 ELSE 1) <= BatchSize
  /\ r.at = "sermons" \/ r.doc \in Sermons => \A x \in Waiting(r) : x.doc \in Sermons

\* The text t is the one on the row of d, or d was given a new one meanwhile.
Fresh(d, t, texts, late) == texts[d] >= 1 /\ (d \notin late => t = texts[d])

\* What a worker has in hand and what it has found is fresh, ...
Carries(r, texts, late) ==
  /\ r.doc # None => Fresh(r.doc, r.text, texts, late)
  /\ \A x \in Waiting(r) : IF x.doc \in Sermons THEN Fresh(x.doc, x.text, texts, late)
                           ELSE x.text = 1

\* ... and so are the chunks it has written, which another worker can only write
\* again; when it has stored their embeddings they are there, unless another one has
\* replaced the chunks.
Wrote(r, texts, late, made, over) ==
  /\ r.at \in {"storing", "marking"} /\ r.doc \notin late => made[r.doc].text = texts[r.doc]
  /\ r.at = "marking" /\ r.doc \notin over => made[r.doc].embedded = TRUE

Fine(r, texts, late, made, over) ==
  Ordered(r) /\ Carries(r, texts, late) /\ Wrote(r, texts, late, made, over)

WorkersFine == \A w \in Workers : Fine(worker[w], content, raced, chunks, overlaid)

\* A row has a text from its insert on; that of an artifact never changes.
Rows ==
  \A d \in Documents : /\ status[d] # "ABSENT" => content[d] >= 1
                       /\ d \in Artifacts => content[d] <= 1

Embedded ==
  \A d \in Documents \ (overlaid \union lost) :
    status[d] = "INDEXED" /\ Idle(d) => chunks[d].embedded = TRUE

IInv == TypeOK /\ Rows /\ WorkersFine /\ Embedded /\ IndexedIsCurrent

-----------------------------------------------------------------------------
(* Lemmas about batches *)

WorkerStates == [at : Places, batch : Seq(Found), processed : 0..BatchSize,
                 doc : Documents \union {None}, text : 0..MaxVersions]

LEMMA BatchOf ==
  ASSUME NEW n \in Nat, NEW f \in [1..n -> Found]
  PROVE  f \in Seq(Found) /\ Len(f) = n /\ DOMAIN f = 1..n
  OBVIOUS

LEMMA HeadAndTail ==
  ASSUME NEW b \in Seq(Found), b # <<>>
  PROVE  /\ Head(b) \in Found /\ \E i \in DOMAIN b : Head(b) = b[i]
         /\ Tail(b) \in Seq(Found) /\ Len(b) \in Nat /\ Len(Tail(b)) = Len(b) - 1
         /\ \A i \in DOMAIN Tail(b) : \E j \in DOMAIN b : Tail(b)[i] = b[j]
  <1>1. Len(b) \in Nat \ {0} /\ Head(b) = b[1] /\ DOMAIN b = 1..Len(b) /\ b[1] \in Found
    OBVIOUS
  <1>2. Tail(b) \in Seq(Found) /\ Len(Tail(b)) = Len(b) - 1
        /\ \A i \in 1..Len(Tail(b)) : Tail(b)[i] = b[i + 1]
    OBVIOUS
  <1>3. ASSUME NEW i \in DOMAIN Tail(b)
        PROVE  \E j \in DOMAIN b : Tail(b)[i] = b[j]
    <2>1. i \in 1..Len(Tail(b))
      BY <1>2
    <2>2. i + 1 \in DOMAIN b
      BY <1>1, <1>2, <2>1
    <2> QED
      BY <1>2, <2>1, <2>2
  <1> QED
    BY <1>1, <1>2, <1>3

LEMMA WaitingIsFound ==
  ASSUME NEW r \in WorkerStates
  PROVE  Waiting(r) \subseteq Found /\ \A x \in Waiting(r) : x.doc \in Documents
  <1>1. r.batch \in Seq(Found)
    BY DEF WorkerStates
  <1>2. \A i \in DOMAIN r.batch : r.batch[i] \in Found
    BY <1>1
  <1> QED
    BY <1>2 DEF Waiting, Found

-----------------------------------------------------------------------------
(* Lemmas about the states of a worker *)

LEMMA WorkersTyped ==
  ASSUME TypeOK
  PROVE  /\ worker \in [Workers -> WorkerStates]
         /\ \A w \in Workers : Len(worker[w].batch) <= BatchSize
  BY DEF TypeOK, WorkerStates

LEMMA KindsApart ==
  /\ \A d \in Documents : d # None /\ (d \in Artifacts <=> d \notin Sermons)
  /\ Artifacts \subseteq Documents /\ Sermons \subseteq Documents
  /\ None \notin Artifacts /\ None \notin Sermons /\ None \notin Workers
  BY SermonsDistinct, NoneDistinct DEF Documents

LEMMA Between ==
  ASSUME NEW place \in {"sources", "sermons"}, NEW batch \in Seq(Found), NEW n \in 0..BatchSize,
         NEW r, r = At(place, batch, n)
  PROVE  /\ r \in WorkerStates /\ r.at = place /\ r.batch = batch /\ r.processed = n
         /\ r.doc = None
  <1>1. place \in Places /\ 0 \in 0..MaxVersions
    BY MaxVersionsPositive DEF Places
  <1> QED
    BY <1>1 DEF At, WorkerStates

\* A worker between two documents waits, ...
LEMMA BetweenIsFine ==
  ASSUME NEW place \in {"sources", "sermons"}, NEW batch \in Seq(Found), NEW n \in 0..BatchSize,
         NEW r, r = At(place, batch, n),
         NEW texts, NEW late, NEW made, NEW over,
         \A i \in DOMAIN batch :
           IF place = "sources" THEN batch[i].doc \in Artifacts /\ batch[i].text = 1
           ELSE batch[i].doc \in Sermons /\ Fresh(batch[i].doc, batch[i].text, texts, late),
         place = "sources" => n + Len(batch) <= BatchSize
  PROVE  Fine(r, texts, late, made, over)
  <1>1. /\ r.at = place /\ r.batch = batch /\ r.processed = n
        /\ r.doc = None
    BY Between
  <1>2. Waiting(r) = {batch[i] : i \in DOMAIN batch}
    BY <1>1 DEF Waiting
  <1>3. Len(batch) \in Nat
    OBVIOUS
  <1>4. /\ place = "sources" => \A x \in Waiting(r) : x.doc \in Artifacts /\ x.text = 1
        /\ place = "sermons" => \A x \in Waiting(r) :
                                 x.doc \in Sermons /\ Fresh(x.doc, x.text, texts, late)
    BY <1>2
  <1>5. Ordered(r)
    <2>1. place = "sources" => n + Len(batch) + 0 <= BatchSize
      BY <1>3, BatchSizePositive
    <2>2. r.doc \notin Artifacts /\ r.doc \notin Sermons
      BY <1>1, KindsApart
    <2> QED
      BY <1>1, <1>4, <2>1, <2>2 DEF Ordered
  <1>6. Carries(r, texts, late)
    <2>1. place = "sources" => \A x \in Waiting(r) : x.doc \notin Sermons
      BY <1>4, KindsApart
    <2> QED
      BY <1>1, <1>4, <2>1 DEF Carries
  <1>7. Wrote(r, texts, late, made, over)
    BY <1>1 DEF Wrote
  <1> QED
    BY <1>5, <1>6, <1>7 DEF Fine

\* ... takes the next document, ...
Taken(r, next) ==
  [r EXCEPT !.at = next, !.batch = Tail(r.batch), !.doc = Head(r.batch).doc,
            !.text = Head(r.batch).text]

LEMMA Taking ==
  ASSUME NEW r \in WorkerStates, r.at \in {"sources", "sermons"}, r.batch # <<>>,
         Len(r.batch) <= BatchSize, Ordered(r),
         NEW next \in {"partial", "chunking"},
         NEW s, s = Taken(r, next)
  PROVE  /\ s \in WorkerStates /\ Len(s.batch) <= BatchSize
         /\ s.at = next /\ s.doc = Head(r.batch).doc /\ s.text = Head(r.batch).text
         /\ Head(r.batch) \in Waiting(r) /\ Head(r.batch) \in Found
         /\ Waiting(s) \subseteq Waiting(r)
         /\ s.doc \in Documents /\ Ordered(s)
  <1>1. r.batch \in Seq(Found) /\ r.processed \in 0..BatchSize
    BY DEF WorkerStates
  <1> DEFINE x == Head(r.batch)
             b == Tail(r.batch)
  <1>2. /\ x \in Found /\ x \in Waiting(r)
        /\ b \in Seq(Found) /\ Len(r.batch) \in Nat /\ Len(b) = Len(r.batch) - 1
        /\ {b[i] : i \in DOMAIN b} \subseteq Waiting(r)
    BY <1>1, HeadAndTail DEF Waiting
  <1> HIDE DEF x, b
  <1>3. /\ s.at = next /\ s.batch = b /\ s.doc = x.doc /\ s.text = x.text
        /\ s.processed = r.processed
    BY DEF Taken, WorkerStates, x, b
  <1>4. x.doc \in Documents /\ x.text \in 1..MaxVersions
    BY <1>2 DEF Found
  <1>5. s \in WorkerStates
    <2>1. next \in Places /\ x.text \in 0..MaxVersions
      BY <1>4, MaxVersionsPositive DEF Places
    <2> QED
      BY <1>2, <1>4, <2>1 DEF Taken, WorkerStates, x, b
  <1>6. Waiting(s) \subseteq Waiting(r)
    BY <1>2, <1>3 DEF Waiting
  <1>7. r.doc = None
    BY DEF Ordered
  <1>8. Ordered(s)
    <2>1. x.doc # None /\ (x.doc \in Artifacts <=> x.doc \notin Sermons)
      BY <1>4, KindsApart
    <2>2. x.doc \in Artifacts => r.at = "sources"
      BY <1>2, <2>1 DEF Ordered
    <2>3. x.doc \in Sermons => r.at = "sermons"
      BY <1>2, <2>1 DEF Ordered
    <2>4. x.doc \in Artifacts =>
            /\ \A y \in Waiting(s) : y.doc \in Artifacts
            /\ s.processed + Len(s.batch) + 1 <= BatchSize
      BY <1>1, <1>2, <1>3, <1>6, <1>7, <2>2, BatchSizePositive DEF Ordered
    <2>5. x.doc \in Sermons => \A y \in Waiting(s) : y.doc \in Sermons
      BY <1>6, <2>3 DEF Ordered
    <2>6. s.doc # None /\ s.at \notin {"sources", "sermons"}
      BY <1>3, <2>1
    <2> QED
      BY <1>3, <2>4, <2>5, <2>6 DEF Ordered
  <1>9. Len(s.batch) <= BatchSize
    BY <1>2, <1>3, BatchSizePositive
  <1> QED
    BY <1>2, <1>3, <1>4, <1>5, <1>6, <1>8, <1>9 DEF x

\* ... and goes on when it is done with it.
LEMMA GoingOn ==
  ASSUME NEW r \in WorkerStates, r.doc \in Documents, Ordered(r), NEW n \in 0..1,
         NEW texts, NEW late, Carries(r, texts, late), NEW made, NEW over,
         NEW s, s = IF r.doc \in Artifacts THEN At("sources", r.batch, r.processed + n)
                    ELSE At("sermons", r.batch, 0)
  PROVE  s \in WorkerStates /\ s.batch = r.batch /\ s.doc = None /\ Fine(s, texts, late, made, over)
  <1>1. r.batch \in Seq(Found) /\ r.processed \in 0..BatchSize /\ Len(r.batch) \in Nat
    BY DEF WorkerStates
  <1>2. \A i \in DOMAIN r.batch : r.batch[i] \in Waiting(r)
    BY DEF Waiting
  <1>3. CASE r.doc \in Artifacts
    <2>1. r.processed + n \in 0..BatchSize /\ r.processed + n + Len(r.batch) <= BatchSize
      BY <1>1, <1>3, KindsApart, BatchSizePositive DEF Ordered
    <2>2. \A i \in DOMAIN r.batch : r.batch[i].doc \in Artifacts /\ r.batch[i].text = 1
      BY <1>2, <1>3, KindsApart DEF Ordered, Carries
    <2> DEFINE m == r.processed + n
    <2>3. s = At("sources", r.batch, m)
      BY <1>3
    <2>4. m \in 0..BatchSize /\ m + Len(r.batch) <= BatchSize
      BY <2>1
    <2> HIDE DEF m
    <2>5. s \in WorkerStates /\ s.batch = r.batch /\ s.doc = None
      BY <1>1, <2>3, <2>4, Between
    <2>6. Fine(s, texts, late, made, over)
      BY <1>1, <2>2, <2>3, <2>4, BetweenIsFine
    <2> QED
      BY <2>5, <2>6
  <1>4. CASE r.doc \in Sermons
    <2>1. 0 \in 0..BatchSize
      BY BatchSizePositive
    <2>2. \A i \in DOMAIN r.batch :
            r.batch[i].doc \in Sermons /\ Fresh(r.batch[i].doc, r.batch[i].text, texts, late)
      BY <1>2, <1>4 DEF Ordered, Carries
    <2>3. s = At("sermons", r.batch, 0)
      BY <1>4, KindsApart
    <2> QED
      BY <1>1, <2>1, <2>2, <2>3, Between, BetweenIsFine
  <1> QED
    BY <1>3, <1>4 DEF Documents

-----------------------------------------------------------------------------
(* Lemmas about the steps of a worker *)

\* What another worker does leaves a worker fine if it keeps the texts that are there
\* and the chunks are as the worker needs them.
LEMMA OtherIsFine ==
  ASSUME NEW r \in WorkerStates,
         NEW texts, NEW late, NEW made, NEW over, Fine(r, texts, late, made, over),
         NEW texts2, \A d \in Documents : texts[d] >= 1 => texts2[d] = texts[d],
         NEW made2, NEW over2, Wrote(r, texts, late, made2, over2)
  PROVE  Fine(r, texts2, late, made2, over2)
  <1> USE DEF Fine
  <1>1. \A d \in Documents : \A t : Fresh(d, t, texts, late) => Fresh(d, t, texts2, late)
    BY DEF Fresh
  <1>2. r.doc \in Documents \union {None} /\ \A x \in Waiting(r) : x.doc \in Documents
    BY WaitingIsFound DEF WorkerStates
  <1>3. Carries(r, texts2, late)
    BY <1>1, <1>2 DEF Carries
  <1>4. Wrote(r, texts2, late, made2, over2)
    <2>1. r.at \in {"storing", "marking"} => r.doc \in Documents
      BY <1>2 DEF Ordered
    <2>2. r.doc \in Documents => texts[r.doc] >= 1
      BY KindsApart DEF Carries, Fresh
    <2> QED
      BY <2>1, <2>2 DEF Wrote
  <1> QED
    BY <1>3, <1>4

LEMMA WorkerMoves ==
  ASSUME TypeOK, WorkersFine, NEW w \in Workers,
         NEW r \in WorkerStates, Len(r.batch) <= BatchSize, worker' = [worker EXCEPT ![w] = r],
         Fine(r, content', raced, chunks', overlaid'),
         \A d \in Documents : content[d] >= 1 => content'[d] = content[d],
         raced' = raced,
         \A v \in Workers \ {w} : Wrote(worker[v], content, raced, chunks', overlaid')
  PROVE  /\ worker' \in [Workers -> WorkerStates]
         /\ \A v \in Workers : Len(worker'[v].batch) <= BatchSize
         /\ worker'[w] = r /\ \A v \in Workers \ {w} : worker'[v] = worker[v]
         /\ WorkersFine'
  <1>1. worker \in [Workers -> WorkerStates] /\ \A v \in Workers : Len(worker[v].batch) <= BatchSize
    BY WorkersTyped
  <1>2. worker' \in [Workers -> WorkerStates]
    BY <1>1
  <1>3. worker'[w] = r /\ \A v \in Workers \ {w} : worker'[v] = worker[v]
    BY <1>1
  <1>4. ASSUME NEW v \in Workers
        PROVE  Fine(worker'[v], content', raced', chunks', overlaid')
    <2>1. CASE v = w
      BY <1>3, <2>1
    <2>2. CASE v # w
      <3> DEFINE s == worker[v]
      <3>1. s \in WorkerStates
        BY <1>1
      <3>2. Fine(s, content, raced, chunks, overlaid) /\ Wrote(s, content, raced, chunks', overlaid')
        BY <2>2 DEF WorkersFine
      <3>3. worker'[v] = s
        BY <1>3, <2>2
      <3> HIDE DEF s
      <3>4. Fine(s, content', raced, chunks', overlaid')
        BY <3>1, <3>2, OtherIsFine
      <3> QED
        BY <3>3, <3>4
    <2> QED
      BY <2>1, <2>2
  <1> QED
    BY <1>1, <1>2, <1>3, <1>4 DEF WorkersFine

\* Of the documents that the step gives no status nobody lets go.
LEMMA StillEmbedded ==
  ASSUME Embedded, TypeOK, NEW w \in Workers, NEW r,
         worker'[w] = r, \A v \in Workers \ {w} : worker'[v] = worker[v],
         overlaid \subseteq overlaid', lost \subseteq lost',
         NEW D \in SUBSET Documents,
         worker[w].doc \in {None, r.doc} \union D,
         \A d \in Documents \ (D \union {r.doc}) :
            (status'[d] = "INDEXED" => status[d] = "INDEXED") /\ chunks'[d] = chunks[d],
         \A d \in D : \/ d \in overlaid' \union lost'
                     \/ status'[d] # "INDEXED" \/ chunks'[d].embedded = TRUE
  PROVE  Embedded'
  <1> SUFFICES ASSUME NEW d \in Documents \ (overlaid' \union lost'),
                      status'[d] = "INDEXED", Idle(d)'
               PROVE  chunks'[d].embedded = TRUE
    BY DEF Embedded
  <1>1. d # r.doc
    BY DEF Idle
  <1>2. CASE d \in D
    BY <1>2
  <1>3. CASE d \notin D
    <2>1. status[d] = "INDEXED" /\ chunks'[d] = chunks[d]
      BY <1>1, <1>3
    <2>2. worker[w].doc # d
      BY <1>1, <1>3, KindsApart
    <2>3. Idle(d)
      BY <2>2 DEF Idle
    <2> QED
      BY <2>1, <2>3 DEF Embedded
  <1> QED
    BY <1>2, <1>3

LEMMA FaultCounts ==
  ASSUME TypeOK, Fault \/ faults' = faults
  PROVE  faults' \in 0..MaxFaults
  BY MaxFaultsNat DEF TypeOK, Fault

LEMMA Typed ==
  ASSUME TypeOK,
         kind' = kind, ready' \subseteq Artifacts, archived' \subseteq Artifacts,
         content' \in [Documents -> 0..MaxVersions],
         status' \in [Documents -> Statuses],
         chunks' \in [Documents -> [text : 0..MaxVersions, by : Workers \union {None},
                                   embedded : BOOLEAN]],
         worker' \in [Workers -> WorkerStates],
         \A w \in Workers : Len(worker'[w].batch) <= BatchSize,
         raced' \subseteq Sermons, overlaid' \subseteq Documents, lost' \subseteq Documents,
         Fault \/ faults' = faults
  PROVE  TypeOK'
  <1>1. faults' \in 0..MaxFaults
    BY FaultCounts
  <1> QED
    BY <1>1 DEF TypeOK, WorkerStates

LEMMA EndTyped ==
  /\ EndOfPass \in WorkerStates /\ EndOfPass.at = "sermons" /\ EndOfPass.batch = <<>>
  /\ EndOfPass.processed = 0 /\ EndOfPass.doc = None
  <1> DEFINE batch == <<>>
             n == 0
             r == EndOfPass
  <1>1. batch \in Seq(Found) /\ n \in 0..BatchSize /\ r = At("sermons", batch, n)
    BY BatchSizePositive DEF EndOfPass
  <1> HIDE DEF r, batch, n
  <1>2. r \in WorkerStates /\ r.at = "sermons" /\ r.batch = batch /\ r.processed = n /\ r.doc = None
    BY <1>1, Between
  <1> QED
    BY <1>2 DEF r, batch, n

LEMMA InitIsFine ==
  ASSUME Init
  PROVE  IInv
  <1>1. <<>> \in Seq(Found) /\ Len(<<>>) = 0 /\ 0 \in 0..BatchSize
    BY BatchSizePositive
  <1>2. EndOfPass \in WorkerStates /\ EndOfPass.batch = <<>> /\ EndOfPass.doc = None
    BY EndTyped
  <1>3. Fine(EndOfPass, content, raced, chunks, overlaid)
    <2>1. \A i \in DOMAIN <<>> : FALSE
      OBVIOUS
    <2> QED
      BY <1>1, <2>1, BetweenIsFine DEF EndOfPass
  <1>4. worker \in [Workers -> WorkerStates] /\ \A w \in Workers : worker[w] = EndOfPass
    BY <1>2 DEF Init
  <1>5. TypeOK
    <2>1. NoChunks \in [text : 0..MaxVersions, by : Workers \union {None}, embedded : BOOLEAN]
      BY MaxVersionsPositive DEF NoChunks
    <2>2. \A w \in Workers : Len(worker[w].batch) <= BatchSize
      BY <1>1, <1>2, <1>4, BatchSizePositive
    <2>3. /\ content \in [Documents -> 0..MaxVersions] /\ status \in [Documents -> Statuses]
          /\ chunks \in [Documents -> [text : 0..MaxVersions, by : Workers \union {None},
                                      embedded : BOOLEAN]]
      BY <2>1, MaxVersionsPositive DEF Init, Statuses
    <2>4. faults \in 0..MaxFaults
      BY MaxFaultsNat DEF Init
    <2> QED
      BY <1>4, <2>2, <2>3, <2>4 DEF Init, TypeOK, WorkerStates
  <1>6. Rows /\ Embedded /\ IndexedIsCurrent
    BY DEF Init, Rows, Embedded, IndexedIsCurrent, Documents
  <1>7. WorkersFine
    BY <1>3, <1>4 DEF WorkersFine
  <1> QED
    BY <1>5, <1>6, <1>7 DEF IInv

-----------------------------------------------------------------------------
(* The sources *)

\* A step that leaves the index and the workers alone, or gives a row a new text
LEMMA SourceStep ==
  ASSUME IInv, UNCHANGED <<kind, chunks, worker, overlaid, lost>>, Fault \/ faults' = faults,
         ready' \subseteq Artifacts, archived' \subseteq Artifacts,
         \/ UNCHANGED <<content, status, raced>>
         \/ \E s \in Sermons : QueueSermon(s)
  PROVE  IInv'
  <1> USE DEF IInv
  <1>1. worker' \in [Workers -> WorkerStates] /\ \A w \in Workers : Len(worker'[w].batch) <= BatchSize
    BY WorkersTyped
  <1>2. CASE UNCHANGED <<content, status, raced>>
    <2>1. TypeOK'
      BY <1>1, <1>2, Typed DEF TypeOK
    <2>2. Rows' /\ WorkersFine' /\ Embedded' /\ IndexedIsCurrent'
      BY <1>2 DEF Rows, WorkersFine, Embedded, Idle, IndexedIsCurrent
    <2> QED
      BY <2>1, <2>2
  <1>3. ASSUME NEW s \in Sermons, QueueSermon(s)
        PROVE  IInv'
    <2>1. s \in Documents /\ s \notin Artifacts
      BY KindsApart
    <2>2. /\ content[s] \in 0..MaxVersions /\ content[s] < MaxVersions
          /\ content' = [content EXCEPT ![s] = content[s] + 1]
          /\ status' = [status EXCEPT ![s] = "PENDING"]
      BY <1>3, <2>1 DEF QueueSermon, TypeOK
    <2>3. raced' = raced \union {t \in {s} : \E w \in Workers : Holds(w, t)}
      BY <1>3 DEF QueueSermon
    <2>4. /\ content' \in [Documents -> 0..MaxVersions] /\ content'[s] = content[s] + 1
          /\ \A d \in Documents : d # s => content'[d] = content[d]
      BY <2>1, <2>2, MaxVersionsPositive DEF TypeOK
    <2>5. /\ status' \in [Documents -> Statuses] /\ status'[s] = "PENDING"
          /\ \A d \in Documents : d # s => status'[d] = status[d]
      BY <2>1, <2>2 DEF TypeOK, Statuses
    <2>6. raced' \subseteq Sermons
      BY <2>3 DEF TypeOK
    <2>7. TypeOK'
      BY <1>1, <2>4, <2>5, <2>6, Typed DEF TypeOK
    <2>8. Rows'
      <3>1. content[s] + 1 >= 1
        BY <2>2
      <3> QED
        BY <2>1, <2>4, <2>5, <3>1 DEF Rows
    <2>9. Embedded'
      BY <2>5 DEF Embedded, Idle
    <2>10. IndexedIsCurrent'
      BY <2>3, <2>4, <2>5 DEF IndexedIsCurrent
    <2>11. ASSUME NEW w \in Workers
           PROVE  Fine(worker'[w], content', raced', chunks', overlaid')
      <3> DEFINE r == worker[w]
      <3>1. r \in WorkerStates /\ worker'[w] = r
        BY WorkersTyped
      <3>2. Fine(r, content, raced, chunks, overlaid)
        BY DEF WorkersFine
      <3>3. r.doc = s \/ (\E x \in Waiting(r) : x.doc = s) => s \in raced'
        BY <2>3 DEF Waiting, Holds
      <3> HIDE DEF r
      <3>4. \A x \in Waiting(r) : x.doc \in Documents
        BY <3>1, WaitingIsFound
      <3>5. ASSUME NEW d \in Documents, NEW t, d = s => s \in raced', Fresh(d, t, content, raced)
            PROVE  Fresh(d, t, content', raced')
        <4>1. content'[d] >= 1
          BY <2>2, <2>4, <3>5 DEF Fresh
        <4>2. d \notin raced' => d # s /\ d \notin raced
          BY <2>3, <3>5
        <4> QED
          BY <2>4, <3>5, <4>1, <4>2 DEF Fresh
      <3>6. Carries(r, content', raced')
        <4>1. Carries(r, content, raced)
          BY <3>2 DEF Fine
        <4>2. r.doc \in Documents \union {None}
          BY <3>1 DEF WorkerStates
        <4> QED
          BY <3>3, <3>4, <3>5, <4>1, <4>2 DEF Carries
      <3>7. Wrote(r, content', raced', chunks, overlaid)
        <4>1. Wrote(r, content, raced, chunks, overlaid) /\ Ordered(r)
          BY <3>2 DEF Fine
        <4>2. r.at \in {"storing", "marking"} => r.doc \in Documents
          BY <3>1, <4>1 DEF Ordered, WorkerStates
        <4>3. r.doc \notin raced' => r.doc # s /\ r.doc \notin raced
          BY <2>3, <3>3
        <4> QED
          BY <2>4, <4>1, <4>2, <4>3 DEF Wrote
      <3> QED
        BY <3>1, <3>2, <3>6, <3>7 DEF Fine
    <2> QED
      BY <2>7, <2>8, <2>9, <2>10, <2>11 DEF WorkersFine
  <1> QED
    BY <1>2, <1>3

-----------------------------------------------------------------------------
(* The workers *)

\* A step between two writes to the index
LEMMA PassMoves ==
  ASSUME IInv, NEW w \in Workers,
         NEW r \in WorkerStates, Len(r.batch) <= BatchSize, worker' = [worker EXCEPT ![w] = r],
         Fine(r, content, raced, chunks, overlaid),
         UNCHANGED <<sourceVars, indexVars, raced, overlaid>>, Fault \/ faults' = faults,
         lost \subseteq lost', lost' \subseteq Documents,
         worker[w].doc \in {None, r.doc} \union lost'
  PROVE  IInv'
  <1> USE DEF IInv, sourceVars, indexVars
  <1>1. \A v \in Workers \ {w} : Wrote(worker[v], content, raced, chunks', overlaid')
    BY DEF WorkersFine, Fine
  <1>2. /\ worker' \in [Workers -> WorkerStates]
        /\ \A v \in Workers : Len(worker'[v].batch) <= BatchSize
        /\ worker'[w] = r /\ \A v \in Workers \ {w} : worker'[v] = worker[v]
        /\ WorkersFine'
    BY <1>1, WorkerMoves
  <1>3. TypeOK'
    BY <1>2, Typed DEF TypeOK
  <1>4. Embedded'
    <2>1. lost' \in SUBSET Documents
      OBVIOUS
    <2> QED
      BY <1>2, <2>1, StillEmbedded
  <1>5. Rows' /\ IndexedIsCurrent'
    BY DEF Rows, IndexedIsCurrent
  <1> QED
    BY <1>2, <1>3, <1>4, <1>5

LEMMA LimitedIs ==
  ASSUME NEW pending, NEW limit \in Nat, NEW found \in Limited(pending, limit)
  PROVE  \E n \in 0..limit : found \in [1..n -> pending]
  BY DEF Limited

LEMMA FindSourcesKeeps ==
  ASSUME IInv, NEW w \in Workers, FindSources(w)
  PROVE  IInv'
  <1> DEFINE pending == {a \in ready : status[a] \notin Settled}
  <1>1. PICK found \in Limited(pending, BatchSize) :
          worker' = [worker EXCEPT ![w] =
            At("sources", [i \in DOMAIN found |-> [doc |-> found[i], text |-> 1]], 0)]
    BY DEF FindSources
  <1>2. PICK n \in 0..BatchSize : found \in [1..n -> pending]
    BY LimitedIs, BatchSizePositive
  <1> DEFINE batch == [i \in DOMAIN found |-> [doc |-> found[i], text |-> 1]]
             r == At("sources", batch, 0)
  <1>3. batch \in [1..n -> Found] /\ \A i \in 1..n : batch[i].doc \in Artifacts /\ batch[i].text = 1
    <2>1. pending \subseteq Artifacts /\ Artifacts \subseteq Documents /\ 1 \in 1..MaxVersions
      BY MaxVersionsPositive DEF IInv, TypeOK, Documents
    <2> HIDE DEF pending
    <2> QED
      BY <1>2, <2>1 DEF Found
  <1>4. n \in Nat /\ n <= BatchSize /\ 0 \in 0..BatchSize
    BY BatchSizePositive
  <1> HIDE DEF batch
  <1>5. batch \in Seq(Found) /\ Len(batch) = n /\ DOMAIN batch = 1..n
    BY <1>3, <1>4, BatchOf
  <1>6. r \in WorkerStates /\ r.batch = batch /\ r.doc = None
    BY <1>4, <1>5, Between
  <1>7. Fine(r, content, raced, chunks, overlaid)
    <2>1. 0 + Len(batch) <= BatchSize
      BY <1>4, <1>5
    <2> QED
      BY <1>3, <1>4, <1>5, <2>1, BetweenIsFine
  <1>8. worker' = [worker EXCEPT ![w] = r] /\ worker[w].doc = None
    BY <1>1, EndTyped DEF FindSources, batch
  <1>9. UNCHANGED <<sourceVars, indexVars, raced, overlaid, lost, faults>> /\ lost \subseteq Documents
    BY DEF FindSources, history, IInv, TypeOK
  <1> HIDE DEF r
  <1> QED
    BY <1>4, <1>5, <1>6, <1>7, <1>8, <1>9, PassMoves

LEMMA FindSermonsKeeps ==
  ASSUME IInv, NEW w \in Workers, FindSermons(w)
  PROVE  IInv'
  <1> DEFINE pending == {s \in Sermons : status[s] \in {"PENDING", "FAILED"}}
             left == IF worker[w].processed < BatchSize THEN BatchSize - worker[w].processed ELSE 1
  <1>1. PICK found \in Limited(pending, left) :
          worker' = [worker EXCEPT ![w] =
            At("sermons", [i \in DOMAIN found |->
                             [doc |-> found[i], text |-> content[found[i]]]], 0)]
    BY DEF FindSermons
  <1>2. left \in Nat /\ left <= BatchSize
    <2>1. worker[w].processed \in 0..BatchSize
      BY WorkersTyped DEF IInv, WorkerStates
    <2> QED
      BY <2>1, BatchSizePositive
  <1> HIDE DEF left
  <1>3. PICK n \in 0..left : found \in [1..n -> pending]
    BY <1>2, LimitedIs
  <1> DEFINE batch == [i \in DOMAIN found |-> [doc |-> found[i], text |-> content[found[i]]]]
             r == At("sermons", batch, 0)
  <1>4. /\ batch \in [1..n -> Found]
        /\ \A i \in 1..n : batch[i].doc \in Sermons
                           /\ Fresh(batch[i].doc, batch[i].text, content, raced)
    <2>1. \A s \in pending : s \in Sermons /\ s \in Documents /\ content[s] \in 1..MaxVersions
      <3>1. ASSUME NEW s \in pending PROVE content[s] >= 1 /\ content[s] \in 0..MaxVersions
        BY DEF IInv, TypeOK, Rows, Documents
      <3> QED
        BY <3>1, MaxVersionsPositive DEF Documents
    <2> HIDE DEF pending
    <2>2. \A s \in pending : content[s] >= 1
      BY <2>1, MaxVersionsPositive
    <2> QED
      BY <1>3, <2>1, <2>2 DEF Found, Fresh
  <1>5. n \in Nat /\ n <= BatchSize /\ 0 \in 0..BatchSize
    BY <1>2, BatchSizePositive
  <1> HIDE DEF batch
  <1>6. batch \in Seq(Found) /\ Len(batch) = n /\ DOMAIN batch = 1..n
    BY <1>4, <1>5, BatchOf
  <1>7. r \in WorkerStates /\ r.batch = batch /\ r.doc = None
    BY <1>5, <1>6, Between
  <1>8. Fine(r, content, raced, chunks, overlaid)
    BY <1>4, <1>5, <1>6, BetweenIsFine
  <1>9. worker' = [worker EXCEPT ![w] = r]
    BY <1>1 DEF batch
  <1>10. worker[w].doc = None
    <2>1. Ordered(worker[w])
      BY DEF IInv, WorkersFine, Fine
    <2> QED
      BY <2>1 DEF Ordered, FindSermons
  <1>11. UNCHANGED <<sourceVars, indexVars, raced, overlaid, lost, faults>> /\ lost \subseteq Documents
    BY DEF FindSermons, history, IInv, TypeOK
  <1> HIDE DEF r
  <1> QED
    BY <1>5, <1>6, <1>7, <1>8, <1>9, <1>10, <1>11, PassMoves

\* SkipSource takes the first source off the list.
LEMMA SkipSourceKeeps ==
  ASSUME IInv, NEW w \in Workers, SkipSource(w)
  PROVE  IInv'
  <1> DEFINE r == worker[w]
             b == Tail(r.batch)
             s == [r EXCEPT !.batch = b]
  <1>1. /\ r \in WorkerStates /\ Len(r.batch) <= BatchSize /\ r.at = "sources" /\ r.batch # <<>>
        /\ Fine(r, content, raced, chunks, overlaid)
    BY WorkersTyped DEF IInv, WorkersFine, SkipSource
  <1>2. worker' = [worker EXCEPT ![w] = s]
    <2>1. worker \in [Workers -> WorkerStates]
      BY WorkersTyped DEF IInv
    <2> QED
      BY <2>1 DEF SkipSource
  <1>3. r.batch \in Seq(Found) /\ r.processed \in 0..BatchSize /\ r.doc = None
    BY <1>1 DEF WorkerStates, Fine, Ordered
  <1>4. /\ b \in Seq(Found) /\ Len(r.batch) \in Nat /\ Len(b) = Len(r.batch) - 1
        /\ {b[i] : i \in DOMAIN b} \subseteq Waiting(r)
    BY <1>1, <1>3, HeadAndTail DEF Waiting
  <1> HIDE DEF b
  <1>5. /\ s \in WorkerStates /\ s.at = "sources" /\ s.batch = b /\ s.processed = r.processed
        /\ s.doc = None
    BY <1>1, <1>3, <1>4 DEF WorkerStates
  <1>6. Waiting(s) \subseteq Waiting(r)
    BY <1>4, <1>5 DEF Waiting
  <1>7. UNCHANGED <<sourceVars, indexVars, raced, overlaid, lost>> /\ lost \subseteq Documents
        /\ (Fault \/ faults' = faults)
    BY DEF SkipSource, IInv, TypeOK
  <1> HIDE DEF r, s
  <1>8. Ordered(s)
    <2>1. /\ \A x \in Waiting(s) : x.doc \in Artifacts
          /\ r.processed + Len(r.batch) + 0 <= BatchSize
      BY <1>1, <1>3, <1>6 DEF Fine, Ordered
    <2>2. s.processed + Len(s.batch) + 0 <= BatchSize
      BY <1>3, <1>4, <1>5, <2>1, BatchSizePositive
    <2>3. s.doc \notin Artifacts /\ s.doc \notin Sermons
      BY <1>5, KindsApart
    <2> QED
      BY <1>5, <2>1, <2>2, <2>3 DEF Ordered
  <1>9. Carries(s, content, raced) /\ Wrote(s, content, raced, chunks, overlaid)
    BY <1>1, <1>5, <1>6 DEF Fine, Carries, Wrote
  <1>10. Len(s.batch) <= BatchSize
    BY <1>1, <1>4, <1>5, BatchSizePositive
  <1>11. worker[w].doc = None
    BY <1>3 DEF r
  <1> QED
    BY <1>2, <1>5, <1>7, <1>8, <1>9, <1>10, <1>11, PassMoves DEF Fine

\* What Upsert and TakeSermon have in hand
LEMMA TakeMoves ==
  ASSUME IInv, NEW w \in Workers, NEW next \in {"partial", "chunking"}, Take(w, next),
         worker[w].at \in {"sources", "sermons"}
  PROVE  \E s \in WorkerStates :
           /\ worker' = [worker EXCEPT ![w] = s] /\ Len(s.batch) <= BatchSize
           /\ s.at = next /\ s.doc = Head(worker[w].batch).doc /\ s.doc \in Documents /\ Ordered(s)
           /\ worker[w].doc = None
           /\ worker[w].at = "sources" => s.doc \in Artifacts /\ s.text = 1
           /\ worker[w].at = "sermons" => Carries(s, content, raced)
           /\ \A x \in Waiting(s) : x \in Waiting(worker[w])
  <1> DEFINE r == worker[w]
             s == Taken(r, next)
  <1>1. /\ r \in WorkerStates /\ Len(r.batch) <= BatchSize /\ r.at \in {"sources", "sermons"}
        /\ r.batch # <<>> /\ Fine(r, content, raced, chunks, overlaid)
    BY WorkersTyped DEF IInv, WorkersFine, Take
  <1>2. worker' = [worker EXCEPT ![w] = s]
    <2>1. worker \in [Workers -> WorkerStates]
      BY WorkersTyped DEF IInv
    <2> QED
      BY <1>1, <2>1 DEF Take, Taken, WorkerStates
  <1>3. s = Taken(r, next)
    OBVIOUS
  <1>4. Ordered(r) /\ Carries(r, content, raced)
    BY <1>1 DEF Fine
  <1> HIDE DEF s, r
  <1>5. /\ s \in WorkerStates /\ Len(s.batch) <= BatchSize
        /\ s.at = next /\ s.doc = Head(r.batch).doc /\ s.text = Head(r.batch).text
        /\ Head(r.batch) \in Waiting(r) /\ Head(r.batch) \in Found
        /\ Waiting(s) \subseteq Waiting(r)
        /\ s.doc \in Documents /\ Ordered(s)
    BY <1>1, <1>3, <1>4, Taking
  <1>6. r.doc = None
    BY <1>1, <1>4 DEF Ordered
  <1>7. r.at = "sources" => s.doc \in Artifacts /\ s.text = 1
    BY <1>4, <1>5, KindsApart DEF Ordered, Carries
  <1>8. r.at = "sermons" => Carries(s, content, raced)
    BY <1>4, <1>5 DEF Ordered, Carries
  <1> QED
    BY <1>2, <1>5, <1>6, <1>7, <1>8 DEF r

LEMMA TakeSermonKeeps ==
  ASSUME IInv, NEW w \in Workers, TakeSermon(w)
  PROVE  IInv'
  <1>1. PICK s \in WorkerStates :
          /\ worker' = [worker EXCEPT ![w] = s] /\ Len(s.batch) <= BatchSize
          /\ s.at = "chunking" /\ Ordered(s) /\ worker[w].doc = None
          /\ Carries(s, content, raced)
    BY TakeMoves DEF TakeSermon
  <1>2. Fine(s, content, raced, chunks, overlaid)
    BY <1>1 DEF Fine, Wrote
  <1>3. UNCHANGED <<sourceVars, indexVars, raced, overlaid, lost, faults>> /\ lost \subseteq Documents
    BY DEF TakeSermon, history, IInv, TypeOK
  <1> QED
    BY <1>1, <1>2, <1>3, PassMoves

LEMMA UpsertKeeps ==
  ASSUME IInv, NEW w \in Workers, Upsert(w)
  PROVE  IInv'
  <1> USE DEF IInv
  <1> DEFINE a == Head(worker[w].batch).doc
             next == IF kind[a] = "text" THEN "chunking" ELSE "partial"
  <1>1. PICK s \in WorkerStates :
          /\ worker' = [worker EXCEPT ![w] = s] /\ Len(s.batch) <= BatchSize
          /\ s.at = next /\ s.doc = a /\ s.doc \in Artifacts /\ s.text = 1 /\ Ordered(s)
          /\ worker[w].doc = None
          /\ \A x \in Waiting(s) : x \in Waiting(worker[w])
    <2>1. next \in {"partial", "chunking"} /\ Take(w, next) /\ worker[w].at = "sources"
      BY DEF Upsert
    <2> HIDE DEF next
    <2> QED
      BY <2>1, TakeMoves
  <1>2. /\ content' = [content EXCEPT ![a] = 1] /\ status' = [status EXCEPT ![a] = "PROCESSING"]
        /\ UNCHANGED <<kind, ready, archived, chunks, raced, overlaid, lost, faults>>
    BY DEF Upsert, sourceVars, history
  <1>3. a \in Artifacts /\ a \in Documents /\ s.at \in {"partial", "chunking"}
    BY <1>1, KindsApart
  <1> HIDE DEF a, next
  <1>4. /\ content' \in [Documents -> 0..MaxVersions] /\ content'[a] = 1
        /\ \A d \in Documents : d # a => content'[d] = content[d]
    <2>1. 1 \in 0..MaxVersions
      BY MaxVersionsPositive
    <2> QED
      BY <1>2, <1>3, <2>1 DEF TypeOK
  <1>5. /\ status' \in [Documents -> Statuses] /\ status'[a] = "PROCESSING"
        /\ \A d \in Documents : d # a => status'[d] = status[d]
    BY <1>2, <1>3 DEF TypeOK, Statuses
  <1>6. \A d \in Documents : content[d] >= 1 => content'[d] = content[d]
    <2>1. content[a] \in 0..MaxVersions /\ content[a] <= 1
      BY <1>3 DEF TypeOK, Rows
    <2>2. content[a] >= 1 => content[a] = 1
      BY <2>1, MaxVersionsPositive
    <2> QED
      BY <1>4, <2>2
  <1>7. Fine(s, content', raced, chunks', overlaid')
    <2>1. s.doc # None /\ Fresh(s.doc, s.text, content', raced)
      BY <1>1, <1>3, <1>4, KindsApart DEF Fresh
    <2>2. Carries(worker[w], content, raced) /\ Ordered(worker[w]) /\ worker[w] \in WorkerStates
      BY WorkersTyped DEF WorkersFine, Fine
    <2>3. \A x \in Waiting(s) : x.doc \in Artifacts
      BY <1>1 DEF Ordered
    <2>4. \A x \in Waiting(s) : x.doc \notin Sermons /\ x.text = 1
      BY <1>1, <2>2, <2>3, KindsApart DEF Carries
    <2>5. Carries(s, content', raced)
      BY <2>1, <2>4 DEF Carries
    <2>6. Wrote(s, content', raced, chunks', overlaid')
      BY <1>3 DEF Wrote
    <2> QED
      BY <1>1, <2>5, <2>6 DEF Fine
  <1>8. \A v \in Workers \ {w} : Wrote(worker[v], content, raced, chunks', overlaid')
    BY <1>2 DEF WorkersFine, Fine
  <1>9. /\ worker' \in [Workers -> WorkerStates]
        /\ \A v \in Workers : Len(worker'[v].batch) <= BatchSize
        /\ worker'[w] = s /\ \A v \in Workers \ {w} : worker'[v] = worker[v]
        /\ WorkersFine'
    BY <1>1, <1>2, <1>6, <1>7, <1>8, WorkerMoves
  <1>10. TypeOK'
    BY <1>2, <1>4, <1>5, <1>9, Typed DEF TypeOK
  <1>11. Rows'
    BY <1>3, <1>4, <1>5 DEF Rows
  <1>12. Embedded'
    <2> DEFINE D == {}
    <2>1. D \in SUBSET Documents /\ worker[w].doc \in {None, s.doc} \union D /\ \A d \in D : FALSE
      BY <1>1
    <2>2. \A d \in Documents \ (D \union {s.doc}) :
             (status'[d] = "INDEXED" => status[d] = "INDEXED") /\ chunks'[d] = chunks[d]
      BY <1>1, <1>2, <1>5
    <2>3. overlaid \subseteq overlaid' /\ lost \subseteq lost' /\ Embedded /\ TypeOK
      BY <1>2, <1>3
    <2> HIDE DEF D
    <2> QED
      BY <1>9, <2>1, <2>2, <2>3, StillEmbedded
  <1>13. IndexedIsCurrent'
    BY <1>2, <1>4, <1>5 DEF IndexedIsCurrent
  <1> QED
    BY <1>9, <1>10, <1>11, <1>12, <1>13

\* MarkPartial, MarkIndexed and MarkFailed write a status and go on with the pass.
LEMMA MarkKeeps ==
  ASSUME IInv, NEW w \in Workers, worker[w].doc \in Documents,
         NEW x \in {"PARTIAL", "INDEXED", "FAILED"}, NEW n \in 0..1,
         status' = [status EXCEPT ![worker[w].doc] = x], NextSource(w, n),
         UNCHANGED <<sourceVars, content, chunks, history>>,
         x = "INDEXED" => worker[w].at = "marking"
  PROVE  IInv'
  <1> USE DEF IInv, sourceVars, history
  <1> DEFINE r == worker[w]
             s == IF r.doc \in Artifacts THEN At("sources", r.batch, r.processed + n)
                  ELSE At("sermons", r.batch, 0)
  <1>1. /\ r \in WorkerStates /\ Len(r.batch) <= BatchSize /\ r.doc \in Documents
        /\ Ordered(r) /\ Carries(r, content, raced) /\ Wrote(r, content, raced, chunks, overlaid)
    BY WorkersTyped DEF WorkersFine, Fine
  <1>2. worker' = [worker EXCEPT ![w] = s]
    <2>1. worker \in [Workers -> WorkerStates]
      BY WorkersTyped
    <2> QED
      BY <2>1 DEF NextSource
  <1>3. s = IF r.doc \in Artifacts THEN At("sources", r.batch, r.processed + n)
            ELSE At("sermons", r.batch, 0)
    OBVIOUS
  <1>4. worker[w].doc = r.doc /\ worker[w].at = r.at
    OBVIOUS
  <1> HIDE DEF s, r
  <1>5. /\ s \in WorkerStates /\ s.batch = r.batch /\ s.doc = None
        /\ Fine(s, content, raced, chunks, overlaid)
    BY <1>1, <1>3, GoingOn
  <1>6. \A v \in Workers \ {w} : Wrote(worker[v], content, raced, chunks', overlaid')
    BY DEF WorkersFine, Fine
  <1>7. Len(s.batch) <= BatchSize
    BY <1>1, <1>5
  <1>8. /\ worker' \in [Workers -> WorkerStates]
        /\ \A v \in Workers : Len(worker'[v].batch) <= BatchSize
        /\ worker'[w] = s /\ \A v \in Workers \ {w} : worker'[v] = worker[v]
        /\ WorkersFine'
    <2>1. Fine(s, content', raced, chunks', overlaid') /\ raced' = raced
          /\ \A d \in Documents : content[d] >= 1 => content'[d] = content[d]
      BY <1>5
    <2> QED
      BY <1>2, <1>5, <1>6, <1>7, <2>1, WorkerMoves
  <1>9. /\ status' \in [Documents -> Statuses] /\ status'[r.doc] = x
        /\ \A d \in Documents : d # r.doc => status'[d] = status[d]
    BY <1>1, <1>4 DEF TypeOK, Statuses
  <1>10. TypeOK'
    BY <1>8, <1>9, Typed DEF TypeOK
  <1>11. Rows'
    <2>1. content[r.doc] >= 1
      BY <1>1, KindsApart DEF Carries, Fresh
    <2> QED
      BY <1>9, <2>1 DEF Rows
  <1>12. Embedded'
    <2> DEFINE D == {r.doc}
    <2>1. \A d \in D : \/ d \in overlaid' \union lost'
                      \/ status'[d] # "INDEXED" \/ chunks'[d].embedded = TRUE
      BY <1>1, <1>4, <1>9 DEF Wrote
    <2>2. D \in SUBSET Documents /\ worker[w].doc \in {None, s.doc} \union D
      BY <1>1, <1>4
    <2>3. \A d \in Documents \ (D \union {s.doc}) :
             (status'[d] = "INDEXED" => status[d] = "INDEXED") /\ chunks'[d] = chunks[d]
      BY <1>9
    <2> HIDE DEF D
    <2> QED
      BY <1>8, <2>1, <2>2, <2>3, StillEmbedded
  <1>13. IndexedIsCurrent'
    <2>1. r.doc \notin raced /\ x = "INDEXED" => chunks[r.doc].text = content[r.doc]
      BY <1>1, <1>4 DEF Wrote
    <2> QED
      BY <1>9, <2>1 DEF IndexedIsCurrent
  <1> QED
    BY <1>8, <1>10, <1>11, <1>12, <1>13

LEMMA InHand ==
  ASSUME IInv, NEW w \in Workers, worker[w].at \notin {"sources", "sermons"}
  PROVE  worker[w].doc \in Documents
  <1>1. Ordered(worker[w]) /\ worker[w] \in WorkerStates
    BY WorkersTyped DEF IInv, WorkersFine, Fine
  <1> QED
    BY <1>1 DEF Ordered, WorkerStates

LEMMA MarksKeep ==
  ASSUME IInv, NEW w \in Workers, MarkPartial(w) \/ MarkIndexed(w) \/ MarkFailed(w)
  PROVE  IInv'
  <1>1. worker[w].doc \in Documents
    BY InHand DEF MarkPartial, MarkIndexed, MarkFailed
  <1>2. 0 \in 0..1 /\ 1 \in 0..1
    OBVIOUS
  <1>3. CASE MarkPartial(w)
    BY <1>1, <1>2, <1>3, MarkKeeps DEF MarkPartial
  <1>4. CASE MarkIndexed(w)
    BY <1>1, <1>2, <1>4, MarkKeeps DEF MarkIndexed
  <1>5. CASE MarkFailed(w)
    BY <1>1, <1>2, <1>5, MarkKeeps DEF MarkFailed
  <1> QED
    BY <1>3, <1>4, <1>5

\* A worker with a document in hand goes to another place.
LEMMA Moved ==
  ASSUME IInv, NEW w \in Workers, worker[w].at \notin {"sources", "sermons"},
         NEW next \in {"storing", "marking", "failing"}, Goto(w, next)
  PROVE  \E s \in WorkerStates :
           /\ worker' = [worker EXCEPT ![w] = s] /\ Len(s.batch) <= BatchSize
           /\ s.at = next /\ s.doc = worker[w].doc /\ s.text = worker[w].text
           /\ Ordered(s) /\ Carries(s, content, raced)
  <1> DEFINE r == worker[w]
             s == [r EXCEPT !.at = next]
  <1>1. /\ r \in WorkerStates /\ Len(r.batch) <= BatchSize
        /\ Ordered(r) /\ Carries(r, content, raced) /\ r.at \notin {"sources", "sermons"}
    BY WorkersTyped DEF IInv, WorkersFine, Fine
  <1>2. worker' = [worker EXCEPT ![w] = s]
    <2>1. worker \in [Workers -> WorkerStates]
      BY WorkersTyped DEF IInv
    <2> QED
      BY <2>1 DEF Goto
  <1> HIDE DEF r
  <1>3. /\ s \in WorkerStates /\ s.at = next /\ s.doc = r.doc /\ s.text = r.text
        /\ s.batch = r.batch /\ s.processed = r.processed
    BY <1>1 DEF WorkerStates, Places
  <1> HIDE DEF s
  <1>4. Waiting(s) = Waiting(r)
    BY <1>3 DEF Waiting
  <1>5. Ordered(s) /\ Carries(s, content, raced)
    BY <1>1, <1>3, <1>4 DEF Ordered, Carries
  <1> QED
    BY <1>1, <1>2, <1>3, <1>5 DEF r

LEMMA IndexErrorKeeps ==
  ASSUME IInv, NEW w \in Workers, IndexError(w)
  PROVE  IInv'
  <1>1. PICK s \in WorkerStates :
          /\ worker' = [worker EXCEPT ![w] = s] /\ Len(s.batch) <= BatchSize
          /\ s.at = "failing" /\ s.doc = worker[w].doc
          /\ Ordered(s) /\ Carries(s, content, raced)
    BY Moved DEF IndexError
  <1>2. Fine(s, content, raced, chunks, overlaid)
    BY <1>1 DEF Fine, Wrote
  <1>3. UNCHANGED <<sourceVars, indexVars, raced, overlaid, lost>> /\ lost \subseteq Documents
        /\ (Fault \/ faults' = faults)
    BY DEF IndexError, IInv, TypeOK
  <1> QED
    BY <1>1, <1>2, <1>3, PassMoves

LEMMA CrashKeeps ==
  ASSUME IInv, NEW w \in Workers, Crash(w)
  PROVE  IInv'
  <1> DEFINE r == EndOfPass
             batch == <<>>
             n == 0
  <1>1. /\ r \in WorkerStates /\ Len(r.batch) <= BatchSize
    BY EndTyped, BatchSizePositive
  <1>2. Fine(r, content, raced, chunks, overlaid)
    <2>1. /\ batch \in Seq(Found) /\ n \in 0..BatchSize /\ r = At("sermons", batch, n)
          /\ \A i \in DOMAIN batch : FALSE
      BY BatchSizePositive DEF EndOfPass
    <2> HIDE DEF r, batch, n
    <2> QED
      BY <2>1, BetweenIsFine
  <1>3. /\ worker' = [worker EXCEPT ![w] = r] /\ Fault
        /\ UNCHANGED <<sourceVars, indexVars, raced, overlaid>>
        /\ lost' = lost \union ({worker[w].doc} \ {None})
    BY DEF Crash
  <1>4. lost \subseteq lost' /\ lost' \subseteq Documents /\ worker[w].doc \in {None, r.doc} \union lost'
    <2>1. worker[w].doc \in Documents \union {None}
      BY WorkersTyped DEF IInv, WorkerStates
    <2> QED
      BY <1>3, <2>1 DEF IInv, TypeOK
  <1> HIDE DEF r
  <1> QED
    BY <1>1, <1>2, <1>3, <1>4, PassMoves

\* The loop goes on with the next source.
LEMMA SkipPartialKeeps ==
  ASSUME IInv, NEW w \in Workers, SkipPartial(w)
  PROVE  IInv'
  <1> DEFINE r == worker[w]
             s == IF r.doc \in Artifacts THEN At("sources", r.batch, r.processed + 0)
                  ELSE At("sermons", r.batch, 0)
  <1>1. /\ r \in WorkerStates /\ Len(r.batch) <= BatchSize /\ r.doc \in Documents
        /\ Ordered(r) /\ Carries(r, content, raced)
    BY WorkersTyped, InHand DEF IInv, WorkersFine, Fine, SkipPartial
  <1>2. worker' = [worker EXCEPT ![w] = s]
    <2>1. worker \in [Workers -> WorkerStates]
      BY WorkersTyped DEF IInv
    <2> QED
      BY <2>1 DEF SkipPartial, NextSource
  <1>3. s = IF r.doc \in Artifacts THEN At("sources", r.batch, r.processed + 0)
            ELSE At("sermons", r.batch, 0)
    OBVIOUS
  <1>4. /\ Fault /\ UNCHANGED <<sourceVars, indexVars, raced, overlaid>>
        /\ lost' = lost \union {r.doc}
    BY DEF SkipPartial
  <1>5. lost \subseteq lost' /\ lost' \subseteq Documents /\ worker[w].doc \in {None, s.doc} \union lost'
    BY <1>1, <1>4 DEF IInv, TypeOK
  <1> HIDE DEF s, r
  <1>6. s \in WorkerStates /\ s.batch = r.batch /\ Fine(s, content, raced, chunks, overlaid)
    <2>1. 0 \in 0..1
      OBVIOUS
    <2> QED
      BY <1>1, <1>3, <2>1, GoingOn
  <1> QED
    BY <1>1, <1>2, <1>4, <1>5, <1>6, PassMoves

\* Another worker may replace the chunks only with the same text, and then the
\* document of a worker that was about to mark it is overlaid.
LEMMA ReplaceChunksKeeps ==
  ASSUME IInv, NEW w \in Workers, ReplaceChunks(w)
  PROVE  IInv'
  <1> USE DEF IInv, sourceVars
  <1> DEFINE doc == worker[w].doc
             new == [text |-> worker[w].text, by |-> w, embedded |-> FALSE]
  <1>1. doc \in Documents
    BY InHand DEF ReplaceChunks
  <1>2. PICK s \in WorkerStates :
          /\ worker' = [worker EXCEPT ![w] = s] /\ Len(s.batch) <= BatchSize
          /\ s.at = "storing" /\ s.doc = doc /\ s.text = worker[w].text
          /\ Ordered(s) /\ Carries(s, content, raced)
    BY Moved DEF ReplaceChunks
  <1>3. /\ chunks' = [chunks EXCEPT ![doc] = new]
        /\ overlaid' = overlaid \union
             {worker[v].doc : v \in {u \in Workers \ {w} : worker[u].at = "marking"
                                                          /\ worker[u].doc = doc}}
        /\ UNCHANGED <<sourceVars, content, status, raced, lost, faults>>
    BY DEF ReplaceChunks
  <1>4. doc \notin raced => worker[w].text = content[doc]
    BY <1>1, <1>2, KindsApart DEF Carries, Fresh
  <1>5. /\ chunks' \in [Documents -> [text : 0..MaxVersions, by : Workers \union {None},
                                   embedded : BOOLEAN]]
        /\ chunks'[doc].text = worker[w].text
        /\ \A d \in Documents : d # doc => chunks'[d] = chunks[d]
    <2>1. worker[w].text \in 0..MaxVersions
      BY WorkersTyped DEF WorkerStates
    <2> QED
      BY <1>1, <1>3, <2>1 DEF TypeOK
  <1> HIDE DEF doc, new
  <1>6. overlaid' \subseteq Documents /\ overlaid \subseteq overlaid'
    BY <1>1, <1>3 DEF TypeOK
  <1>7. ASSUME NEW v \in Workers \ {w}
        PROVE  Wrote(worker[v], content, raced, chunks', overlaid')
    <2>1. /\ Wrote(worker[v], content, raced, chunks, overlaid) /\ Ordered(worker[v])
          /\ worker[v] \in WorkerStates
      BY WorkersTyped DEF WorkersFine, Fine
    <2>2. CASE worker[v].doc = doc
      <3>1. worker[v].at = "marking" => worker[v].doc \in overlaid'
        BY <1>3, <2>2
      <3> QED
        BY <1>4, <1>5, <2>2, <3>1 DEF Wrote
    <2>3. CASE worker[v].doc # doc
      <3>1. worker[v].at \in {"storing", "marking"} => worker[v].doc \in Documents
        BY <2>1 DEF Ordered, WorkerStates
      <3>2. worker[v].doc \in Documents => chunks'[worker[v].doc] = chunks[worker[v].doc]
        BY <1>5, <2>3
      <3> QED
        BY <1>6, <2>1, <3>1, <3>2 DEF Wrote
    <2> QED
      BY <2>2, <2>3
  <1>8. Fine(s, content', raced, chunks', overlaid')
    BY <1>2, <1>3, <1>4, <1>5 DEF Fine, Wrote
  <1>9. /\ worker' \in [Workers -> WorkerStates]
        /\ \A v \in Workers : Len(worker'[v].batch) <= BatchSize
        /\ worker'[w] = s /\ \A v \in Workers \ {w} : worker'[v] = worker[v]
        /\ WorkersFine'
    BY <1>2, <1>3, <1>7, <1>8, WorkerMoves
  <1>10. TypeOK'
    BY <1>3, <1>5, <1>6, <1>9, Typed DEF TypeOK
  <1>11. Rows'
    BY <1>3 DEF Rows
  <1>12. Embedded'
    <2> DEFINE D == {}
    <2>1. D \in SUBSET Documents /\ worker[w].doc \in {None, s.doc} \union D /\ \A d \in D : FALSE
      BY <1>2 DEF doc
    <2>2. \A d \in Documents \ (D \union {s.doc}) :
             (status'[d] = "INDEXED" => status[d] = "INDEXED") /\ chunks'[d] = chunks[d]
      BY <1>2, <1>3, <1>5
    <2>3. overlaid \subseteq overlaid' /\ lost \subseteq lost' /\ Embedded /\ TypeOK
      BY <1>2, <1>3, <1>6
    <2> HIDE DEF D
    <2> QED
      BY <1>9, <2>1, <2>2, <2>3, StillEmbedded
  <1>13. IndexedIsCurrent'
    BY <1>3, <1>4, <1>5 DEF IndexedIsCurrent
  <1> QED
    BY <1>9, <1>10, <1>11, <1>12, <1>13

LEMMA StoreEmbeddingsKeeps ==
  ASSUME IInv, NEW w \in Workers, StoreEmbeddings(w)
  PROVE  IInv'
  <1> USE DEF IInv, sourceVars, history
  <1> DEFINE doc == worker[w].doc
  <1>1. doc \in Documents
    BY InHand DEF StoreEmbeddings
  <1>2. PICK s \in WorkerStates :
          /\ worker' = [worker EXCEPT ![w] = s] /\ Len(s.batch) <= BatchSize
          /\ s.at = "marking" /\ s.doc = doc
          /\ Ordered(s) /\ Carries(s, content, raced)
    BY Moved DEF StoreEmbeddings
  <1>3. /\ chunks' = [chunks EXCEPT ![doc].embedded = TRUE]
        /\ UNCHANGED <<kind, ready, archived, content, status, raced, overlaid, lost, faults>>
    BY DEF StoreEmbeddings
  <1>4. /\ chunks' \in [Documents -> [text : 0..MaxVersions, by : Workers \union {None},
                                   embedded : BOOLEAN]]
        /\ chunks'[doc].embedded = TRUE
        /\ \A d \in Documents : chunks'[d].text = chunks[d].text
        /\ \A d \in Documents : d # doc => chunks'[d] = chunks[d]
    BY <1>1, <1>3 DEF TypeOK
  <1>5. doc \notin raced => chunks[doc].text = content[doc]
    BY DEF StoreEmbeddings, WorkersFine, Fine, Wrote
  <1> HIDE DEF doc
  <1>6. ASSUME NEW v \in Workers \ {w}
        PROVE  Wrote(worker[v], content, raced, chunks', overlaid')
    <2>1. /\ Wrote(worker[v], content, raced, chunks, overlaid) /\ Ordered(worker[v])
          /\ worker[v] \in WorkerStates
      BY WorkersTyped DEF WorkersFine, Fine
    <2>2. worker[v].at \in {"storing", "marking"} => worker[v].doc \in Documents
      BY <2>1 DEF Ordered, WorkerStates
    <2> QED
      BY <1>3, <1>4, <2>1, <2>2 DEF Wrote
  <1>7. Fine(s, content', raced, chunks', overlaid')
    BY <1>1, <1>2, <1>3, <1>4, <1>5 DEF Fine, Wrote
  <1>8. /\ worker' \in [Workers -> WorkerStates]
        /\ \A v \in Workers : Len(worker'[v].batch) <= BatchSize
        /\ worker'[w] = s /\ \A v \in Workers \ {w} : worker'[v] = worker[v]
        /\ WorkersFine'
    BY <1>2, <1>3, <1>6, <1>7, WorkerMoves
  <1>9. TypeOK'
    BY <1>3, <1>4, <1>8, Typed DEF TypeOK
  <1>10. Rows' /\ IndexedIsCurrent'
    BY <1>3, <1>4 DEF Rows, IndexedIsCurrent
  <1>11. Embedded'
    <2> DEFINE D == {}
    <2>1. D \in SUBSET Documents /\ worker[w].doc \in {None, s.doc} \union D /\ \A d \in D : FALSE
      BY <1>2 DEF doc
    <2>2. \A d \in Documents \ (D \union {s.doc}) :
             (status'[d] = "INDEXED" => status[d] = "INDEXED") /\ chunks'[d] = chunks[d]
      BY <1>2, <1>3, <1>4
    <2>3. overlaid \subseteq overlaid' /\ lost \subseteq lost' /\ Embedded /\ TypeOK
      BY <1>3
    <2> HIDE DEF D
    <2> QED
      BY <1>8, <2>1, <2>2, <2>3, StillEmbedded
  <1> QED
    BY <1>8, <1>9, <1>10, <1>11

-----------------------------------------------------------------------------
(* The theorems *)

LEMMA Step ==
  ASSUME IInv, [Next]_vars
  PROVE  IInv'
  <1>1. CASE UNCHANGED vars
    BY <1>1, SourceStep DEF vars, sourceVars, indexVars, history, IInv, TypeOK
  <1>2. ASSUME NEW a \in Artifacts, BecomeReady(a) \/ Withdraw(a) \/ Archive(a)
        PROVE  IInv'
    <2>1. /\ UNCHANGED <<kind, chunks, worker, overlaid, lost, content, status, raced>>
          /\ ready' \subseteq Artifacts /\ archived' \subseteq Artifacts /\ (Fault \/ faults' = faults)
      BY <1>2 DEF BecomeReady, Withdraw, Archive, indexVars, history, IInv, TypeOK
    <2> QED
      BY <2>1, SourceStep
  <1>3. ASSUME NEW s \in Sermons, QueueSermon(s)
        PROVE  IInv'
    <2>1. /\ UNCHANGED <<kind, chunks, worker, overlaid, lost, faults>>
          /\ ready' \subseteq Artifacts /\ archived' \subseteq Artifacts
      BY <1>3 DEF QueueSermon, sourceVars, IInv, TypeOK
    <2> QED
      BY <1>3, <2>1, SourceStep
  <1>4. ASSUME NEW w \in Workers, WorkerStep(w) \/ Crash(w)
        PROVE  IInv'
    BY <1>4, FindSourcesKeeps, FindSermonsKeeps, UpsertKeeps, SkipSourceKeeps, TakeSermonKeeps,
       SkipPartialKeeps,
       MarksKeep, ReplaceChunksKeeps, StoreEmbeddingsKeeps, IndexErrorKeeps, CrashKeeps
       DEF WorkerStep
  <1> QED
    BY <1>1, <1>2, <1>3, <1>4 DEF Next

LEMMA Always == Spec => []IInv
  <1>1. IInv /\ [Next]_vars => IInv'
    BY Step
  <1> QED
    BY InitIsFine, <1>1, PTL DEF Spec

(* Every row, every batch and every document in hand keeps its type, and a *)
(* batch never holds more than the limit of its query.  (FindSources,      *)
(* FindSermons: ai-index.service findPending, findPendingSermons)          *)
THEOREM TypeCorrect == Spec => []TypeOK
  <1>1. IInv => TypeOK
    BY DEF IInv
  <1> QED
    BY Always, <1>1, PTL

(* However many workers index the same documents, and whatever fails: what *)
(* is INDEXED and in nobody's hands has chunks with embeddings, unless one *)
(* worker replaced them just before another marked the document, or        *)
(* crashed with it; and its chunks were made from the text on the row,     *)
(* unless the sermon got a new one while a worker had the old one.         *)
(* (ai-index.service indexSource, indexSermon, markIndexed; ai-vector      *)
(* replaceChunks, storeEmbeddings)                                         *)
THEOREM IndexedStaysFaithful == Spec => []IndexedIsFaithful
  <1>1. Embedded => IndexedIsSearchable
    BY Zenon DEF Embedded, IndexedIsSearchable, Searchable
  <1>2. IInv => IndexedIsFaithful
    BY <1>1 DEF IInv, IndexedIsFaithful
  <1> QED
    BY Always, <1>2, PTL

=============================================================================
