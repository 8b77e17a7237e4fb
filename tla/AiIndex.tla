------------------------------- MODULE AiIndex -------------------------------
(***************************************************************************)
(* The search index (modules/ai): workers look for artifacts and sermons   *)
(* that are not indexed and replace their chunks and embeddings, while the *)
(* sources change.  The query that finds them takes no lock.               *)
(*                                                                         *)
(* Each transaction is one step, the calls of storage and of the embedding *)
(* provider belong to the step that follows them.  A text is its version;  *)
(* chunks and vectors are what they were made from and by whom.            *)
(***************************************************************************)
EXTENDS Naturals, Sequences, FiniteSets

CONSTANTS
  Artifacts,   \* artifacts, numbered in the order of their creation
  Sermons,     \* sermons
  Workers,     \* processes that run an AiIndexRunner
  BatchSize,   \* aiWorker.batchSize
  None,        \* stands for no document and for no worker
  MaxVersions, \* bound on the transcripts of a sermon
  MaxFaults    \* bound on crashes and outages, of memory's workers too

ASSUME ArtifactsNumbered == Artifacts \subseteq Nat
ASSUME SermonsDistinct == Sermons \intersect Artifacts = {}
ASSUME BatchSizePositive == BatchSize \in Nat \ {0}
ASSUME MaxVersionsPositive == MaxVersions \in Nat \ {0}
ASSUME MaxFaultsNat == MaxFaults \in Nat
ASSUME NoneDistinct == None \notin Artifacts \union Sermons \union Workers

Documents == Artifacts \union Sermons

VARIABLES
  kind,     \* what an artifact holds: text, something that needs an extractor, or
            \* bytes that the storage has lost
  ready,    \* artifacts that are READY or PARTIAL and not archived
  archived, \* artifacts that are archived
  content,  \* the version of the text in each ai_documents row, 0 before the insert
  status,   \* ai_documents.status, "ABSENT" before the insert
  chunks,   \* ai_chunks of a document: their text, who wrote them, and whether they
            \* have embeddings
  worker,   \* each worker: where it is, the sources it has found, how many
            \* artifacts it has indexed in this pass, and the document and the text in hand
  raced,    \* sermons given a new text while a worker had the old one (history)
  overlaid, \* documents whose chunks one worker replaced when another had stored
            \* their embeddings and not yet marked them (history)
  lost,     \* documents that a worker had in hand when it crashed, or that it could not
            \* mark PARTIAL (history)
  faults    \* faults so far, at most MaxFaults

sourceVars == <<kind, ready, archived>>
indexVars == <<content, status, chunks>>
history == <<raced, overlaid, lost, faults>>
vars == <<sourceVars, indexVars, worker, history>>

Statuses == {"ABSENT", "PENDING", "PROCESSING", "INDEXED", "PARTIAL", "FAILED"}
Places == {"sources", "sermons", "partial", "chunking", "storing", "marking", "failing"}
Found == [doc : Documents, text : 1..MaxVersions]
NoChunks == [text |-> 0, by |-> None, embedded |-> FALSE]
At(place, batch, processed) ==
  [at |-> place, batch |-> batch, processed |-> processed, doc |-> None, text |-> 0]
EndOfPass == At("sermons", <<>>, 0)  \* and so before the next one

TypeOK ==
  /\ kind \in [Artifacts -> {"text", "other", "missing"}]
  /\ ready \subseteq Artifacts
  /\ archived \subseteq Artifacts
  /\ content \in [Documents -> 0..MaxVersions]
  /\ status \in [Documents -> Statuses]
  /\ chunks \in [Documents -> [text : 0..MaxVersions, by : Workers \union {None}, embedded : BOOLEAN]]
  /\ worker \in [Workers -> [at : Places, batch : Seq(Found), processed : 0..BatchSize,
                              doc : Documents \union {None}, text : 0..MaxVersions]]
  /\ \A w \in Workers : Len(worker[w].batch) <= BatchSize
  /\ raced \subseteq Sermons
  /\ overlaid \subseteq Documents
  /\ lost \subseteq Documents
  /\ faults \in 0..MaxFaults

Init ==
  /\ kind \in [Artifacts -> {"text", "other", "missing"}]
  /\ ready = {}
  /\ archived = {}
  /\ content = [d \in Documents |-> 0]
  /\ status = [d \in Documents |-> "ABSENT"]
  /\ chunks = [d \in Documents |-> NoChunks]
  /\ worker = [w \in Workers |-> EndOfPass]
  /\ raced = {}
  /\ overlaid = {}
  /\ lost = {}
  /\ faults = 0

Holds(w, d) == worker[w].doc = d \/ \E i \in DOMAIN worker[w].batch : worker[w].batch[i].doc = d
Fault == faults < MaxFaults /\ faults' = faults + 1
Idle(d) == \A w \in Workers : worker[w].doc # d

-----------------------------------------------------------------------------
(* Sources *)

\* The METADATA job of the artifact has run.
BecomeReady(a) ==
  /\ a \notin ready \union archived
  /\ ready' = ready \union {a}
  /\ UNCHANGED <<kind, archived, indexVars, worker, history>>

\* The METADATA job has used up its attempts although it, or a stage that is blocked,
\* had marked the artifact before.
Withdraw(a) ==
  /\ a \in ready /\ Fault
  /\ ready' = ready \ {a}
  /\ UNCHANGED <<kind, archived, indexVars, worker, raced, overlaid, lost>>

Archive(a) ==
  /\ a \notin archived
  /\ ready' = ready \ {a}
  /\ archived' = archived \union {a}
  /\ UNCHANGED <<kind, indexVars, worker, history>>

\* The INDEX stage of a sermon puts its transcript on the row, to be indexed.
QueueSermon(s) ==
  /\ content[s] < MaxVersions
  /\ content' = [content EXCEPT ![s] = @ + 1]
  /\ status' = [status EXCEPT ![s] = "PENDING"]
  /\ raced' = raced \union {t \in {s} : \E w \in Workers : Holds(w, t)}
  /\ UNCHANGED <<sourceVars, chunks, worker, overlaid, lost, faults>>

-----------------------------------------------------------------------------
(* Workers *)

\* Faulty variant: a document that failed once is not looked at again.
SettledFailed == {"INDEXED", "PARTIAL", "FAILED"}
Settled == {"INDEXED", "PARTIAL"}

\* A query with ORDER BY and LIMIT: the documents it may return, in their order
Limited(pending, limit) ==
  {found \in UNION {[1..n -> pending] : n \in 0..limit} :
     /\ \A i, j \in DOMAIN found : i # j => found[i] # found[j]
     /\ Len(found) = limit \/ pending = {found[i] : i \in DOMAIN found}}

Oldest(found, pending) ==
  /\ \A i, j \in DOMAIN found : i < j => found[i] < found[j]
  /\ \A a \in pending, i \in DOMAIN found : a < found[i] => \E j \in DOMAIN found : found[j] = a

\* findPending: the oldest first
FindSources(w) ==
  LET pending == {a \in ready : status[a] \notin Settled}
  IN /\ worker[w] = EndOfPass
     /\ \E found \in Limited(pending, BatchSize) :
          /\ Oldest(found, pending)
          /\ worker' = [worker EXCEPT ![w] =
               At("sources", [i \in DOMAIN found |-> [doc |-> found[i], text |-> 1]], 0)]
     /\ UNCHANGED <<sourceVars, indexVars, history>>

\* findPendingSermons, with what the limit leaves, but at least one; which are the
\* least recently updated is left open.
FindSermons(w) ==
  LET pending == {s \in Sermons : status[s] \in {"PENDING", "FAILED"}}
      left == IF worker[w].processed < BatchSize THEN BatchSize - worker[w].processed ELSE 1
  IN /\ worker[w].at = "sources" /\ worker[w].batch = <<>>
     /\ \E found \in Limited(pending, left) :
          worker' = [worker EXCEPT ![w] =
            At("sermons", [i \in DOMAIN found |-> [doc |-> found[i], text |-> content[found[i]]]], 0)]
     /\ UNCHANGED <<sourceVars, indexVars, history>>

\* The pass goes on with the next source, n more of them processed, or sermon.
NextSource(w, n) ==
  worker' = [worker EXCEPT ![w] = IF @.doc \in Artifacts THEN At("sources", @.batch, @.processed + n)
                                  ELSE At("sermons", @.batch, 0)]

Take(w, next) ==
  /\ worker[w].batch # <<>>
  /\ worker' = [worker EXCEPT ![w].at = next, ![w].batch = Tail(@),
                              ![w].doc = Head(worker[w].batch).doc,
                              ![w].text = Head(worker[w].batch).text]

\* indexSource has read the bytes; upsertDocument
Upsert(w) ==
  LET a == Head(worker[w].batch).doc
  IN /\ worker[w].at = "sources"
     /\ Take(w, IF kind[a] = "text" THEN "chunking" ELSE "partial")
     /\ kind[a] # "missing"
     /\ content' = [content EXCEPT ![a] = 1]
     /\ status' = [status EXCEPT ![a] = "PROCESSING"]
     /\ UNCHANGED <<sourceVars, chunks, history>>

\* storage.get or the upsert throws: only the loop of runOnce catches it.
SkipSource(w) ==
  /\ worker[w].at = "sources" /\ worker[w].batch # <<>>
  /\ IF kind[Head(worker[w].batch).doc] = "missing" THEN UNCHANGED faults ELSE Fault
  /\ worker' = [worker EXCEPT ![w].batch = Tail(@)]
  /\ UNCHANGED <<sourceVars, indexVars, raced, overlaid, lost>>

\* indexSermon works on the text that findPendingSermons returned.
TakeSermon(w) ==
  /\ worker[w].at = "sermons"
  /\ Take(w, "chunking")
  /\ UNCHANGED <<sourceVars, indexVars, history>>

\* Nothing can be read from it, and markPartial throws, which only that loop catches.
SkipPartial(w) ==
  /\ worker[w].at = "partial" /\ Fault
  /\ lost' = lost \union {worker[w].doc}
  /\ NextSource(w, 0)
  /\ UNCHANGED <<sourceVars, indexVars, raced, overlaid>>

MarkPartial(w) ==
  /\ worker[w].at = "partial"
  /\ status' = [status EXCEPT ![worker[w].doc] = "PARTIAL"]
  /\ NextSource(w, 1)
  /\ UNCHANGED <<sourceVars, content, chunks, history>>

Goto(w, next) == worker' = [worker EXCEPT ![w].at = next]

\* replaceChunks; the embeddings go with their chunks.
ReplaceChunks(w) ==
  /\ worker[w].at = "chunking"
  /\ chunks' = [chunks EXCEPT ![worker[w].doc] =
                  [text |-> worker[w].text, by |-> w, embedded |-> FALSE]]
  /\ overlaid' = overlaid \union
       {worker[v].doc : v \in {u \in Workers \ {w} : worker[u].at = "marking"
                                                    /\ worker[u].doc = worker[w].doc}}
  /\ Goto(w, "storing")
  /\ UNCHANGED <<sourceVars, content, status, raced, lost, faults>>

\* Faulty variant: embeddings are stored without looking whether their chunks
\* still exist.
StoreEmbeddingsLoose(w) ==
  /\ worker[w].at = "storing"
  /\ chunks' = [chunks EXCEPT ![worker[w].doc].embedded = (@ \/ chunks[worker[w].doc].by = w)]
  /\ Goto(w, "marking")
  /\ UNCHANGED <<sourceVars, content, status, history>>

\* storeEmbeddings: the foreign key wants the chunks that this worker wrote.
StoreEmbeddings(w) ==
  /\ worker[w].at = "storing" /\ chunks[worker[w].doc].by = w
  /\ chunks' = [chunks EXCEPT ![worker[w].doc].embedded = TRUE]
  /\ Goto(w, "marking")
  /\ UNCHANGED <<sourceVars, content, status, history>>

\* Faulty variant: the status of the contract for memory.
MarkIndexedReady(w) ==
  /\ worker[w].at = "marking"
  /\ status' = [status EXCEPT ![worker[w].doc] = "READY"]
  /\ NextSource(w, 1)
  /\ UNCHANGED <<sourceVars, content, chunks, history>>

MarkIndexed(w) ==
  /\ worker[w].at = "marking"
  /\ status' = [status EXCEPT ![worker[w].doc] = "INDEXED"]
  /\ NextSource(w, 1)
  /\ UNCHANGED <<sourceVars, content, chunks, history>>

\* The provider or the database refuses, or another worker has replaced the chunks;
\* one that is writing the same ordinals is an outage, too.
IndexError(w) ==
  /\ worker[w].at \in {"chunking", "storing", "marking"}
  /\ IF worker[w].at = "storing" /\ chunks[worker[w].doc].by # w THEN UNCHANGED faults ELSE Fault
  /\ Goto(w, "failing")
  /\ UNCHANGED <<sourceVars, indexVars, raced, overlaid, lost>>

\* markFailed, then the loop of runOnce
MarkFailed(w) ==
  /\ worker[w].at = "failing"
  /\ status' = [status EXCEPT ![worker[w].doc] = "FAILED"]
  /\ NextSource(w, 0)
  /\ UNCHANGED <<sourceVars, content, chunks, history>>

\* The process dies, or markFailed itself fails.
Crash(w) ==
  /\ worker[w] # EndOfPass /\ Fault
  /\ lost' = lost \union ({worker[w].doc} \ {None})
  /\ worker' = [worker EXCEPT ![w] = EndOfPass]
  /\ UNCHANGED <<sourceVars, indexVars, raced, overlaid>>

WorkerStep(w) ==
  \/ FindSources(w) \/ FindSermons(w) \/ Upsert(w) \/ SkipSource(w) \/ TakeSermon(w)
  \/ SkipPartial(w) \/ MarkPartial(w) \/ ReplaceChunks(w) \/ StoreEmbeddings(w) \/ MarkIndexed(w)
  \/ IndexError(w) \/ MarkFailed(w)

Next ==
  \/ \E a \in Artifacts : BecomeReady(a) \/ Withdraw(a) \/ Archive(a)
  \/ \E s \in Sermons : QueueSermon(s)
  \/ \E w \in Workers : WorkerStep(w) \/ Crash(w)

Spec == Init /\ [][Next]_vars

\* The timer fires, and an awaited call settles.
Fairness == \A w \in Workers : WF_vars(WorkerStep(w))

FairSpec == Spec /\ Fairness

-----------------------------------------------------------------------------
(* Properties *)

\* What is INDEXED and nobody works on can be searched: its chunks have embeddings
Searchable(d) == status[d] = "INDEXED" /\ Idle(d) => chunks[d].embedded

\* An indexed document is searchable ("re-running replaces the projection in place",
\* ai-index.service), unless a worker replaced its chunks just before another one
\* marked it, or crashed with it in hand.
IndexedIsSearchable == \A d \in Documents \ (overlaid \union lost) : Searchable(d)

\* What is INDEXED was made from the text on the row, unless the sermon got a new
\* one while a worker had the old one.
IndexedIsCurrent ==
  \A d \in Documents \ raced : status[d] = "INDEXED" => chunks[d].text = content[d]

\* What the index says of a source is so: INDEXED means that its present text can be
\* searched, but for the overlaps named above.
IndexedIsFaithful == IndexedIsSearchable /\ IndexedIsCurrent

\* It is indexed and can be searched.  A document is INDEXED without embeddings for good
\* if a worker replaced its chunks when another one was about to mark it, or just had,
\* and then failed or crashed.
InIndex(d) ==
  status[d] = "INDEXED" /\ (chunks[d].embedded \/ (d \in overlaid \union lost /\ faults > 0))

\* A document that can be indexed is: an artifact that is ready, a sermon with a text
Converged(d) ==
  IF d \in Artifacts THEN d \in ready /\ kind[d] = "text" => InIndex(d)
  ELSE status[d] = "ABSENT" \/ InIndex(d)

\* findPending starts with the oldest, and what cannot be read never settles: as many
\* of those as a batch has places keep every newer artifact out, although "one bad
\* source must not stall the pass" (ai-index.runner.ts:69).
CrowdedOut(d) ==
  d \in Artifacts /\ Cardinality({a \in ready : a < d /\ kind[a] = "missing"}) >= BatchSize

\* Two workers have found the same document, and may overtake each other with it.
Clash == \E v, w \in Workers, d \in Documents : v # w /\ Holds(v, d) /\ Holds(w, d)

\* "A crash mid-index ... converges on the same state on the next pass" (AiIndexService):
\* at no time is a document that can be indexed left out for good, whatever workers
\* failed, unless older artifacts that cannot be read take every place of the batch, or
\* the workers get in each other's way for ever, which nothing in the code rules out.
Converges == \A d \in Documents : []<>(Converged(d) \/ CrowdedOut(d) \/ Clash)
=============================================================================
