-------------------------- MODULE MembershipProofs --------------------------
(***************************************************************************)
(* Proofs about the two ways into a church: MemberImport, for any number   *)
(* of calls, of rows and of faults and for any size of a chunk, and        *)
(* Invitations, for any number of administrators' calls, of bearers, of    *)
(* tokens and of roles.  The two are not composed: each theorem is about   *)
(* the behaviours of one of them.                                          *)
(***************************************************************************)
EXTENDS MemberImport, Invitations, FiniteSetTheorems, TLAPS

-----------------------------------------------------------------------------
(* MemberImport: the inductive invariant *)

\* What a call has come to is imported.
ReachedImported == \A c \in Calls : Working(c) => 1..call[c].next \subseteq members

\* A row that made a member is one whose member is found: by the address or the
\* number if it has one, and these make one at most.
MadeFound ==
  \A i \in Rows :
    /\ made[i] > 0 => i \in members
    /\ i \in WithEmail \union WithPhone => made[i] <= 1

\* Without an overlap one call works on the job, it is where the job is except
\* between a chunk and its index, ...
OneAtWork ==
  ~overlapped =>
    \A c \in Calls : Working(c) =>
      /\ \A d \in Calls : Working(d) => c = d
      /\ call[c].next >= resumeIndex
      /\ call[c].at \notin {"recording", "failing"} => call[c].next = resumeIndex

\* ... and a row beyond the index that has made a member is in that chunk, or in one
\* that could not be recorded.
MadeRecorded ==
  ~overlapped =>
    \A i \in Rows : made[i] > 0 => i <= resumeIndex \/ i \in lost \/ \E c \in Calls : i \in Unrecorded(c)

-----------------------------------------------------------------------------
(* Chunks *)

\* A chunk is an interval, and what remains of the rows if it is the last one.
LEMMA ChunkLength ==
  ASSUME NEW n \in 0..RowCount
  PROVE  /\ Chunk(n) \subseteq Rows
         /\ Cardinality(Chunk(n)) \in Nat
         /\ n + Cardinality(Chunk(n)) \in n..RowCount
         /\ Chunk(n) = n + 1 .. n + Cardinality(Chunk(n))
<1> DEFINE end == IF n + ChunkSize < RowCount THEN n + ChunkSize ELSE RowCount
<1>1. end \in n..RowCount
  BY RowCountPositive, ChunkSizePositive
<1>2. Chunk(n) = n + 1 .. end
  BY RowCountPositive, ChunkSizePositive DEF Chunk, Rows
<1>3. Cardinality(n + 1 .. end) = end - n
  <2>1. n + 1 \in Int /\ end \in Int
    BY <1>1
  <2>2. Cardinality(n + 1 .. end) = IF n + 1 > end THEN 0 ELSE end - (n + 1) + 1
    BY <2>1, FS_Interval
  <2> QED
    BY <1>1, <2>2
<1> HIDE DEF end
<1>4. end \in Nat /\ end >= n /\ end <= RowCount
  BY <1>1, RowCountPositive
<1>5. Cardinality(Chunk(n)) = end - n
  BY <1>2, <1>3
<1>6. n + Cardinality(Chunk(n)) = end
  BY <1>4, <1>5
<1> QED
  BY <1>2, <1>4, <1>5, <1>6, RowCountPositive DEF Rows

-----------------------------------------------------------------------------
(* Type correctness *)

LEMMA TypeInit ==
  ASSUME Init
  PROVE  TypeOK
<1>1. status \in Statuses /\ 0 \in 0..RowCount /\ faults \in 0..MaxFaults
  BY RowCountPositive, MaxFaultsNat DEF Init, Statuses
<1>2. /\ accounts \subseteq WithEmail
      /\ taken \subseteq (WithEmail \ accounts) \union WithPhone
      /\ members \subseteq Rows /\ members \intersect WithEmail \subseteq accounts
      /\ lost \subseteq Rows
  BY WithEmailRows DEF Init, Rows
<1>3. resumeIndex \in 0..RowCount
  BY <1>1 DEF Init
<1>4. made \in [Rows -> Nat]
  BY DEF Init
<1>5. call \in [Calls -> [at : Places, next : 0..RowCount]]
  BY <1>1 DEF Init, Places
<1>6. overlapped \in BOOLEAN
  <2>1. overlapped = FALSE
    BY DEF Init
  <2> QED
    BY <2>1
<1> QED
  BY <1>1, <1>2, <1>3, <1>4, <1>5, <1>6 DEF TypeOK

LEMMA ApplyType ==
  ASSUME TypeOK, NEW c \in Calls, Apply(c)
  PROVE  TypeOK'
<1> DEFINE n == call[c].next
           chunk == Chunk(n)
<1>1. n \in 0..RowCount
  BY DEF TypeOK
<1>2. chunk \subseteq Rows /\ n + Cardinality(chunk) \in 0..RowCount
  <2>1. /\ Chunk(n) \subseteq Rows
        /\ n + Cardinality(Chunk(n)) \in n..RowCount
    BY <1>1, ChunkLength
  <2> QED
    BY <1>1, <2>1, RowCountPositive
<1>3. taken \intersect chunk = {}
  BY DEF Apply, Clashes
<1>4. \/ /\ call' = [call EXCEPT ![c] = [at |-> "recording", next |-> n + Cardinality(chunk)]]
         /\ UNCHANGED <<lost, faults>>
      \/ /\ call' = [call EXCEPT ![c].at = "failing"]
         /\ faults < MaxFaults /\ faults' = faults + 1 /\ lost' = lost \union chunk
  BY DEF Apply, Goes, Fault
<1> HIDE DEF n, chunk
<1>5. call' \in [Calls -> [at : Places, next : 0..RowCount]]
  BY <1>2, <1>4 DEF TypeOK, Places
<1>5a. lost' \subseteq Rows /\ faults' \in 0..MaxFaults
  BY <1>2, <1>4, MaxFaultsNat DEF TypeOK
<1>6. /\ accounts' = accounts \union (chunk \intersect WithEmail)
      /\ members' = members \union chunk
      /\ made' = [i \in Rows |-> IF i \in Unlinked(chunk) THEN made[i] + 1 ELSE made[i]]
      /\ UNCHANGED <<jobVars, taken, overlapped>>
  BY DEF Apply, n, chunk
<1>7. made' \in [Rows -> Nat]
  BY <1>6 DEF TypeOK
<1> QED
  BY <1>2, <1>3, <1>5, <1>5a, <1>6, <1>7 DEF TypeOK, jobVars

LEMMA TypeNext ==
  ASSUME TypeOK, [Next]_vars
  PROVE  TypeOK'
<1> USE RowCountPositive, MaxFaultsNat DEF jobVars, people, history, Fault, Goes, Ends, Statuses,
                                           Places
<1>1. CASE UNCHANGED vars
  BY <1>1 DEF vars, TypeOK
<1>2. ASSUME NEW c \in Calls, Begin(c)
      PROVE  TypeOK'
  BY <1>2 DEF Begin, TypeOK
<1>3. ASSUME NEW c \in Calls, Start(c)
      PROVE  TypeOK'
  BY <1>3 DEF Start, TypeOK
<1>4. ASSUME NEW c \in Calls, Apply(c)
      PROVE  TypeOK'
  BY <1>4, ApplyType
<1>5. ASSUME NEW c \in Calls, Record(c)
      PROVE  TypeOK'
  BY <1>5 DEF Record, TypeOK
<1>6. ASSUME NEW c \in Calls, Complete(c)
      PROVE  TypeOK'
  BY <1>6 DEF Complete, TypeOK
<1>7. ASSUME NEW c \in Calls, Audit(c)
      PROVE  TypeOK'
  BY <1>7 DEF Audit, TypeOK
<1>8. ASSUME NEW c \in Calls, Throw(c)
      PROVE  TypeOK'
  BY <1>8 DEF Throw, TypeOK
<1>9. ASSUME NEW c \in Calls, Catch(c)
      PROVE  TypeOK'
  <2>1. Unrecorded(c) \subseteq Rows
    BY DEF Unrecorded, TypeOK, Rows
  <2> QED
    BY <1>9, <2>1 DEF Catch, Partial, TypeOK
<1>10. ASSUME NEW c \in Calls, Crash(c)
       PROVE  TypeOK'
  <2>1. Unrecorded(c) \subseteq Rows
    BY DEF Unrecorded, TypeOK, Rows
  <2> QED
    BY <1>10, <2>1 DEF Crash, TypeOK
<1> QED
  BY <1>1, <1>2, <1>3, <1>4, <1>5, <1>6, <1>7, <1>8, <1>9, <1>10 DEF Next

(* Every variable of the job, of its calls and of the people it makes      *)
(* keeps its type: no call comes to an index beyond the rows, and nobody   *)
(* becomes a member without an account.  (commit, applyChunk)              *)
THEOREM TypeCorrect == Spec => []TypeOK
<1>1. TypeOK /\ [Next]_vars => TypeOK'
  BY TypeNext
<1>2. Init => TypeOK
  BY TypeInit
<1> QED
  BY <1>1, <1>2, PTL DEF Spec

-----------------------------------------------------------------------------
(* A retry resumes where the job stopped *)

\* The parts of the invariant that relate the job, its calls and the rows
Parts == ReachedImported /\ MadeFound /\ OneAtWork /\ MadeRecorded /\ ResumesWhereItStopped

LEMMA PartsInit ==
  ASSUME Init
  PROVE  Parts
<1>1. \A c \in Calls : ~Working(c)
  BY DEF Init, Working
<1>2. resumeIndex = 0 /\ status = "READY" /\ \A i \in Rows : made[i] = 0
  BY DEF Init
<1>3. 1..resumeIndex = {}
  BY <1>2
<1> QED
  BY <1>1, <1>2, <1>3
     DEF Parts, ReachedImported, MadeFound, OneAtWork, MadeRecorded, ResumesWhereItStopped

\* Who has rows that are not recorded is at work.
LEMMA UnrecordedWorks ==
  ASSUME NEW c \in Calls, NEW i, i \in Unrecorded(c)
  PROVE  Working(c) /\ call[c].at \in {"recording", "failing"} /\ i \in resumeIndex + 1 .. call[c].next
  BY DEF Unrecorded, Working

\* Steps that change the call only
LEMMA MoveParts ==
  ASSUME TypeOK, Parts, NEW c \in Calls, Working(c),
         UNCHANGED <<resumeIndex, people, history>>,
         status' = "COMPLETED" => status = "COMPLETED" \/ call[c].next = RowCount,
         NEW place \in Places, Goes(c, place), place \notin {"new", "done"},
         call[c].at \in {"recording", "failing"} => place \in {"recording", "failing"}
  PROVE  Parts'
<1> USE DEF people, history
<1>1. \A d \in Calls : /\ Working(d)' <=> Working(d)
                       /\ call'[d].next = call[d].next
                       /\ d # c => call'[d].at = call[d].at
                       /\ call'[c].at = place
  BY DEF Goes, Working, TypeOK
<1>2. ReachedImported'
  BY <1>1 DEF Parts, ReachedImported
<1>3. MadeFound'
  BY DEF Parts, MadeFound
<1>4. OneAtWork'
  BY <1>1 DEF Parts, OneAtWork
<1>5. \A d \in Calls : Unrecorded(d) \subseteq Unrecorded(d)'
  BY <1>1 DEF Unrecorded
<1>6. MadeRecorded'
  BY <1>5 DEF Parts, MadeRecorded
<1>7. status' = "COMPLETED" => Rows \subseteq members
  BY DEF Parts, ReachedImported, ResumesWhereItStopped, Rows
<1>8. ResumesWhereItStopped'
  BY <1>7 DEF Parts, ResumesWhereItStopped
<1> QED
  BY <1>2, <1>3, <1>4, <1>6, <1>8 DEF Parts

\* Steps after which the call is over
LEMMA EndParts ==
  ASSUME TypeOK, Parts, NEW c \in Calls, Working(c), Ends(c),
         UNCHANGED people, UNCHANGED overlapped,
         status' = "COMPLETED" => status = "COMPLETED",
         resumeIndex' \in 0..RowCount, 1..resumeIndex' \subseteq members,
         ~overlapped => resumeIndex' >= resumeIndex,
         lost \subseteq lost',
         ~overlapped => \A i \in Unrecorded(c) : i <= resumeIndex' \/ i \in lost'
  PROVE  Parts'
<1> USE DEF people
<1>1. \A d \in Calls : Working(d)' => Working(d) /\ d # c /\ call'[d] = call[d]
  BY DEF Ends, Working, TypeOK
<1>2. ~overlapped => \A d \in Calls : ~Working(d)'
  BY <1>1 DEF Parts, OneAtWork
<1>3. ReachedImported'
  BY <1>1 DEF Parts, ReachedImported
<1>4. MadeFound'
  BY DEF Parts, MadeFound
<1>5. OneAtWork'
  BY <1>2 DEF OneAtWork
<1>6. MadeRecorded'
  <2> SUFFICES ASSUME ~overlapped, NEW i \in Rows, made[i] > 0
               PROVE  i <= resumeIndex' \/ i \in lost'
    BY DEF MadeRecorded
  <2>1. i <= resumeIndex \/ i \in lost \/ \E d \in Calls : i \in Unrecorded(d)
    BY DEF Parts, MadeRecorded
  <2>2. CASE i <= resumeIndex
    BY <2>2 DEF Rows, TypeOK
  <2>3. ASSUME NEW d \in Calls, i \in Unrecorded(d)
        PROVE  i \in Unrecorded(c)
    BY <2>3, UnrecordedWorks DEF Parts, OneAtWork
  <2> QED
    BY <2>1, <2>2, <2>3
<1>7. ResumesWhereItStopped'
  BY DEF Parts, ResumesWhereItStopped
<1> QED
  BY <1>3, <1>4, <1>5, <1>6, <1>7 DEF Parts

LEMMA BeginParts ==
  ASSUME TypeOK, Parts, NEW c \in Calls, Begin(c)
  PROVE  Parts'
<1> USE DEF jobVars, people
<1>1. /\ ~Working(c) /\ Working(c)'
      /\ call'[c].at = "starting" /\ call'[c].next = resumeIndex
      /\ \A d \in Calls : d # c => call'[d] = call[d]
  BY DEF Begin, Working, TypeOK
<1>2. \A d \in Calls : d # c => (Working(d)' <=> Working(d))
  BY <1>1 DEF Working
<1>3. UNCHANGED <<status, resumeIndex, accounts, taken, members, made, lost>>
  BY DEF Begin
<1>4. ReachedImported'
  BY <1>1, <1>2, <1>3 DEF Parts, ReachedImported, ResumesWhereItStopped
<1>5. MadeFound'
  BY <1>3 DEF Parts, MadeFound
<1>6. ~overlapped' => ~overlapped /\ \A d \in Calls : ~Working(d)
  BY DEF Begin, TypeOK
<1>7. OneAtWork'
  BY <1>1, <1>2, <1>3, <1>6 DEF OneAtWork, TypeOK
<1>8. MadeRecorded'
  BY <1>3, <1>6, UnrecordedWorks DEF Parts, MadeRecorded
<1>9. ResumesWhereItStopped'
  BY <1>3, <1>6 DEF Parts, ResumesWhereItStopped, TypeOK
<1> QED
  BY <1>4, <1>5, <1>7, <1>8, <1>9 DEF Parts

LEMMA ApplyParts ==
  ASSUME TypeOK, Parts, NEW c \in Calls, Apply(c)
  PROVE  Parts'
<1> DEFINE n == call[c].next
           chunk == Chunk(n)
           end == n + Cardinality(chunk)
<1>1. n \in 0..RowCount /\ call[c].at = "looping" /\ Working(c)
  BY DEF TypeOK, Apply, Working
<1>2. chunk \subseteq Rows /\ end \in n..RowCount /\ chunk = n + 1 .. end
  BY <1>1, ChunkLength
<1>3. /\ members' = members \union chunk
      /\ made' = [i \in Rows |-> IF i \in Unlinked(chunk) THEN made[i] + 1 ELSE made[i]]
      /\ \/ /\ call' = [call EXCEPT ![c] = [at |-> "recording", next |-> end]]
            /\ lost' = lost
         \/ /\ call' = [call EXCEPT ![c].at = "failing"]
            /\ lost' = lost \union chunk
      /\ \A i \in chunk : ~Clashes(i)
      /\ UNCHANGED <<status, resumeIndex, overlapped>>
  BY DEF Apply, jobVars, Goes
<1>4. 1..n \subseteq members
  BY <1>1 DEF Parts, ReachedImported
<1>5. ~overlapped => n = resumeIndex /\ \A d \in Calls : Working(d) => d = c
  BY <1>1 DEF Parts, OneAtWork
<1> HIDE DEF n, chunk, end
<1>6. n \in Nat /\ end \in Nat /\ end >= n /\ resumeIndex \in Nat
  BY <1>1, <1>2, RowCountPositive DEF TypeOK
<1>7. \A d \in Calls : d # c => call'[d] = call[d] /\ (Working(d)' <=> Working(d))
  BY <1>3 DEF Working, TypeOK
<1>8. \/ call'[c].at = "recording" /\ call'[c].next = end /\ lost' = lost
      \/ call'[c].at = "failing" /\ call'[c].next = n /\ lost' = lost \union chunk
  <2>1. call[c].next = n
    BY DEF n
  <2> QED
    BY <1>3, <2>1 DEF TypeOK
<1>9. 1..end \subseteq members' /\ 1..n \subseteq members'
  BY <1>2, <1>3, <1>4, <1>6
<1>10. \A i \in Rows : made[i] \in Nat /\ i \in Nat
  BY DEF TypeOK, Rows
<1>11. \A i \in Rows : \/ made'[i] = made[i]
                       \/ i \in chunk /\ i \in Unlinked(chunk) /\ made'[i] = made[i] + 1
  <2>1. Unlinked(chunk) \subseteq chunk
    BY DEF Unlinked
  <2>2. \A i \in Rows : made'[i] = IF i \in Unlinked(chunk) THEN made[i] + 1 ELSE made[i]
    BY <1>3
  <2> TAKE i \in Rows
  <2>3. CASE i \in Unlinked(chunk)
    BY <2>1, <2>2, <2>3
  <2>4. CASE i \notin Unlinked(chunk)
    BY <2>2, <2>4
  <2> QED
    BY <2>3, <2>4
<1>12. ReachedImported'
  BY <1>3, <1>7, <1>8, <1>9 DEF Parts, ReachedImported
<1>13. MadeFound'
  <2> SUFFICES ASSUME NEW i \in Rows
               PROVE  /\ made'[i] > 0 => i \in members'
                      /\ i \in WithEmail \union WithPhone => made'[i] <= 1
    BY DEF MadeFound
  <2>1. CASE made'[i] = made[i]
    BY <2>1, <1>3 DEF Parts, MadeFound
  <2>2. CASE i \in chunk /\ i \in Unlinked(chunk) /\ made'[i] = made[i] + 1
    <3>1. i \in WithEmail \union WithPhone => i \notin members
      BY <2>2, <1>3 DEF Unlinked, Clashes
    <3>2. i \in WithEmail \union WithPhone => made[i] = 0
      BY <3>1, <1>10 DEF Parts, MadeFound
    <3> QED
      BY <2>2, <3>2, <1>3
  <2> QED
    BY <1>11, <2>1, <2>2
<1>14. OneAtWork'
  BY <1>3, <1>5, <1>6, <1>7, <1>8 DEF OneAtWork
<1>15. ~overlapped => \A i \in Rows : made[i] > 0 => i <= resumeIndex \/ i \in lost
  <2> SUFFICES ASSUME ~overlapped, NEW i \in Rows, made[i] > 0, NEW d \in Calls, i \in Unrecorded(d)
               PROVE  FALSE
    BY DEF Parts, MadeRecorded
  <2> QED
    BY UnrecordedWorks, <1>1, <1>5
<1>16. ~overlapped => \A i \in chunk : i \in Unrecorded(c)' \/ i \in lost'
  BY <1>2, <1>3, <1>5, <1>6, <1>8 DEF Unrecorded
<1>17. MadeRecorded'
  BY <1>3, <1>8, <1>11, <1>15, <1>16 DEF MadeRecorded
<1>18. \A i \in Rows : made'[i] > 1 => i \in lost \/ overlapped
  <2> SUFFICES ASSUME NEW i \in Rows, made'[i] > 1, ~overlapped
               PROVE  i \in lost
    OBVIOUS
  <2>1. CASE made'[i] = made[i]
    BY <2>1 DEF Parts, ResumesWhereItStopped
  <2>2. CASE i \in chunk /\ made'[i] = made[i] + 1
    <3>1. i > resumeIndex
      BY <2>2, <1>2, <1>5, <1>6
    <3>2. made[i] > 0
      BY <2>2, <1>10
    <3> QED
      BY <3>1, <3>2, <1>15, <1>6, <1>10
  <2> QED
    BY <1>11, <2>1, <2>2
<1>19. \A i \in Rows : made'[i] > 1 => i \notin WithEmail \union WithPhone
  <2>1. \A i \in Rows : made'[i] \in Nat
    BY <1>10, <1>11
  <2> QED
    BY <1>13, <2>1 DEF MadeFound
<1>20. ResumesWhereItStopped'
  BY <1>3, <1>8, <1>18, <1>19 DEF Parts, ResumesWhereItStopped
<1> QED
  BY <1>12, <1>13, <1>14, <1>17, <1>20 DEF Parts

LEMMA RecordParts ==
  ASSUME TypeOK, Parts, NEW c \in Calls, Record(c)
  PROVE  Parts'
<1> USE DEF people, history
<1>1. /\ Working(c) /\ Working(c)' /\ call[c].at = "recording" /\ call'[c].at = "looping"
      /\ call'[c].next = call[c].next /\ resumeIndex' = call[c].next
      /\ \A d \in Calls : d # c => call'[d] = call[d]
  BY DEF Record, Goes, Working, TypeOK
<1>2. \A d \in Calls : /\ Working(d)' <=> Working(d)
                       /\ call'[d].next = call[d].next
  BY <1>1 DEF Working
<1>3. UNCHANGED <<status, accounts, taken, members, made, lost, overlapped>>
  BY DEF Record
<1>4. ReachedImported'
  BY <1>2, <1>3 DEF Parts, ReachedImported
<1>5. MadeFound'
  BY <1>3 DEF Parts, MadeFound
<1>6. ~overlapped => call[c].next >= resumeIndex /\ \A d \in Calls : Working(d) => d = c
  BY <1>1 DEF Parts, OneAtWork
<1>7. resumeIndex \in Nat /\ call[c].next \in Nat
  BY RowCountPositive DEF TypeOK
<1>8. OneAtWork'
  BY <1>1, <1>2, <1>3, <1>6, <1>7 DEF OneAtWork
<1>9. MadeRecorded'
  <2> SUFFICES ASSUME ~overlapped, NEW i \in Rows, made[i] > 0, i \notin lost
               PROVE  i <= call[c].next
    BY <1>1, <1>3 DEF MadeRecorded
  <2>1. CASE i <= resumeIndex
    BY <2>1, <1>6, <1>7 DEF Rows
  <2>2. ASSUME NEW d \in Calls, i \in Unrecorded(d)
        PROVE  i <= call[c].next
    BY <2>2, <1>6, UnrecordedWorks
  <2> QED
    BY <2>1, <2>2 DEF Parts, MadeRecorded
<1>10. 1..call[c].next \subseteq members
  BY <1>1 DEF Parts, ReachedImported
<1>11. ResumesWhereItStopped'
  BY <1>1, <1>3, <1>10 DEF Parts, ResumesWhereItStopped
<1> QED
  BY <1>4, <1>5, <1>8, <1>9, <1>11 DEF Parts

LEMMA CatchParts ==
  ASSUME TypeOK, Parts, NEW c \in Calls, Catch(c)
  PROVE  Parts'
<1>1. Working(c) /\ Ends(c) /\ UNCHANGED people /\ UNCHANGED overlapped
  BY DEF Catch, Working
<1>2. call[c].next \in 0..RowCount /\ 1..call[c].next \subseteq members
  BY <1>1 DEF Parts, ReachedImported, TypeOK
<1>3. resumeIndex \in 0..RowCount /\ 1..resumeIndex \subseteq members
  BY DEF Parts, ResumesWhereItStopped, TypeOK
<1>4. CASE Partial(call[c].next) /\ UNCHANGED <<lost, faults>>
  <2>1. status' = "PARTIAL" /\ resumeIndex' = call[c].next /\ lost' = lost
    BY <1>4 DEF Partial
  <2>2. ~overlapped => call[c].next >= resumeIndex
    BY <1>1 DEF Parts, OneAtWork
  <2>3. \A i \in Unrecorded(c) : i <= call[c].next
    BY UnrecordedWorks
  <2> QED
    BY <1>1, <1>2, <2>1, <2>2, <2>3, EndParts
<1>5. CASE Fault /\ lost' = lost \union Unrecorded(c) /\ UNCHANGED jobVars
  <2>1. resumeIndex' = resumeIndex /\ status' = status /\ lost \subseteq lost' /\ Unrecorded(c) \subseteq lost'
    BY <1>5 DEF jobVars
  <2>2. resumeIndex >= resumeIndex
    BY <1>3
  <2> QED
    BY <1>1, <1>3, <2>1, <2>2, EndParts
<1> QED
  BY <1>4, <1>5 DEF Catch

LEMMA CrashParts ==
  ASSUME TypeOK, Parts, NEW c \in Calls, Crash(c)
  PROVE  Parts'
<1>1. /\ Working(c) /\ Ends(c) /\ UNCHANGED people /\ UNCHANGED overlapped
      /\ resumeIndex' = resumeIndex /\ status' = status
      /\ lost \subseteq lost' /\ Unrecorded(c) \subseteq lost'
  BY DEF Crash, jobVars
<1>2. resumeIndex \in 0..RowCount /\ 1..resumeIndex \subseteq members
  BY DEF Parts, ResumesWhereItStopped, TypeOK
<1>3. resumeIndex >= resumeIndex
  BY <1>2
<1> QED
  BY <1>1, <1>2, <1>3, EndParts

LEMMA PartsNext ==
  ASSUME TypeOK, Parts, [Next]_vars
  PROVE  Parts'
<1>0. ASSUME NEW c \in Calls, UNCHANGED <<jobVars, people, overlapped, lost>>, Working(c), Ends(c),
             call[c].at \notin {"recording", "failing"}
      PROVE  Parts'
  <2>1. resumeIndex \in 0..RowCount /\ 1..resumeIndex \subseteq members
    BY DEF Parts, ResumesWhereItStopped, TypeOK
  <2>2. Unrecorded(c) = {} /\ resumeIndex >= resumeIndex
    BY <1>0, <2>1 DEF Unrecorded
  <2> QED
    BY <1>0, <2>1, <2>2, EndParts DEF jobVars
<1>1. CASE UNCHANGED vars
  BY <1>1 DEF vars, jobVars, people, history, Parts, ReachedImported, MadeFound, OneAtWork,
              MadeRecorded, ResumesWhereItStopped, Working, Unrecorded
<1>2. ASSUME NEW c \in Calls, Begin(c)
      PROVE  Parts'
  BY <1>2, BeginParts
<1>3. ASSUME NEW c \in Calls, Start(c)
      PROVE  Parts'
  <2>1. CASE status' = "IMPORTING" /\ Goes(c, "looping") /\ UNCHANGED faults
    <3>1. Working(c) /\ UNCHANGED <<resumeIndex, people, history>> /\ call[c].at = "starting"
      BY <1>3 DEF Start, Working
    <3>2. "looping" \in Places
      BY DEF Places
    <3> QED
      BY <2>1, <3>1, <3>2, MoveParts
  <2>2. CASE Fault /\ Ends(c) /\ UNCHANGED status
    <3>1. Working(c) /\ UNCHANGED <<resumeIndex, people, overlapped, lost>> /\ call[c].at = "starting"
      BY <1>3 DEF Start, Working, history
    <3> QED
      BY <1>0, <2>2, <3>1 DEF jobVars
  <2> QED
    BY <1>3, <2>1, <2>2 DEF Start
<1>4. ASSUME NEW c \in Calls, Apply(c)
      PROVE  Parts'
  BY <1>4, ApplyParts
<1>5. ASSUME NEW c \in Calls, Record(c)
      PROVE  Parts'
  BY <1>5, RecordParts
<1>6. ASSUME NEW c \in Calls, Complete(c)
      PROVE  Parts'
  <2>1. /\ Working(c) /\ UNCHANGED <<resumeIndex, people, history>> /\ call[c].at = "looping"
        /\ call[c].next = RowCount /\ Goes(c, "auditing")
    BY <1>6 DEF Complete, Working
  <2>2. "auditing" \in Places
    BY DEF Places
  <2> QED
    BY <2>1, <2>2, MoveParts
<1>7. ASSUME NEW c \in Calls, Audit(c)
      PROVE  Parts'
  <2>1. /\ Working(c) /\ Ends(c) /\ UNCHANGED <<jobVars, people, overlapped, lost>>
        /\ call[c].at = "auditing"
    BY <1>7 DEF Audit, Working, history
  <2> QED
    BY <1>0, <2>1
<1>8. ASSUME NEW c \in Calls, Throw(c)
      PROVE  Parts'
  <2>1. /\ Working(c) /\ UNCHANGED <<status, resumeIndex, people, history>> /\ Goes(c, "failing")
    BY <1>8 DEF Throw, Working, jobVars
  <2>2. "failing" \in Places
    BY DEF Places
  <2> QED
    BY <2>1, <2>2, MoveParts
<1>9. ASSUME NEW c \in Calls, Catch(c)
      PROVE  Parts'
  BY <1>9, CatchParts
<1>10. ASSUME NEW c \in Calls, Crash(c)
       PROVE  Parts'
  BY <1>10, CrashParts
<1> QED
  BY <1>1, <1>2, <1>3, <1>4, <1>5, <1>6, <1>7, <1>8, <1>9, <1>10 DEF Next

(* The rows before the persisted index are members, a completed job has    *)
(* imported every row, and a row makes a second member only if its chunk   *)
(* was applied by a call that could not record it or if two calls worked   *)
(* on the job at once, never if it has an address or a number.             *)
(* (commit, applyChunk)                                                    *)
THEOREM Resumes == Spec => []ResumesWhereItStopped
<1>1. TypeOK /\ Parts /\ [Next]_vars => TypeOK' /\ Parts'
  BY TypeNext, PartsNext
<1>2. Init => TypeOK /\ Parts
  BY TypeInit, PartsInit
<1>3. Parts => ResumesWhereItStopped
  BY DEF Parts
<1> QED
  BY <1>1, <1>2, <1>3, PTL DEF Spec

-----------------------------------------------------------------------------
(* Invitations: the inductive invariant *)

\* Tokens exist only of an invitation, and an invitation has a role.
RowIsThere ==
  /\ invitation # "ABSENT" => role \in Roles
  /\ issued > 0 => invitation # "ABSENT"

\* A call of an administrator has seen what it needs: an invitation, unless it makes
\* one, that was not accepted.
AdminKnows(a) ==
  /\ admin[a].at = "inviting" => admin[a].role \in Roles
  /\ admin[a].at \in {"inviting", "resending", "revoking"} => admin[a].saw # "ACCEPTED"
  /\ admin[a].at \in {"resending", "revoking", "issuing", "linking"} => invitation # "ABSENT"
  /\ admin[a].at = "linking" => admin[a].token <= issued

\* A bearer has a token, and past the check a role to join with, or has seen an
\* invitation that it may decline.
BearerKnows(b) ==
  /\ bearer[b].at \in BearerPlaces \ {"new", "done"} => bearer[b].token \in 1..issued
  /\ b \in Entering => bearer[b].role \in Roles
  /\ bearer[b].at = "declining" => bearer[b].saw # "ACCEPTED"
  /\ bearer[b].at = "joining" => account

\* While the invitation is shut nobody is on the way in.
ShutMeansShut == shut => invitation = "REVOKED" /\ Entering = {}

InviteInv ==
  /\ InviteTypeOK
  /\ RowIsThere
  /\ \A a \in Admins : AdminKnows(a)
  /\ \A b \in Bearers : BearerKnows(b)
  /\ ShutMeansShut
  /\ MemberIsAccepted
  /\ ShutKeepsOut

-----------------------------------------------------------------------------

\* What a call of an administrator, or of a bearer, is made of
AdminStates == [at : AdminPlaces, saw : InvitationStatuses, role : Roles \union {None},
                token : 0..MaxTokens]
BearerStates == [at : BearerPlaces, accepts : BOOLEAN, token : 0..MaxTokens, saw : InvitationStatuses,
                 role : Roles \union {None}]

LEMMA InviteInvInit ==
  ASSUME InviteInit
  PROVE  InviteInv
  <1> USE NoneIsNoRole, MaxTokensPositive DEF InviteInit, AdminAt, BearerAt
  <1>1. admin \in [Admins -> AdminStates] /\ bearer \in [Bearers -> BearerStates]
    BY DEF AdminStates, BearerStates, AdminPlaces, BearerPlaces, InvitationStatuses
  <1>2. account \in BOOLEAN /\ identity \in BOOLEAN /\ (identity => account)
    <2>1. account \in BOOLEAN /\ (identity = account \/ identity = FALSE)
      BY Zenon
    <2>2. CASE identity = account
      BY <2>1, <2>2, Zenon
    <2>3. CASE identity = FALSE
      BY <2>1, <2>3, Zenon
    <2> QED BY <2>1, <2>2, <2>3
  <1>3. InviteTypeOK
    <2>1. issued \in 0..MaxTokens /\ challenge \in 0..issued
      OBVIOUS
    <2>2. shut \in BOOLEAN /\ overwritten \in BOOLEAN
      BY Zenon
    <2>3. invitation \in InvitationStatuses /\ role \in Roles \union {None} /\ member \in Roles \union {None}
      BY DEF InvitationStatuses
    <2>4. identity \/ member # None => account
      BY <1>2, Zenon DEF InviteInit
    <2>5. expired \subseteq 1..issued /\ consumed \subseteq 1..issued
      OBVIOUS
    <2> QED BY <1>1, <1>2, <2>1, <2>2, <2>3, <2>4, <2>5, Zenon DEF InviteTypeOK, AdminStates,
                                                                   BearerStates
  <1>4. Entering = {}
    BY DEF Entering
  <1>5. \A a \in Admins : AdminKnows(a)
    BY DEF AdminKnows
  <1>6. \A b \in Bearers : BearerKnows(b)
    BY <1>4 DEF BearerKnows, BearerPlaces
  <1>7. RowIsThere /\ ShutMeansShut /\ MemberIsAccepted /\ ShutKeepsOut
    BY DEF RowIsThere, ShutMeansShut, MemberIsAccepted, ShutKeepsOut
  <1> QED BY <1>3, <1>5, <1>6, <1>7 DEF InviteInv

LEMMA BearerTyped ==
  ASSUME InviteTypeOK, NEW b \in Bearers, NEW state \in BearerStates,
         bearer' = [bearer EXCEPT ![b] = state]
  PROVE  bearer' \in [Bearers -> BearerStates]
  BY DEF InviteTypeOK, BearerStates

LEMMA MovedTyped ==
  ASSUME InviteTypeOK, NEW b \in Bearers, NEW p \in BearerPlaces
  PROVE  [bearer[b] EXCEPT !.at = p] \in BearerStates
  BY DEF InviteTypeOK, BearerStates

LEMMA EndedTyped ==
  ASSUME InviteTypeOK, NEW b \in Bearers, NEW t \in {0, bearer[b].token}
  PROVE  BearerAt("done", FALSE, t) \in BearerStates
  BY MaxTokensPositive DEF InviteTypeOK, BearerStates, BearerAt, BearerPlaces, InvitationStatuses

\* A step of an administrator leaves the bearers where they are, ...
LEMMA AdminStep ==
  ASSUME InviteInv, NEW a \in Admins, BeginCall(a) \/ Open(a) \/ Issue(a) \/ Link(a) \/ Revoke(a)
  PROVE  InviteInv'
  <1> USE NoneIsNoRole, MaxTokensPositive DEF InviteInv
  <1>1. CASE BeginCall(a)
    <2>1. PICK place \in {"inviting", "resending", "revoking"}, r \in Roles \union {None} :
            BeginAs(a, place, r) /\ (place = "inviting" => r \in Roles)
      BY <1>1 DEF BeginCall
    <2> USE <2>1 DEF BeginAs, Admits, AdminGoes, AdminAt, rows, tokens, user, inviteHistory
    <2>2. InviteTypeOK'
      BY DEF InviteTypeOK, AdminPlaces, InvitationStatuses
    <2>3. RowIsThere' /\ ShutMeansShut' /\ MemberIsAccepted' /\ ShutKeepsOut'
      BY DEF RowIsThere, ShutMeansShut, MemberIsAccepted, ShutKeepsOut, Entering
    <2>4. \A x \in Admins : AdminKnows(x)'
      BY DEF AdminKnows, InviteTypeOK
    <2>5. \A b \in Bearers : BearerKnows(b)'
      BY DEF BearerKnows, Entering
    <2> QED BY <2>2, <2>3, <2>4, <2>5
  <1>2. CASE Open(a)
    <2> USE <1>2 DEF Open, Overwrites, AdminGoes, AdminAt, tokens, user
    <2>1. invitation' = "PENDING" /\ role' \in Roles /\ ~shut'
      BY DEF RowIsThere, AdminKnows, InviteTypeOK
    <2>2. InviteTypeOK'
      <3>1. AdminAt("issuing", "ABSENT", None, 0) \in AdminStates
        BY DEF AdminStates, AdminPlaces, InvitationStatuses
      <3>2. admin' \in [Admins -> AdminStates]
        BY <3>1 DEF InviteTypeOK, AdminStates
      <3>3. overwritten' \in BOOLEAN
        BY DEF InviteTypeOK
      <3> QED BY <2>1, <3>2, <3>3 DEF InviteTypeOK, AdminStates, InvitationStatuses
    <2>3. RowIsThere' /\ ShutMeansShut' /\ MemberIsAccepted' /\ ShutKeepsOut'
      BY <2>1 DEF RowIsThere, ShutMeansShut, MemberIsAccepted, ShutKeepsOut, AdminKnows
    <2>4. \A x \in Admins : AdminKnows(x)'
      BY <2>1 DEF AdminKnows, InviteTypeOK
    <2>5. \A b \in Bearers : BearerKnows(b)'
      BY DEF BearerKnows, Entering
    <2> QED BY <2>2, <2>3, <2>4, <2>5
  <1>3. CASE Issue(a)
    <2> USE <1>3 DEF Issue, AdminGoes, AdminAt, rows, user, inviteHistory
    <2>1. issued' \in 0..MaxTokens /\ issued <= issued' /\ issued \in Nat
      BY DEF InviteTypeOK
    <2>2. InviteTypeOK'
      <3>1. /\ challenge' \in 0..issued' /\ expired' \subseteq 1..issued'
            /\ consumed' \subseteq 1..issued'
        BY <2>1 DEF InviteTypeOK
      <3>2. admin' \in [Admins -> [at : AdminPlaces, saw : InvitationStatuses, role : Roles \union {None},
                                   token : 0..MaxTokens]]
        BY <2>1 DEF InviteTypeOK, AdminPlaces, InvitationStatuses
      <3> QED BY <2>1, <3>1, <3>2 DEF InviteTypeOK
    <2>3. invitation' # "ABSENT"
      BY DEF AdminKnows
    <2>4. RowIsThere' /\ ShutMeansShut' /\ MemberIsAccepted' /\ ShutKeepsOut'
      BY <2>3 DEF RowIsThere, ShutMeansShut, MemberIsAccepted, ShutKeepsOut, Entering
    <2>5. \A x \in Admins : AdminKnows(x)'
      BY <2>1, <2>3 DEF AdminKnows, InviteTypeOK
    <2>6. \A b \in Bearers : BearerKnows(b)'
      BY <2>1 DEF BearerKnows, Entering, InviteTypeOK
    <2> QED BY <2>2, <2>4, <2>5, <2>6
  <1>4. CASE Link(a)
    <2> USE <1>4 DEF Link, AdminGoes, AdminAt, tokens, user, inviteHistory
    <2>1. InviteTypeOK'
      BY DEF InviteTypeOK, AdminKnows, AdminPlaces, InvitationStatuses
    <2>2. RowIsThere' /\ ShutMeansShut' /\ MemberIsAccepted' /\ ShutKeepsOut'
      BY DEF RowIsThere, ShutMeansShut, MemberIsAccepted, ShutKeepsOut, Entering
    <2>3. \A x \in Admins : AdminKnows(x)'
      BY DEF AdminKnows, InviteTypeOK
    <2>4. \A b \in Bearers : BearerKnows(b)'
      BY DEF BearerKnows, Entering
    <2> QED BY <2>1, <2>2, <2>3, <2>4
  <1>5. CASE Revoke(a)
    <2> USE <1>5 DEF Revoke, Shut, Overwrites, AdminGoes, AdminAt, tokens, user
    <2>1. InviteTypeOK'
      BY DEF InviteTypeOK, AdminPlaces, InvitationStatuses
    <2>2. RowIsThere' /\ ShutMeansShut' /\ MemberIsAccepted' /\ ShutKeepsOut'
      BY DEF RowIsThere, ShutMeansShut, MemberIsAccepted, ShutKeepsOut, Entering, AdminKnows
    <2>3. \A x \in Admins : AdminKnows(x)'
      BY DEF AdminKnows, InviteTypeOK
    <2>4. \A b \in Bearers : BearerKnows(b)'
      BY DEF BearerKnows, Entering
    <2> QED BY <2>1, <2>2, <2>3, <2>4
  <1> QED BY <1>1, <1>2, <1>3, <1>4, <1>5

\* ... and a bearer moves alone: what the others know stays known.
LEMMA OthersKnow ==
  ASSUME InviteInv, NEW b \in Bearers, NEW state, bearer' = [bearer EXCEPT ![b] = state],
         UNCHANGED <<issued, admin>>, invitation # "ABSENT" => invitation' # "ABSENT",
         account => account', NEW c \in Bearers \ {b}
  PROVE  BearerKnows(c)' /\ (c \in Entering' <=> c \in Entering)
  BY DEF InviteInv, InviteTypeOK, BearerKnows, Entering

LEMMA AdminsKnow ==
  ASSUME InviteInv, UNCHANGED <<issued, admin>>, invitation # "ABSENT" => invitation' # "ABSENT"
  PROVE  \A a \in Admins : AdminKnows(a)'
  BY DEF InviteInv, AdminKnows

LEMMA BearerStep ==
  ASSUME InviteInv, NEW b \in Bearers,
         \/ \E t \in Tokens, accepts \in BOOLEAN : Present(b, t, accepts)
         \/ Consume(b) \/ Check(b) \/ Find(b) \/ Provision(b) \/ Join(b) \/ Decline(b)
  PROVE  InviteInv'
  <1> USE NoneIsNoRole, MaxTokensPositive DEF InviteInv
  <1>1. CASE \E t \in Tokens, accepts \in BOOLEAN : Present(b, t, accepts)
    <2>1. PICK t \in Tokens, accepts \in BOOLEAN : Present(b, t, accepts)
      BY <1>1
    <2> USE <2>1 DEF Present, BearerGoes, BearerAt, Mailed, rows, tokens, user, inviteHistory
    <2>2. InviteTypeOK'
      BY DEF InviteTypeOK, BearerPlaces, InvitationStatuses, Tokens
    <2>3. RowIsThere' /\ ShutMeansShut' /\ MemberIsAccepted' /\ ShutKeepsOut'
      BY OthersKnow DEF RowIsThere, ShutMeansShut, MemberIsAccepted, ShutKeepsOut, Entering,
                        InviteTypeOK
    <2>4. BearerKnows(b)'
      BY DEF BearerKnows, Entering, InviteTypeOK
    <2> QED BY <2>2, <2>3, <2>4, OthersKnow, AdminsKnow
  <1>2. CASE Consume(b)
    <2> USE <1>2 DEF Consume, Unspent, BearerGoes, BearerMoves, BearerEnds, BearerAt, rows, user,
                     inviteHistory
    <2>1. InviteTypeOK'
      <3>1. bearer' \in [Bearers -> BearerStates]
        BY BearerTyped, MovedTyped, EndedTyped DEF BearerPlaces
      <3>2. consumed' \subseteq 1..issued
        BY DEF BearerKnows, BearerPlaces, InviteTypeOK
      <3> QED BY <3>1, <3>2 DEF InviteTypeOK, BearerStates
    <2>2. RowIsThere' /\ ShutMeansShut' /\ MemberIsAccepted' /\ ShutKeepsOut'
      BY DEF RowIsThere, ShutMeansShut, MemberIsAccepted, ShutKeepsOut, Entering, InviteTypeOK
    <2>3. BearerKnows(b)'
      BY DEF BearerKnows, Entering, InviteTypeOK, BearerPlaces
    <2> QED BY <2>1, <2>2, <2>3, OthersKnow, AdminsKnow
  <1>3. CASE Check(b)
    <2> USE <1>3 DEF Check, BearerGoes, BearerEnds, rows, tokens, user, inviteHistory
    <2>1. invitation # "ABSENT"
      BY DEF BearerKnows, RowIsThere, BearerPlaces, InviteTypeOK
    <2>2. RowIsThere' /\ MemberIsAccepted' /\ ShutKeepsOut'
      BY DEF RowIsThere, MemberIsAccepted, ShutKeepsOut
    <2>3. CASE Closed(bearer[b].accepts)
      <3>1. bearer' = [bearer EXCEPT ![b] = BearerAt("done", FALSE, bearer[b].token)]
        BY <2>3
      <3>2. InviteTypeOK'
        <4>1. bearer' \in [Bearers -> BearerStates]
          BY <3>1, BearerTyped, EndedTyped
        <4> QED BY <4>1 DEF InviteTypeOK, BearerStates
      <3>3. ShutMeansShut' /\ BearerKnows(b)'
        BY <3>1 DEF ShutMeansShut, BearerKnows, BearerAt, Entering, InviteTypeOK, BearerPlaces
      <3> QED BY <2>2, <3>1, <3>2, <3>3, OthersKnow, AdminsKnow
    <2>4. CASE ~Closed(bearer[b].accepts) /\ bearer[b].accepts
      <3> DEFINE next == [bearer[b] EXCEPT !.at = "finding", !.saw = invitation, !.role = role]
      <3>1. bearer' = [bearer EXCEPT ![b] = next]
        BY <2>4
      <3>2. next \in BearerStates /\ next.at = "finding" /\ next.role \in Roles
        BY <2>1 DEF BearerStates, InviteTypeOK, RowIsThere, BearerPlaces
      <3>3. next.token \in 1..issued
        BY DEF BearerKnows, BearerPlaces, InviteTypeOK
      <3> HIDE DEF next
      <3>4. InviteTypeOK'
        <4>1. bearer' \in [Bearers -> BearerStates]
          BY <3>1, <3>2, BearerTyped
        <4> QED BY <4>1 DEF InviteTypeOK, BearerStates
      <3>5. ShutMeansShut'
        BY <2>4 DEF ShutMeansShut, Closed
      <3>6. BearerKnows(b)'
        BY <3>1, <3>2, <3>3 DEF BearerKnows, Entering, InviteTypeOK
      <3> QED BY <2>2, <3>1, <3>4, <3>5, <3>6, OthersKnow, AdminsKnow
    <2>5. CASE ~Closed(bearer[b].accepts) /\ ~bearer[b].accepts
      <3> DEFINE next == [bearer[b] EXCEPT !.at = "declining", !.saw = invitation, !.role = None]
      <3>1. bearer' = [bearer EXCEPT ![b] = next]
        BY <2>5
      <3>2. next \in BearerStates /\ next.at = "declining" /\ next.saw # "ACCEPTED"
        BY <2>5 DEF BearerStates, InviteTypeOK, BearerPlaces, Closed
      <3>3. next.token \in 1..issued
        BY DEF BearerKnows, BearerPlaces, InviteTypeOK
      <3> HIDE DEF next
      <3>4. InviteTypeOK'
        <4>1. bearer' \in [Bearers -> BearerStates]
          BY <3>1, <3>2, BearerTyped
        <4> QED BY <4>1 DEF InviteTypeOK, BearerStates
      <3>5. ShutMeansShut' /\ BearerKnows(b)'
        BY <3>1, <3>2, <3>3 DEF ShutMeansShut, BearerKnows, Entering, InviteTypeOK
      <3> QED BY <2>2, <3>1, <3>4, <3>5, OthersKnow, AdminsKnow
    <2> QED BY <2>3, <2>4, <2>5
  <1>4. CASE Find(b)
    <2> USE <1>4 DEF Find, AfterFinding, BearerGoes, BearerMoves, BearerEnds, BearerAt, rows,
                     tokens, user, inviteHistory
    <2>1. InviteTypeOK'
      <3>1. bearer' \in [Bearers -> BearerStates]
        BY BearerTyped, MovedTyped, EndedTyped DEF BearerPlaces
      <3> QED BY <3>1 DEF InviteTypeOK, BearerStates
    <2>2. RowIsThere' /\ ShutMeansShut' /\ MemberIsAccepted' /\ ShutKeepsOut'
      BY DEF RowIsThere, ShutMeansShut, MemberIsAccepted, ShutKeepsOut, Entering, InviteTypeOK
    <2>3. BearerKnows(b)'
      BY DEF BearerKnows, Entering, InviteTypeOK, BearerPlaces
    <2> QED BY <2>1, <2>2, <2>3, OthersKnow, AdminsKnow
  <1>5. CASE Provision(b)
    <2> USE <1>5 DEF Provision, BearerGoes, BearerMoves, BearerEnds, BearerAt, rows, tokens,
                     inviteHistory
    <2>1. InviteTypeOK'
      <3>1. bearer' \in [Bearers -> BearerStates]
        BY BearerTyped, MovedTyped, EndedTyped DEF BearerPlaces
      <3> QED BY <3>1 DEF InviteTypeOK, BearerStates
    <2>2. RowIsThere' /\ ShutMeansShut' /\ MemberIsAccepted' /\ ShutKeepsOut'
      BY DEF RowIsThere, ShutMeansShut, MemberIsAccepted, ShutKeepsOut, Entering, InviteTypeOK
    <2>3. BearerKnows(b)'
      BY DEF BearerKnows, Entering, InviteTypeOK, BearerPlaces
    <2> QED BY <2>1, <2>2, <2>3, OthersKnow, AdminsKnow
  <1>6. CASE Join(b)
    <2> USE <1>6 DEF Join, BearerGoes, BearerEnds, BearerAt, tokens, inviteHistory
    <2>1. bearer[b].role \in Roles /\ b \in Entering
      BY DEF BearerKnows, Entering
    <2>2. ~shut /\ member' # None /\ member' \in Roles
      BY <2>1 DEF ShutMeansShut, InviteTypeOK
    <2>3. account'
      BY DEF BearerKnows
    <2>4. InviteTypeOK'
      <3>1. bearer' \in [Bearers -> BearerStates]
        BY BearerTyped, EndedTyped
      <3> QED BY <2>2, <2>3, <3>1 DEF InviteTypeOK, BearerStates, InvitationStatuses
    <2>5. RowIsThere' /\ ShutMeansShut' /\ MemberIsAccepted' /\ ShutKeepsOut'
      BY <2>2 DEF RowIsThere, ShutMeansShut, MemberIsAccepted, ShutKeepsOut, BearerKnows,
                  BearerPlaces, InviteTypeOK
    <2>6. BearerKnows(b)'
      BY DEF BearerKnows, Entering, InviteTypeOK, BearerPlaces
    <2> QED BY <2>4, <2>5, <2>6, OthersKnow, AdminsKnow
  <1>7. CASE Decline(b)
    <2> USE <1>7 DEF Decline, Shut, Overwrites, BearerGoes, BearerEnds, BearerAt, tokens, user
    <2>1. InviteTypeOK'
      <3>1. bearer' \in [Bearers -> BearerStates]
        BY BearerTyped, MovedTyped, EndedTyped DEF BearerPlaces
      <3>2. overwritten' \in BOOLEAN
        BY DEF InviteTypeOK
      <3>3. invitation' \in InvitationStatuses
        BY DEF InvitationStatuses
      <3>4. shut' \in BOOLEAN
        BY Zenon
      <3> QED BY <3>1, <3>2, <3>3, <3>4 DEF InviteTypeOK, BearerStates
    <2>2. RowIsThere' /\ MemberIsAccepted' /\ ShutKeepsOut'
      BY DEF RowIsThere, MemberIsAccepted, ShutKeepsOut, BearerKnows, BearerPlaces, InviteTypeOK
    <2>3. ShutMeansShut'
      BY DEF ShutMeansShut, Entering, InviteTypeOK
    <2>4. BearerKnows(b)'
      BY DEF BearerKnows, Entering, InviteTypeOK, BearerPlaces
    <2> QED BY <2>1, <2>2, <2>3, <2>4, OthersKnow, AdminsKnow
  <1> QED BY <1>1, <1>2, <1>3, <1>4, <1>5, <1>6, <1>7

LEMMA OutsideStep ==
  ASSUME InviteInv, (\E t \in Tokens : Expire(t)) \/ SignUp \/ UNCHANGED inviteVars
  PROVE  InviteInv'
  <1> USE DEF InviteInv
  <1>1. CASE \E t \in Tokens : Expire(t)
    <2> USE <1>1 DEF Expire, rows, user, inviteHistory
    <2>1. InviteTypeOK'
      BY DEF InviteTypeOK
    <2>2. RowIsThere' /\ ShutMeansShut' /\ MemberIsAccepted' /\ ShutKeepsOut'
      BY DEF RowIsThere, ShutMeansShut, MemberIsAccepted, ShutKeepsOut, Entering
    <2> QED BY <2>1, <2>2 DEF AdminKnows, BearerKnows, Entering
  <1>2. CASE SignUp
    <2> USE <1>2 DEF SignUp, rows, tokens, inviteHistory
    <2>1. InviteTypeOK'
      BY DEF InviteTypeOK
    <2>2. RowIsThere' /\ ShutMeansShut' /\ MemberIsAccepted' /\ ShutKeepsOut'
      BY DEF RowIsThere, ShutMeansShut, MemberIsAccepted, ShutKeepsOut, Entering
    <2> QED BY <2>1, <2>2 DEF AdminKnows, BearerKnows, Entering
  <1>3. CASE UNCHANGED inviteVars
    BY <1>3 DEF inviteVars, rows, tokens, user, inviteHistory, InviteTypeOK, RowIsThere,
                AdminKnows, BearerKnows,
                Entering, ShutMeansShut, MemberIsAccepted, ShutKeepsOut
  <1> QED BY <1>1, <1>2, <1>3

LEMMA InviteStep == InviteInv /\ [InviteNext]_inviteVars => InviteInv'
  BY AdminStep, BearerStep, OutsideStep DEF InviteNext

LEMMA InviteAlways == InviteSpec => []InviteInv
  BY InviteInvInit, InviteStep, PTL DEF InviteSpec

-----------------------------------------------------------------------------
(* Invitations: what follows *)

(* Every variable of the invitation, its tokens and the calls on it keeps  *)
(* its type, and a member has an account.                                  *)
THEOREM InviteTypeCorrect == InviteSpec => []InviteTypeOK
  <1>1. InviteInv => InviteTypeOK
    BY DEF InviteInv
  <1> QED BY <1>1, InviteAlways, PTL

(* However many calls overlap, an accepted invitation has its member, and  *)
(* a member's invitation stays accepted unless a call that had read it     *)
(* earlier wrote over it.  (accept, invite, resend, revoke, decline)       *)
THEOREM MembersAreAccepted == InviteSpec => []MemberIsAccepted
  <1>1. InviteInv => MemberIsAccepted
    BY DEF InviteInv
  <1> QED BY <1>1, InviteAlways, PTL

(* Whatever tokens are about, an invitation that was shut while nobody was *)
(* past its check lets nobody in.  (revoke, decline, accept)               *)
THEOREM ShutStaysOut == InviteSpec => []ShutKeepsOut
  <1>1. InviteInv => ShutKeepsOut
    BY DEF InviteInv
  <1> QED BY <1>1, InviteAlways, PTL

=============================================================================
