---------------------------- MODULE MemberImport ----------------------------
(***************************************************************************)
(* One member import (modules/onboarding/member-import.service.ts): a job  *)
(* whose rows have been validated and stored by preview, and the calls     *)
(* that commit it, chunk by chunk, each chunk in one transaction and the   *)
(* index of the next row in another.                                       *)
(*                                                                         *)
(* A row is its position; the e-mail addresses of a file are different     *)
(* (validateMemberRows), so a row with an address stands for the address.  *)
(* Addresses and telephone numbers of users are unique.                    *)
(* Counters, roles, parsing and the texts of audit and log are left out.   *)
(***************************************************************************)
EXTENDS Naturals, FiniteSets

CONSTANTS
  Calls,     \* calls of commit
  RowCount,  \* rows of the job
  WithEmail, \* those that have an e-mail address
  WithPhone, \* those that have only a telephone number
  ChunkSize, \* CHUNK_SIZE
  MaxFaults  \* bound on crashes and failing transactions

ASSUME RowCountPositive == RowCount \in Nat \ {0}
ASSUME WithEmailRows == WithEmail \subseteq 1..RowCount
ASSUME WithPhoneRows == WithPhone \subseteq 1..RowCount \ WithEmail
ASSUME ChunkSizePositive == ChunkSize \in Nat \ {0}
ASSUME MaxFaultsNat == MaxFaults \in Nat

Rows == 1..RowCount

VARIABLES
  status,      \* member_import_jobs.status
  resumeIndex, \* member_import_jobs.resume_index
  accounts,    \* rows whose address is the EMAIL identity of a user
  taken,       \* rows whose address or number belongs to a user whom that does not find
  members,     \* rows whose user is a member of the church
  made,        \* memberships that were made for each row
  call,        \* each call: where it is, and its resumeIndex
  lost,        \* rows whose chunk was applied by a call that did not record it (history)
  overlapped,  \* a call read the job while another one worked on it (history)
  faults       \* faults so far, at most MaxFaults

jobVars == <<status, resumeIndex>>
people == <<accounts, taken, members, made>>
history == <<lost, overlapped>>
vars == <<jobVars, people, call, history, faults>>

Statuses == {"READY", "IMPORTING", "PARTIAL", "COMPLETED"}
Places == {"new", "starting", "looping", "recording", "auditing", "failing", "done"}

TypeOK ==
  /\ status \in Statuses
  /\ resumeIndex \in 0..RowCount
  /\ accounts \subseteq WithEmail
  /\ taken \subseteq (WithEmail \ accounts) \union WithPhone
  /\ members \subseteq Rows
  /\ members \intersect WithEmail \subseteq accounts
  /\ made \in [Rows -> Nat]
  /\ call \in [Calls -> [at : Places, next : 0..RowCount]]
  /\ lost \subseteq Rows
  /\ overlapped \in BOOLEAN
  /\ faults \in 0..MaxFaults

\* preview has stored the job; some of its addresses and numbers are those of users,
\* and some of these are members.
Init ==
  /\ status = "READY" /\ resumeIndex = 0
  /\ accounts \in SUBSET WithEmail
  /\ taken \in SUBSET ((WithEmail \ accounts) \union WithPhone)
  /\ members \in SUBSET accounts
  /\ made = [i \in Rows |-> 0]
  /\ call = [c \in Calls |-> [at |-> "new", next |-> 0]]
  /\ lost = {} /\ overlapped = FALSE
  /\ faults = 0

Fault == faults < MaxFaults /\ faults' = faults + 1

Goes(c, place) == call' = [call EXCEPT ![c].at = place]
Ends(c) == call' = [call EXCEPT ![c] = [at |-> "done", next |-> 0]]
Working(c) == call[c].at \notin {"new", "done"}

\* Faulty variant: the last chunk is taken for a full one.
ChunkFull(next) == next + 1 .. next + ChunkSize

\* rows.slice(resumeIndex, resumeIndex + CHUNK_SIZE)
Chunk(next) == (next + 1 .. next + ChunkSize) \intersect Rows

-----------------------------------------------------------------------------
(* commit *)

\* requireJob and the checks of the status
Begin(c) ==
  /\ call[c].at = "new" /\ status # "COMPLETED"
  /\ call' = [call EXCEPT ![c] = [at |-> "starting", next |-> resumeIndex]]
  /\ overlapped' = (overlapped \/ \E d \in Calls : Working(d))
  /\ UNCHANGED <<jobVars, people, lost, faults>>

\* IMPORTING; outside the try block
Start(c) ==
  /\ call[c].at = "starting"
  /\ \/ status' = "IMPORTING" /\ Goes(c, "looping") /\ UNCHANGED faults
     \/ Fault /\ Ends(c) /\ UNCHANGED status
  /\ UNCHANGED <<resumeIndex, people, history>>

\* createMembershipIfMissing: rows that have no membership, those without an
\* address always
Unlinked(rows) == rows \ (members \intersect WithEmail)

\* A row for which user.create meets a user with its address or number
Clashes(i) == i \in taken \/ i \in WithPhone \intersect members

\* applyChunk, and the index that follows it; or its transaction commits and what says
\* so is lost: the call fails where it was.
Apply(c) ==
  LET chunk == Chunk(call[c].next)
  IN /\ call[c].at = "looping" /\ call[c].next < RowCount
     /\ \A i \in chunk : ~Clashes(i)
     /\ accounts' = accounts \union (chunk \intersect WithEmail)
     /\ members' = members \union chunk
     /\ made' = [i \in Rows |-> IF i \in Unlinked(chunk) THEN made[i] + 1 ELSE made[i]]
     /\ \/ /\ call' = [call EXCEPT ![c] = [at |-> "recording", next |-> @.next + Cardinality(chunk)]]
           /\ UNCHANGED <<lost, faults>>
        \/ Goes(c, "failing") /\ Fault /\ lost' = lost \union chunk
     /\ UNCHANGED <<jobVars, taken, overlapped>>

\* resumeIndex is persisted.
Record(c) ==
  /\ call[c].at = "recording"
  /\ resumeIndex' = call[c].next
  /\ Goes(c, "looping")
  /\ UNCHANGED <<status, people, history, faults>>

Complete(c) ==
  /\ call[c].at = "looping" /\ call[c].next = RowCount
  /\ status' = "COMPLETED"
  /\ Goes(c, "auditing")
  /\ UNCHANGED <<resumeIndex, people, history, faults>>

\* audit.record, still inside the try block
Audit(c) ==
  /\ call[c].at = "auditing"
  /\ Ends(c)
  /\ UNCHANGED <<jobVars, people, history, faults>>

\* A transaction in the try block fails and leaves nothing behind.
Throw(c) ==
  /\ \/ call[c].at \in {"looping", "recording", "auditing"} /\ Fault
     \/ /\ call[c].at = "looping" /\ UNCHANGED faults
        /\ \E i \in Chunk(call[c].next) : Clashes(i)
  /\ Goes(c, "failing")
  /\ UNCHANGED <<jobVars, people, history>>

\* Rows a call has applied and has not recorded
Unrecorded(c) ==
  IF call[c].at \in {"recording", "failing"} THEN resumeIndex + 1 .. call[c].next ELSE {}

\* Faulty variant: the job is left as it is.
PartialKept(next) == status' = "PARTIAL" /\ UNCHANGED resumeIndex

\* The update of the catch block: with the index the call has come to
Partial(next) == status' = "PARTIAL" /\ resumeIndex' = next

\* The catch block
Catch(c) ==
  /\ call[c].at = "failing"
  /\ \/ Partial(call[c].next) /\ UNCHANGED <<lost, faults>>
     \/ Fault /\ lost' = lost \union Unrecorded(c) /\ UNCHANGED jobVars
  /\ Ends(c)
  /\ UNCHANGED <<people, overlapped>>

\* The process exits with the call in progress.
Crash(c) ==
  /\ Working(c) /\ Fault
  /\ lost' = lost \union Unrecorded(c)
  /\ Ends(c)
  /\ UNCHANGED <<jobVars, people, overlapped>>

Next ==
  \/ \E c \in Calls : Begin(c)
  \/ \E c \in Calls : Start(c)
  \/ \E c \in Calls : Apply(c)
  \/ \E c \in Calls : Record(c)
  \/ \E c \in Calls : Complete(c)
  \/ \E c \in Calls : Audit(c)
  \/ \E c \in Calls : Throw(c)
  \/ \E c \in Calls : Catch(c)
  \/ \E c \in Calls : Crash(c)

Spec == Init /\ [][Next]_vars

-----------------------------------------------------------------------------
(* "A retry continues from where it stopped instead of re-importing or     *)
(* losing the remainder" (docs/architecture/CHURCH_ONBOARDING.md): the     *)
(* rows before resume_index have been imported.  A row makes a second      *)
(* member only if the call that had applied its chunk could not record it, *)
(* or if two calls worked on the job at once, and never if it has an       *)
(* address ("re-importing an email that already has an account links the   *)
(* existing user") or a number.                                            *)
ResumesWhereItStopped ==
  /\ 1..resumeIndex \subseteq members
  /\ status = "COMPLETED" => Rows \subseteq members
  /\ \A i \in Rows : made[i] > 1 => i \notin WithEmail \union WithPhone /\ (i \in lost \/ overlapped)

=============================================================================
