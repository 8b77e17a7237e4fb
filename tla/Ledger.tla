------------------------------- MODULE Ledger -------------------------------
(***************************************************************************)
(* The books of one church (modules/accounting): numbered journals, fiscal *)
(* periods, and the documents that write journals when they are posted --  *)
(* bills, expenses, payroll runs and gifts -- with purchase orders, which  *)
(* do not.                                                                 *)
(*                                                                         *)
(* Every request is one READ COMMITTED transaction; a statement of it is   *)
(* one step.  It reads and checks statuses first and then updates by id,   *)
(* so what it has read may be out of date when it writes.  Its last write  *)
(* is also its commit: no lock is waited for in between.  The lines of a   *)
(* journal always balance (the contract's schema) and are left out.        *)
(***************************************************************************)
EXTENDS Naturals, FiniteSets

CONSTANTS Docs,      \* documents of any kind
          Periods,   \* fiscal periods; each stands for a date it covers, too
          Requests,  \* concurrent API calls
          NoEntry,      \* no document, no request
          MaxNumber  \* bound on journals

ASSUME MaxNumberNat == MaxNumber \in Nat
ASSUME RowsDistinct == /\ Docs \intersect Periods = {}
                       /\ (Docs \union Periods) \intersect (Nat \union {NoEntry}) = {}
                       /\ NoEntry \notin Nat

VARIABLES
  kind,    \* the kind of each document
  dated,   \* the date of each document
  doc,     \* its status
  period,  \* fiscal_periods.status
  journal, \* journals.status, by number
  date,    \* journals.occurred_on
  linked,  \* is journals.period_id set?
  entry,   \* the document a journal was written for, and its new status
  at,      \* where each request is
  act,     \* what it does: operation, row and new status
  number,  \* the journal number it has computed
  found,   \* did it find a fiscal period for the date?
  raced    \* rows written while another request had read them (history)

books == <<doc, period, journal, date, linked, entry>>
requestVars == <<at, act, number, found>>
ledgerVars == <<kind, dated, books, requestVars, raced>>

Numbers == 1..MaxNumber
Kinds == {"bill", "expense", "payroll", "order", "gift"}
DocStatuses == {"ABSENT", "DRAFT", "SUBMITTED", "APPROVED", "REJECTED", "POSTED", "REFUNDED"}
Entries == {"POSTED", "REFUNDED"}  \* statuses that are entered with a journal
ASSUME NoneDistinct == NoEntry \notin Docs \X Entries

\* What a document of each kind may go through.
Moves(k) ==
  CASE k = "bill" -> {<<"DRAFT", "APPROVED">>, <<"APPROVED", "POSTED">>}
    [] k = "payroll" -> {<<"DRAFT", "APPROVED">>, <<"APPROVED", "POSTED">>}
    [] k = "expense" -> {<<"DRAFT", "SUBMITTED">>, <<"SUBMITTED", "APPROVED">>,
                         <<"SUBMITTED", "REJECTED">>, <<"APPROVED", "POSTED">>}
    [] k = "order" -> {<<"DRAFT", "SUBMITTED">>, <<"SUBMITTED", "APPROVED">>}
    [] k = "gift" -> {<<"ABSENT", "POSTED">>, <<"POSTED", "REFUNDED">>}

Acts ==
  [op : {"move"}, row : Docs, to : DocStatuses]
    \union [op : {"journal", "open", "close"}, row : Periods, to : {"none"}]
    \union [op : {"post", "void"}, row : Numbers, to : {"none"}]

LedgerTypeOK ==
  /\ kind \in [Docs -> Kinds]
  /\ dated \in [Docs -> Periods]
  /\ doc \in [Docs -> DocStatuses]
  /\ period \in [Periods -> {"ABSENT", "OPEN", "CLOSED"}]
  /\ journal \in [Numbers -> {"ABSENT", "DRAFT", "POSTED", "VOID"}]
  /\ date \in [Numbers -> Periods \union {NoEntry}]
  /\ linked \in [Numbers -> BOOLEAN]
  /\ entry \in [Numbers -> (Docs \X Entries) \union {NoEntry}]
  /\ at \in [Requests -> {"idle", "period", "number", "insert", "write"}]
  /\ act \in [Requests -> Acts \union {NoEntry}]
  /\ number \in [Requests -> 0..MaxNumber]
  /\ found \in [Requests -> BOOLEAN]
  /\ raced \subseteq Docs \union Periods \union Numbers

LedgerInit ==
  /\ kind \in [Docs -> Kinds]
  /\ dated \in [Docs -> Periods]
  /\ doc = [d \in Docs |-> IF kind[d] = "gift" THEN "ABSENT" ELSE "DRAFT"]
  /\ period = [p \in Periods |-> "ABSENT"]
  /\ journal = [n \in Numbers |-> "ABSENT"]
  /\ date = [n \in Numbers |-> NoEntry]
  /\ linked = [n \in Numbers |-> FALSE]
  /\ entry = [n \in Numbers |-> NoEntry]
  /\ at = [r \in Requests |-> "idle"]
  /\ act = [r \in Requests |-> NoEntry]
  /\ number = [r \in Requests |-> 0]
  /\ found = [r \in Requests |-> FALSE]
  /\ raced = {}

Written == {n \in Numbers : journal[n] # "ABSENT"}
Running == {r \in Requests : at[r] # "idle"}

-----------------------------------------------------------------------------
(* The first statement of each operation: read the row, check its status *)

BeginRequest(r, op, row, to, next) ==
  /\ at[r] = "idle"
  /\ at' = [at EXCEPT ![r] = next]
  /\ act' = [act EXCEPT ![r] = [op |-> op, row |-> row, to |-> to]]
  /\ UNCHANGED <<kind, dated, books, number, found, raced>>

\* Faulty variant: a refund does not look at the status of the gift.
MoveUnchecked(r, d, to) ==
  /\ \E from \in DocStatuses : <<from, to>> \in Moves(kind[d])
  /\ doc[d] # "ABSENT" \/ to = "POSTED"
  /\ BeginRequest(r, "move", d, to, IF to \in Entries THEN "period" ELSE "write")

\* submit, approve, decide, post and refund.  A gift is inserted when it is
\* recorded, so only one request knows it before that.
Move(r, d, to) ==
  /\ <<doc[d], to>> \in Moves(kind[d])
  /\ doc[d] = "ABSENT" => \A q \in Running : act[q].row # d
  /\ BeginRequest(r, "move", d, to, IF to \in Entries THEN "period" ELSE "write")

CreateJournal(r, p) == BeginRequest(r, "journal", p, "none", "period")

PostJournal(r, n) ==
  /\ journal[n] = "DRAFT"
  /\ BeginRequest(r, "post", n, "none", IF linked[n] THEN "period" ELSE "write")

\* Faulty variant: the period of the journal is not looked up.
VoidAnyPeriod(r, n) ==
  /\ journal[n] \in {"DRAFT", "POSTED"}
  /\ BeginRequest(r, "void", n, "none", "write")

VoidJournal(r, n) ==
  /\ journal[n] \in {"DRAFT", "POSTED"}
  /\ BeginRequest(r, "void", n, "none", IF linked[n] THEN "period" ELSE "write")

\* No period overlaps with the one to be created.
CreatePeriod(r, p) ==
  /\ period[p] = "ABSENT"
  /\ BeginRequest(r, "open", p, "none", "write")

ClosePeriod(r, p) ==
  /\ period[p] = "OPEN"
  /\ BeginRequest(r, "close", p, "none", "write")

-----------------------------------------------------------------------------
(* writeJournal *)

\* The date of the journal that r writes, posts or voids
DateOf(r) ==
  CASE act[r].op = "move" -> dated[act[r].row]
    [] act[r].op \in {"post", "void"} -> date[act[r].row]
    [] OTHER -> act[r].row

WritesJournal(r) == act[r].op \in {"move", "journal"}

\* The period of the date must be open; a new journal may do without one.
ReadPeriod(r) ==
  /\ at[r] = "period"
  /\ period[DateOf(r)] # "CLOSED"
  /\ found' = [found EXCEPT ![r] = period[DateOf(r)] = "OPEN"]
  /\ at' = [at EXCEPT ![r] = IF WritesJournal(r) THEN "number" ELSE "write"]
  /\ UNCHANGED <<kind, dated, books, act, number, raced>>

\* Faulty variant: the number is a count that includes what is under way.
ReadCount(r) ==
  /\ at[r] = "number"
  /\ LET n == 1 + Cardinality(Written) + Cardinality({q \in Running : at[q] = "insert"})
     IN n <= MaxNumber /\ number' = [number EXCEPT ![r] = n]
  /\ at' = [at EXCEPT ![r] = "insert"]
  /\ UNCHANGED <<kind, dated, books, act, found, raced>>

\* One more than the greatest number committed so far
ReadMax(r) ==
  /\ at[r] = "number"
  /\ \E n \in Numbers :
       /\ n - 1 \in Written \union {0}
       /\ \A m \in Written : m < n
       /\ number' = [number EXCEPT ![r] = n]
  /\ at' = [at EXCEPT ![r] = "insert"]
  /\ UNCHANGED <<kind, dated, books, act, found, raced>>

\* The unique index makes the INSERT wait for an uncommitted equal number.
InsertJournal(r) ==
  /\ at[r] = "insert"
  /\ journal[number[r]] = "ABSENT"
  /\ \A q \in Requests : ~(at[q] = "write" /\ number[q] = number[r])
  /\ at' = [at EXCEPT ![r] = "write"]
  /\ UNCHANGED <<kind, dated, books, act, number, found, raced>>

-----------------------------------------------------------------------------
(* The end of a transaction *)

\* The rows request q has read and relies on: the row it is about, unless that
\* is the date of a new journal, and the period it found
Reads(q) == (IF act[q].op = "journal" THEN {} ELSE {act[q].row})
              \union (IF found[q] THEN {DateOf(q)} ELSE {})

Release(r) ==
  /\ at' = [at EXCEPT ![r] = "idle"]
  /\ act' = [act EXCEPT ![r] = NoEntry]
  /\ number' = [number EXCEPT ![r] = 0]
  /\ found' = [found EXCEPT ![r] = FALSE]

\* The row of r is updated by id: its status is not asked again.
Commit(r, op) ==
  /\ at[r] = "write" /\ act[r].op = op
  /\ raced' = IF \E q \in Running \ {r} : act[r].row \in Reads(q)
              THEN raced \union {act[r].row} ELSE raced
  /\ Release(r)
  /\ UNCHANGED <<kind, dated>>

\* The journal number[r], with the given status, for document and status e
AddJournal(r, status, e) ==
  /\ journal' = [journal EXCEPT ![number[r]] = status]
  /\ date' = [date EXCEPT ![number[r]] = DateOf(r)]
  /\ linked' = [linked EXCEPT ![number[r]] = found[r]]
  /\ entry' = [entry EXCEPT ![number[r]] = e]

CommitMove(r) ==
  /\ Commit(r, "move")
  /\ doc' = [doc EXCEPT ![act[r].row] = act[r].to]
  /\ IF act[r].to \in Entries
     THEN AddJournal(r, "POSTED", <<act[r].row, act[r].to>>)
     ELSE UNCHANGED <<journal, date, linked, entry>>
  /\ UNCHANGED period

CommitCreate(r) ==
  /\ Commit(r, "journal")
  /\ AddJournal(r, "DRAFT", NoEntry)
  /\ UNCHANGED <<doc, period>>

CommitPost(r) ==
  /\ Commit(r, "post")
  /\ journal' = [journal EXCEPT ![act[r].row] = "POSTED"]
  /\ UNCHANGED <<doc, period, date, linked, entry>>

\* Faulty variant: voiding takes the journal back to a draft.
CommitReopen(r) ==
  /\ Commit(r, "void")
  /\ journal' = [journal EXCEPT ![act[r].row] = IF @ = "VOID" THEN "REOPENED" ELSE "VOID"]
  /\ UNCHANGED <<doc, period, date, linked, entry>>

CommitVoid(r) ==
  /\ Commit(r, "void")
  /\ journal' = [journal EXCEPT ![act[r].row] = "VOID"]
  /\ UNCHANGED <<doc, period, date, linked, entry>>

\* The names of periods are unique: the second of two inserts fails.
CommitOpen(r) ==
  /\ Commit(r, "open")
  /\ period[act[r].row] = "ABSENT"
  /\ period' = [period EXCEPT ![act[r].row] = "OPEN"]
  /\ UNCHANGED <<doc, journal, date, linked, entry>>

CommitClose(r) ==
  /\ Commit(r, "close")
  /\ period' = [period EXCEPT ![act[r].row] = "CLOSED"]
  /\ UNCHANGED <<doc, journal, date, linked, entry>>

\* A check fails, the number is taken, or the transaction is aborted.
Abort(r) ==
  /\ at[r] # "idle"
  /\ Release(r)
  /\ UNCHANGED <<kind, dated, books, raced>>

LedgerNext ==
  \E r \in Requests :
    \/ \E d \in Docs, to \in DocStatuses : Move(r, d, to)
    \/ \E p \in Periods : CreateJournal(r, p) \/ CreatePeriod(r, p) \/ ClosePeriod(r, p)
    \/ \E n \in Numbers : PostJournal(r, n) \/ VoidJournal(r, n)
    \/ ReadPeriod(r) \/ ReadMax(r) \/ InsertJournal(r)
    \/ CommitMove(r) \/ CommitCreate(r) \/ CommitPost(r) \/ CommitVoid(r)
    \/ CommitOpen(r) \/ CommitClose(r) \/ Abort(r)

LedgerSpec == LedgerInit /\ [][LedgerNext]_ledgerVars

-----------------------------------------------------------------------------
(* Properties *)

\* Journals are numbered without gaps, however requests overlap or fail: the
\* number is one more than the maximum, and numbers are unique.
GaplessNumbers == \A n \in Written : n = 1 \/ n - 1 \in Written

EntriesOf(d, to) == {n \in Numbers : entry[n] = <<d, to>>}

\* The entries that the status of document d stands for
Says(d) == IF doc[d] = "REFUNDED" THEN Entries ELSE {doc[d]} \intersect Entries

\* The entries of d that have a journal of the given status
EntriesWith(d, st) == {to \in Entries : \E n \in EntriesOf(d, to) : journal[n] = st}

\* Document and journal are written together: a posted bill, expense, payroll
\* run or gift has its journal, and a refunded gift the reversing one as well;
\* it is posted, or somebody has voided it since.
PostedIsBacked ==
  \A d \in Docs : Says(d) \subseteq EntriesWith(d, "POSTED") \union EntriesWith(d, "VOID")

\* Nothing else is booked for a document, and nothing whose journal was voided,
\* unless two requests on it overlapped.
BookedAsSaid ==
  \A d \in Docs \ raced : EntriesWith(d, "POSTED") = Says(d) \ EntriesWith(d, "VOID")

\* A document is posted once and refunded once, unless two requests on it
\* overlapped: nothing but an overlap can enter a document twice.
EnteredOnce ==
  \A d \in Docs \ raced, to \in Entries : Cardinality(EntriesOf(d, to)) <= 1

\* What the posted journals of a document add up to is what its status says,
\* once, less the journals that were voided: voidJournal does not ask whose
\* journal it is, writes no reversing one and leaves the document as it is.
EntriesMatch == PostedIsBacked /\ BookedAsSaid /\ EnteredOnce

\* The journals of a closed period change only by a request that overlapped
\* with the closing, or if they were drafted before the period existed.
SealedUnlessRaced ==
  [][\A n \in Numbers :
       journal'[n] # journal[n] =>
         \/ period[date'[n]] # "CLOSED"
         \/ date'[n] \in raced
         \/ ~linked'[n]]_ledgerVars

\* A void journal stays void, unless requests on it overlapped.
VoidUnlessRaced ==
  [][\A n \in Numbers : journal[n] = "VOID" => journal'[n] = "VOID" \/ n \in raced]_ledgerVars

\* Journals that are closed or void change only by requests that overlap.
JournalsKept == SealedUnlessRaced /\ VoidUnlessRaced
=============================================================================
