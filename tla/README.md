# Zion: TLA+ models and proofs

Zion is a multi-tenant platform for churches: a NestJS API (`src/apps/api`) over
PostgreSQL, a Next.js web client, an offline-first Flutter client and shared
contracts. The programs that are hard to test are those where several requests,
workers or devices meet in the same rows. This directory models them in TLA+,
checks the models with TLC on small instances, and proves the most important
properties for every instance with TLAPS.

`PROJECT.json` is the index: components, runs, the source lines each definition
stands for, findings, hazards and theorems.

## The system

Three mechanisms are shared by everything below.

* **Transactions.** Every service call runs its SQL inside `PrismaService.withScope`
  (READ COMMITTED, 15 s timeout, nothing retried). A service that checks a status
  and writes by id in the same transaction does not lock what it checked; a
  service that uses two transactions does not even have a common snapshot.
* **Workers.** Runners are timers (`setInterval`) in every API or worker process.
  They claim rows with `FOR UPDATE SKIP LOCKED`, commit the claim, do slow work
  outside any transaction and record the outcome in another one. Nothing reclaims
  rows of a worker that went away.
* **Events.** Domain changes insert a row of `outbox_events` in their own
  transaction; relays deliver those rows to one endpoint.

| Component | State | Operations | Hard behaviour | What makes it correct | Module |
|---|---|---|---|---|---|
| Outbox, relay (`infrastructure/events`) | `outbox_events` rows; per relay its batch, loop position, `stopped` | enqueue, claimBatch, publish, markPublished, markFailed, shutdown | several relays, crashes, lost responses and lost commit acknowledgements, retries | exclusive claims, no duplicate without a reported failure, published only if received, every event is published or uses up its attempts | `Outbox`, `EventDelivery` |
| Sessions (`auth/session.service`) | `auth_sessions`, `refresh_tokens` | create, rotate, revoke one / all / all but one | concurrent use of one token, row locks in opposite orders, deadlocks | one chain of tokens per session, a revoked session has no live token, every request ends | `Sessions`, `SessionChain` |
| Campaigns (`notifications`) | `notification_campaigns`, `notification_messages` | send, schedule, cancel; claim, dispatch, record, recompute status | calls race each other and the workers, provider calls between transactions, retries | exclusive claims, no unexcused resend, SENT means delivered, everything settles | `Campaign` |
| Ledger (`accounting`) | `journals`, `fiscal_periods`, statuses of bills, expenses, payroll runs, orders, gifts | create/post/void journal, open/close period, approve, post, refund | checks that are stale when the write commits, numbers computed from a maximum | gapless numbers, what is booked is what the documents say, no double posting, closed periods are sealed | `Ledger` |
| Memory (`memory`) | `memory_artifacts.status`, `memory_processing_jobs` | upload, archive, reprocess; claim, dispatch, record | claim without attempt count, status written by whichever job ends last, requests that read and then write a job | one holder per job, PROCESSING means that work is owed, jobs settle | `Memory` |
| Sermons (`sermon`) | `sermons.status`, `sermon_processing_jobs`, transcript versions, derived fields | create, publish, archive, reprocess, generate, upsert transcript; stages, requeue, readiness | stages depend on a transcript that another stage or call replaces; a status chosen from an earlier read | derived fields follow the current transcript, archived and published stay, processing ends | `Sermon` |
| AI index (`ai`) | `ai_documents`, `ai_chunks` | find pending, index, embed, mark | polling without locks, sources that change while they are indexed | INDEXED means searchable and current, no source is left out for good by a bad one | `AiIndex` |
| Mobile sync (`apps/mobile/lib/core`) | Hive outbox, tokens, active church | write, kick, drain, backoff, refresh; sign in, sign out, restart | lost and late responses, order of dependent items, kills of the application | no write is lost, none is taken twice unless its answer was, items of a resource are sent in order | `MobileSync` |
| Invitations (`onboarding/invitation.service`) | the invitation, its challenges, user and membership | invite, resend, revoke; accept, decline | four transactions per request, writes by id, several tokens of one invitation | an accepted invitation has a member, a shut one lets nobody in | `Invitations` |
| Member import (`onboarding`) | import job with `resumeIndex`, users, memberships | commit, apply chunk | crash between a chunk and its index, overlapping commits, rows that clash with users | the import resumes where it stopped, no row is imported twice | `MemberImport` |
| Accounts (`auth`) | credential, challenges, factors, recovery codes, sessions | sign in (password, OAuth, link, code, invitation), second step, reset and change of the password, switch, confirm and disable a factor, replace the codes | every request is three to six transactions on the same rows | secrets admit one request, sessions end with their password, a factor cannot be avoided | `Accounts` |
| Membership (`membership`) | members, attendance, visitors, ... | mostly single statements | check and write in two transactions | no attendance in a closed session | planned |
| Reconciliation, budgets, reports | statements, matches | match, complete | the books move under a reconciliation | a completed statement agrees with the books | planned |
| Tenancy, audit, configuration, Redis, storage, transport, web, build | - | - | none of their own | - | not modelled |

Interactions: campaigns, sermons, memory, giving and sign-up all enqueue events;
password reset and change, logout and tenant switch call the session service;
documents of giving, procurement and payroll are posted through
`LedgerService.writeJournal`, which reads fiscal periods; the AI index reads what
memory and sermons write; invitations and accounts share the verification
service; the mobile application is a client of the API and of its sessions.

## The modules

### `EventDelivery` and `Outbox`

`EventDelivery` is the promise to consumers: an event is accepted with its
transaction, received zero or more times, and retired only after it was received.
It has no relays, rows or attempts.

`Outbox` is the implementation. `outboxStatus`, `attempts` and `due` are the columns of
the table, `due` being the waiting rows whose `available_at` has passed, oldest
first. A relay's `drainPhase`, `batch` and `current` are the locals of
`OutboxRelay.drain`. `Claim` is `claimBatch` and its one UPDATE; `TakeRow`,
`PublishOk`, `PublishError`, `MarkPublished`, `MarkFailed` and `EndDrain` follow
the loop, split at every await; `MarkPublishedError` and `MarkFailedError` are
those updates failing, before or after they took effect. `Stop` and `Exit` are
shutdown and crash. A row that has used up its attempts is FAILED and due at once, and
`Claim` takes it as the code does. `attempts` saturates at `MaxAttempts + 1`; it is only compared
with `MaxAttempts`. `delivered`, `excused` and `stranded` are history variables.

### `SessionChain` and `Sessions`

`SessionChain` is the promise to the holder of a refresh token: a session goes on by one
token at a time, an exchange retires it for a new one, a closed session goes on by none,
and each of these happens at once. A session that is created while all are being revoked
may lose its token and stay open; `Close` allows it, because the code does it.

`Sessions` is the implementation. Rotation reads the token in one transaction (`PresentUsable`,
`PresentUsed`) and changes it in another: `Reclaim` is the compare-and-set on `revoked_at`,
`Rotate` the rest, which waits for the session's row because it sets `lastSeenAt`. A revocation
is two UPDATEs; each selects its rows in a snapshot (`SelectSessions`, `SelectTokens`) and then
locks them one at a time, re-checking each (`LockSession`, `LockToken`), as READ COMMITTED
does. Writes show at commit; until then their rows are in `locked[r]`. `DeadlockVictim` aborts
any request of a cycle of waiting ones; `Fail` is a process or connection that dies.

### `Campaign`

`Begin...`, `CountMessages`, `Expand`, `Reschedule` and `Cancel` are the
transactions of `send`, `schedule` and `cancel`. A worker's `Claim`, `Dispatch...`,
`MarkSent`, `EnqueueSent`, `MarkBlocked`, `MarkFailed`, `ReadCounts` and
`WriteStatus` are the transactions and provider calls of `runOnce`; `MarkError`
and `Abandon` are the ones that fail, caught and not caught. A message is a pair
of a member and the call that created it, so two calls that both expand create two.

### `Ledger`

A request is a record: operation, row and target status; `at` says at which statement it is.
`Move`, `PostJournal`, `VoidJournal`, `CreatePeriod`, `ClosePeriod` and `CreateJournal` are its
first statement, a read and a check; `ReadPeriod`, `ReadMax` and `InsertJournal` are the
statements of `writeJournal`; the `Commit...` actions are its last write and its commit. `Moves`
is the status graph of each kind of document. `entry` says which document, and which move of it,
a journal was written for: `voidJournal` does not ask, so a posted document can lose its
journal. `raced` is history: the rows that were written while another request had already read
them. It lets a property say what holds when requests do not overlap, which is where the code's
checks are meant to work.

### `Memory`

One artifact. `job` holds the METADATA job of the upload and the jobs that requests
create; a job is its stage and who created it, because the dedupe key has no unique
index. `FindJob` and `CreateJob`, `ResetJob` or `KeepJob` are the read and the write
of `enqueueJob` under `reprocess`; `Archive` is one update. A worker claims
(`Claim`, which leaves `attempts` alone as the code does), runs a job (`Dispatch`,
with the status it writes on the artifact) and records it (`MarkSucceeded`,
`MarkBlocked`, `MarkFailed`). `MarkError` is a recording update that fails and is
caught, `Abandon` a worker that goes away. `raced` and `stranded` are history.

### `Sermon`

One sermon, from the call that creates it. A call's record holds what it has read: `enqueue`
reads all its jobs before it writes the first. `status`, `job`, `attempts` and `due` are
columns; a transcript is its version, and `output[s]` is the version from which stage `s` last
derived its fields. A worker decides whether a job may be retried by the attempts it read when
it claimed it (`spent`), not by those on the row. The worker's actions follow `execute`: claim,
the wait for a transcript, the stage, the outcome, and the two transactions of
`markReadyIfSettled`.

### `AiIndex` and `MCAiIndex`

A worker's pass: `FindSources` and `FindSermons` (the two queries, oldest first and limited),
then per document `Upsert`, `ReplaceChunks`, `StoreEmbeddings` and `MarkIndexed`, or
`MarkPartial`, whose own failure `SkipPartial` passes over; `IndexError` and `MarkFailed` are
the catch. Chunks are the text they were made from, who wrote them, and whether embeddings refer
to them. `Limited` is what a query with a limit may return, `Oldest` its order. `QueueSermon` is
the INDEX stage of `Sermon`; `BecomeReady`, `Archive` and `Withdraw` are what `Memory` does to
an artifact, the last one when the memory worker marks it FAILED, which hides its text from the
queries of the indexer again. An artifact that is ready is readable, not readable as text, or
has bytes that storage no longer has (`kind`); the last one fails at every pass and stays the
oldest. `MCAiIndex` fixes the newer artifact to be readable and lets the sermon and a readable
artifact be there in different behaviours only.

### `MobileSync`

The application is one isolate, so an action is what lies between two awaits. A
write is its number; `mark` are the attendance marks, which share the resource of
their church, the others are gifts with a resource of their own. `drain[d]` holds
the locals of `SyncEngine.drain`; there are two slots although `_draining` admits one,
so that a faulty guard could be seen. `Send` is one request with every answer the API
and the network can give: taken, refused, unanswered, with or without having been taken, and a
timeout whose request is still on its way (`late`, `Arrive`). A 401 refreshes the tokens and
sends the request once more; when that one is taken and its answer lost, the engine is told
of the first 401 (`Unauthenticated`), and the write stays in the box to be sent again. No
mark is ever taken (`Takes`): the API has no route for the path they are posted to, so what
the model says of marks is the order in which they are sent. `Restart` is a kill at any await.

### `Invitations`

One address and one church. An administrator's call reads the row (`Begin`), writes
it by key or id (`Open`, `Revoke`), issues a challenge (`Issue`) and writes its id
(`Link`) in transactions of their own. A bearer finds the token (`Present`), spends
it (`Consume`, the compare-and-set), reads the invitation (`Check`), looks for
the user (`Find`), makes one (`Provision`) and joins (`Join`), or declines. `SignUp`
is the same person registering elsewhere meanwhile. `invitation` is the status column;
`shut` and `overwritten` are history.

### `MemberImport`

`status` and `resumeIndex` are columns of the job; `accounts`, `taken` and `members` say
which rows meet a user that is found by address, a user that is not, and a member.
A commit reads the job, applies a chunk in one transaction and writes the index in
the next; `Apply` may also commit and have its acknowledgement lost, which the call takes
for a failure. `made` says how many members a row has made, `lost` which rows were applied
by a call that did not record them, `overlapped` that two calls worked at once: history.

### `MCApi` and `MCPeople`

Two runs check several modules each. `MCApi` puts `Outbox` and `Sessions` side by side,
`MCPeople` `MemberImport`, `Invitations` and `MobileSync`. They share no variable, so one of
them moves, with all its behaviours, while the others stay in an initial state, where nothing
is due and their fairness demands nothing. What such a run shows of a module is what a run of
it alone would; its states are the sum and not the product.

### `Accounts` and `MCAccounts`

One user, whose requests overlap. Where a request is, what it asks for and what it has in hand
is a record, `request[r]`; a password, a set of recovery codes and a session are named by the
request that made them. Every transaction is a step; those of `confirmTotp`,
`regenerateRecoveryCodes` and `disableFactor` are split at the rows they lock (`Held`) and
delete (`Locked`), as READ COMMITTED lets them overlap. `Issue`, `Find...`, `Consume` and
`CountAttempt` are the verification service; `Establish`, `ReadMfaChallenge`, `VerifyTotp`,
`UseRecoveryCode`, `CompleteChallenge` and `Open` the way to a session; `AcceptInvitation` comes
straight to `Open`, because the invitation service opens the session itself and asks for no
factor. `Switch` takes any session there ever was, revoked or not, since `switchTenant` looks
for the hash of a refresh token and asks nothing else; `Abort` is a request that dies or is
rolled back. A session remembers the password it goes back to (`under`), which a switch of the
tenant hands on, and how it came to be opened after that password was changed (`late`). `free`
says that no factor was active at some moment of the request. Rotation and deadlocks of session
rows are in `Sessions`; here a revocation is one step, because `Sessions` shows (and proves)
that nothing survives it. `MCAccounts` adds the symmetry of the requests.

## Runs

| Run | Instance | Distinct states | What it shows |
|---|---|---|---|
| `Api` | `Outbox`: 2 relays, 2 events, batch 2, 2 attempts, 2 faults; `Sessions`: 2 requests, 2 sessions, 3 tokens, 1 fault | 128 920 | claims are exclusive, duplicates follow only reported failures, `EventDelivery` is implemented, events are published or use up their attempts; one chain per session, `SessionChain` is implemented (hence revoked is dead), requests end |
| `Campaign` | 1 member, 2 calls, 2 workers, 2 attempts, 1 fault | 241 093 | resends are excused, SENT is delivered, messages settle |
| `Ledger` | 1 document of any kind, 1 period, 2 requests, 2 journals | 1 504 899 | gapless numbers; the posted journals of a document are what its status says, once, but for overlaps and voids; closed periods and void journals are kept |
| `Memory` | 2 stages, 2 calls, 2 workers, 1 attempt, 1 fault | 58 228 | one holder per job but for races, PROCESSING is owed, jobs settle unless their worker went away |
| `Sermon` | 1 derived stage, 2 calls, 2 workers, 2 attempts, 2 versions, 1 fault | 718 811 | what is shown was derived from the current transcript, archived and published stay, processing ends |
| `AiIndex` | 2 artifacts, or 1 and a sermon with 2 texts; 2 workers, batch 1, 1 fault | 237 706 | INDEXED means searchable and current but for overlaps; nothing readable is left out for good unless unreadable sources fill the batch |
| `People` | `MemberImport`: 3 commits, 5 rows (3 with an address, 1 with a number), chunk 2, 3 faults; `Invitations`: 3 administrators' calls, 2 bearers, 2 tokens, 2 roles; `MobileSync`: 2 churches, 2 writes, each taken at most twice | 736 493 | what lies before the index is imported, rows are imported twice only as described; membership and acceptance agree, a shut invitation admits nobody; no write is lost, duplicates need a lost answer, marks are sent in order unless the earlier one waited |
| `Accounts` | 3 requests, 1 factor, 2 challenges, 1 attempt, 1 fault | 1 189 790 | secrets admit one request, sessions end with their password but for the cases named, only the acceptance of an invitation avoids a factor |

Four runs must find a counterexample; they are the findings of `PROJECT.json`.

| Run | Statement | What happens |
|---|---|---|
| `MemoryRetries` | "retries with exponential backoff up to max_attempts, then the job is FAILED" (MEMORY_ENGINE.md:134-135) | `claimBatch` does not count attempts and nothing else does, so a job whose storage keeps refusing is queued for ever |
| `MemoryReclaim` | "a crash leaves the job RUNNING to be reclaimed rather than lost" (MEMORY_ENGINE.md:107-109) | `claimBatch` selects PENDING jobs only, and no request requeues a RUNNING one: the job of a worker that went away stays RUNNING |
| `OutboxParks` | "until the attempt budget is exhausted, at which point it is parked as FAILED ... for an operator to inspect" (outbox.service.ts:94-98) | the exhausted event is FAILED with `availableAt` now, the claim selects FAILED rows, and it is sent again at the next poll |
| `AccountsAccept` | "A login that would otherwise be single-factor but for a user who has an active second factor returns an MFA challenge instead of a session" (AUTHENTICATION.md:47-48) | `accept` opens an AAL1 session for the user of the address without counting factors (invitation.service.ts:362) |

The violated statements are not what the passing runs check of the same code:
`Settles` asks for the attempts to be used and not for what follows, `JobsSettle` excepts the
jobs of a worker that went away, `SecondFactor` excepts the acceptance of an invitation.

`CHECK_DEADLOCK FALSE` stands in every configuration but that of `Ledger`: there the system
may legitimately stop, when every bounded event, token, call or write has been used and
the fault budget is spent. In `Ledger` some request can always begin.

### Disagreements the models contain and no run states

The models have these behaviours because the code has them. Each was found while
modelling; some contradict a sentence of the documentation, which is named. No run of
the suite is spent on them: the properties above name them as the exceptions under
which they may fail, or are stated so that they do not depend on them.

* Outbox: a relay that exits after `claimBatch` leaves its rows PUBLISHING, which no claim
  selects ("at-least-once", MEMORY_ENGINE.md:169-170).
* Sessions: the revocation that answers the reuse of a token can be the victim of a
  deadlock with a rotation, and is not retried (AUTHENTICATION.md).
* Campaign: a failing attempt writes PENDING over a CANCELLED message
  (NOTIFICATIONS.md:78-79); messages that are terminal when inserted are never claimed, so
  their campaign stays SENDING (NOTIFICATIONS.md:75-76); `refreshCampaign` writes a
  status computed from an earlier count (notification-job.runner.ts:270).
* Ledger: a draft older than its period has no `periodId` and is posted after the close
  (ACCOUNTING.md:90); two refunds of one gift overlap and both write a reversing journal;
  `voidJournal` writes no reversing journal (ACCOUNTING.md:91-92) and can void the journal of
  a document, which stays POSTED with nothing booked for it.
* Memory: METADATA that runs after EXTRACT makes a PARTIAL artifact READY, and either
  brings an archived one back.
* Sermon: a stage that exhausts its attempts last does not call `markReadyIfSettled`,
  and the sermon stays PROCESSING (SERMON.md:128-130); a stage that runs while its transcript
  is replaced keeps what it derived from the old one.
* AI index: a document is INDEXED without embeddings for good if one worker replaces its
  chunks when another is about to mark it, or just has, and then fails (ai-index.service.ts:52-56);
  as many unreadable sources as a batch has places keep newer ones out, although "one bad
  source must not stall the pass" (ai-index.runner.ts:69).
* Mobile: an item that waits for its next attempt is overtaken by a later item of its
  resource in the next drain, although items that share a resource are never reordered
  (MOBILE.md:223; `NeverReordered` states it, and is false without the exception of
  `ReorderedByWaiting`); the background task drains nothing (MOBILE.md:226-229);
  attendance marks are posted to a route the API does not have; a refusal is shown under the
  church that is active when it arrives; nothing in the API reads the Idempotency-Key.
* Invitations: accept does not compare the token with `challenge_id`, so the tokens of
  earlier mails stay good (CHURCH_ONBOARDING.md:64-66, invitation.service.ts:279); a
  revocation after the check of accept does not stop it; an invited user who is new gets no
  EMAIL identity (:459-476), so a second invitation does not find them; the token is spent
  before the password is asked for.
* Member import: a crash between a chunk and its index imports rows without an address
  again (CHURCH_ONBOARDING.md:87-88); a row whose address or number belongs to a user that is
  not found by it leaves the import PARTIAL however often it is retried; a failing audit
  turns a COMPLETED job PARTIAL (member-import.service.ts:170-199).
* Accounts: `switchTenant` opens a session from the refresh token of one that was revoked, by
  a password reset too (auth.service.ts:604-641); a TOTP factor that is disabled during its
  confirmation becomes ACTIVE without its secret and locks its user out
  (AUTHENTICATION.md:164-166); the second step of a sign-in that began before a
  password reset opens a session after it; attempts are compared before they are counted,
  so overlapping requests exceed the limit (verification.service.ts:116); two replacements
  of the recovery codes that overlap leave two sets; `secret_hash` is unique over all
  challenges (schema.prisma:681), so two six-digit codes can collide and the issue fails.

**Bounds.** Every property is about two or three actors that meet in one row or one
document, so two relays, workers, calls or bearers suffice to show it fail, and three
requests or administrators where a third must act between two steps of one of them. In
`Sessions` the third token lets a rotated token be presented again while its successor
rotates, and two sessions allow "all but one". Two attempts distinguish a retry from the
last attempt; in `Memory` the count never moves, so one is as good. Two faults in `Outbox`
let a crash follow a failed update, three in `MemberImport` let every commit fail; one in
the others, where every fault is a single lost step. Two journals give every operation
on journals a partner and let a gift be posted and refunded. Two transcripts, two texts and
two tokens are an old one and its replacement. Five rows in chunks of two make a first,
a middle and a short last chunk and give each kind of row a place. In `AiIndex` a batch of one
and two artifacts are the least in which a source that cannot be read can keep another out;
the sermon meets only artifacts that are not worked on, because the two kinds of source
share nothing but the places of a batch. `AccountsAccept` and `OutboxParks` need one
request after another and one relay.

Larger instances were run outside the suite without finding anything new: Outbox with 3
events, 1 attempt and 1 fault (183 000 states), Campaign with 2 members and 1 attempt
(safety only, 5.6 million). The theorems remove the bounds from every safety property the runs
check.

**Fairness.**

* `Outbox`: every relay's timer fires again and again and an awaited call settles
  (weak fairness of `Claim` and of the steps of a drain); time passes (`BecomeDue`);
  a stopped process that is idle is replaced. The endpoint need not accept
  anything, producers need not enqueue and processes need not stop.
* `Sessions`: strong fairness of a request's steps: PostgreSQL queues lock waiters,
  so a lock that is released again and again is obtained. Deadlock detection
  (`DeadlockVictim`) is weakly fair, as `deadlock_timeout` is. No request need begin.
* `Campaign`: weak fairness of every call that was begun, of every worker and of
  time. `Claim` is among the worker's steps because the timer polls.
* `Memory`: weak fairness of calls, of time and of the workers' timers; strong fairness of
  `Dispatch`, the premise that storage does not refuse one job for ever. `MemoryRetries`
  runs without that premise.
* `Sermon`: weak fairness of calls, workers and time; no stage has to succeed.
* `AiIndex`: weak fairness of the workers, no more. Nothing in the code keeps two workers
  from overtaking each other for ever (`Clash`), or newer sources from being crowded out by
  unreadable ones (`CrowdedOut`); `Converges` names both as its exceptions.
* `Ledger`, `MobileSync`, `Invitations`, `MemberImport`, `Accounts`: only safety is claimed.

## Proofs

Every invariant and every action property of the runs is a theorem, for every value of
the constants; liveness is left to TLC. The proofs have the same shape: a type invariant made
inductive, a conjunction of named parts (`IInv`, or the prefixed name given below) with one
lemma per action, and theorems drawn from it. They assume only the named assumptions on the
constants: bounds are naturals, the stand-in values are distinct from the rows. Relays, events,
workers, members, calls, requests, sessions, tokens, documents, periods, artifacts, sermons,
stages and churches are arbitrary sets; none of them is assumed to be finite.

Three proof modules extend two components each, which share no variable, and each theorem is
about the specification of one of them: `OutboxLedgerProofs` (`Outbox`, `Ledger`),
`ClientProofs` (`Sessions`, `MobileSync`: what a device holds) and `MembershipProofs`
(`MemberImport`, `Invitations`: how a person becomes a member). Where two would have one name,
for these modules or for a run, one of them has a prefix: `OutboxSpec`, `OutboxTypeOK`, ...;
`LedgerSpec`, ...; `SyncSpec`, ...; `InviteSpec`, .... The others have a module each.

`OutboxLedgerProofs`, the outbox

* `TypeCorrect`: `OutboxTypeOK` needs `PhaseShape`: a relay in the middle of a row has a
  current row, others have none.
* `ClaimsExclusive`: `ClaimExclusive` is not inductive. What makes `Claim` safe is that
  the rows it takes are nobody's, so `IInv` adds that due rows are waiting and
  distinct (`DueWaiting`, `DueDistinct`), that a held row is PUBLISHING, or PUBLISHED
  when its acknowledgement was lost (`HandStatus`), and that stranded rows belong to
  nobody (`StrandedAlone`).
* `DuplicatesExcused` (action property): a delivered event that is neither
  PUBLISHED nor about to be is excused (`DeliveredShape`, `FailedExcused`).
* `OutboxImplementsEventDelivery`: the refinement; `PublishedDelivered` and
  `AcceptedDelivered` say that the guard of `Retire` holds when a row becomes
  PUBLISHED.

`ClientProofs`, the sessions

* `TypeCorrect`: with `PhaseShape`, what a request holds in each phase.
* `Lineage` and `Revocation`: the argument is about locks. No row is locked twice
  (`LocksDisjoint`); a locked row still satisfies the condition under which it was
  locked (`LockedHold`); when a revocation has locked a session, every live token of
  that session is among those it has selected or locked, because a rotation must
  lock the session before it adds one (`Covered`); the tables themselves are well
  formed (`Issued`). `CommitRevocation` then leaves no live token, and
  `Rotate` cannot put one back.
* `SessionsImplementSessionChain`: the refinement. A session's one live token is the
  current one (`OneCurrent`, from `SingleLineage`). `CreateSession` is `SignIn`; `Rotate` is
  `Exchange`, which needs the session to be ACTIVE, and it is because its token was live
  (`RevokedIsDead`); `CommitRevocation` is `Close` of the sessions it has locked, where
  `LockedHold` and `Covered` say that they were ACTIVE and lose their tokens; all other
  steps change no row.

`CampaignProofs`

* `TypeCorrect`: with `PhaseShape`, what a worker has in hand at each place of `runOnce`.
* `ClaimsExclusive`: a claimed message was PENDING, and what a worker has in hand is
  not (`HeldOnce`), so hands stay disjoint (`HandsDisjoint`). Apart from its
  insertion, the one write that makes a message PENDING is that of its holder, which
  lets go of it in the same step.
* `SentDelivered`: `TakenWhenMarked` says that whoever is about to write SENT has
  heard from the provider.
* `ResendsExcused` (action property): a message that was taken, with no attempt
  reported failed, is neither PENDING nor in a batch (`TakenOnce`), and `markFailed`
  is reached only after a report (`ExcusedWhenFailed`).
* `SettledStays` (action property): an expansion inserts messages that do not exist
  yet (`InsertedOnce`), and a cancellation and a claim select by status.

`OutboxLedgerProofs`, the ledger (`LedgerInv`)

* `LedgerTypeCorrect`: with `RequestShape`, what a request knows at each statement.
* The others are about what a request has read and acts on later. `RequestInv`
  says of each of them that it still holds, or that the row was raced: the number it
  computed is 1 or follows a written journal (`NumberFits`) and, once inserted, is its
  own until it commits (`NumberHeld`, the unique index); the status move it checked is
  still a move of the document (`MoveCurrent`); a journal to be posted is still a draft
  (`JournalCurrent`); the period it found is still open (`PeriodCurrent`).
* `Gapless` follows from `NumberFits` and `NumberHeld` without the word raced: the
  index alone suffices. `Backed` needs no history either: it rests on `EntriesBacked`, and on
  an entered journal being posted or void ever after (`JournalShape`). `BookedIsSaid` and
  `EnteredOnceUnlessRaced` rest on `EntryCurrent`, a document that was entered does not
  return to a status it can be entered from, and `EntryUnique`. `Sealed` and `VoidStays` (action
  properties) read `PeriodCurrent` and `JournalCurrent` at the commit; `JournalShape`
  adds that the period of a linked journal exists. `EntriesMatchDocuments` and
  `JournalsStayKept` put these together as the properties that the run checks.

`MembershipProofs`, the invitations

* `InviteTypeCorrect`: with what a caller knows at each place. Whoever is about to join has an
  account and a role, because it passed `Check` on an invitation that has one.
* `MembersAreAccepted`: a call that writes the status had read one that was not ACCEPTED
  (`AdminKnows`, `BearerKnows`), so when it finds ACCEPTED under its hands the overwrite is
  the one the property names.
* `ShutStaysOut`: while `shut` holds the invitation is REVOKED and nobody is past the
  check (`ShutMeansShut`); `Check` then lets nobody past, whatever token it has spent, and
  only `Open` ends it.

`MembershipProofs`, the import

* `TypeCorrect`: with the places of a commit.
* `Resumes`: what a commit has applied lies before what it will record (`ReachedImported`);
  a row without an address makes a user each time it is applied, and finds none (`MadeFound`);
  unless commits overlapped, at most one of them is past its read (`OneAtWork`), and what it
  made was recorded or was lost with it (`MadeRecorded`).

`AccountsProofs`

* `TypeCorrect`: with what a request asks for and has in hand at each place (`Fits`).
* `SecretsSpentOnce`: a request that has passed with a challenge or a code finds it spent
  (`UsesSpent`, `UsedUp`), and a code whose maker is not done is not there to be used
  (`CodesMade`), so a set that is created anew cannot be one that was used.
* `SessionsFollowPassword`: while the request that set the present password is still to
  revoke, its own session has already followed (`OwnFollows`), so that `RevokeAll` spares
  nobody else (`SessionsFollow`, `Revokes`). A session is opened last (`OpenedLast`), so none
  can be the own session of another request before it is there (`OwnIsMade`). That the session
  a switch starts from may be over costs the exception "revived" and nothing else.
* `SecondFactorHolds`: of the sign-ins that ask (`Asked`: all but the acceptance of an
  invitation), what a request was told of the factors is still true while it is on
  its way (`FreeNow`, `FreeToOpen`) and when it has ended (`FirstFactorOnly`), and a factor
  that is being confirmed has its secret unless it was raced (`HasSecret`), for its row is
  locked by one request (`HeldOnce`).

`MemoryProofs`

* `TypeCorrect`: with what a worker has in hand at each place (`Shapes`).
* `JobsHeldOnce`: a job in hand is RUNNING unless it has raced (`HandRunning`), and a claim
  takes PENDING ones. Calls are what makes this hard: what one has found is still so, or
  raced (`FoundCurrent`), and what it would create is not there (`NotMade`, `FirstThere`).
* `ProcessingStaysOwed`: the METADATA job is not blocked, and whoever is about to record its
  success has marked the artifact before (`MetadataMarks`).

`ClientProofs`, the mobile outbox (`SyncInv`)

* `SyncTypeCorrect`: with what a drain has in hand at each place.
* `WritesAreSentOnce`: there is one drain (`OneDrain`: `_draining` is set before the first
  await and cleared after the last), and what it works on is what it found in the box, in
  its order (`Draining`, `LeftInOrder`). A write that the API has (`TakenIsKnown`) is gone
  from the box, in hand, or its answer was lost.
* `MarksAreSentInOrder`: while a mark is in the box no later one of its church has been sent
  or taken up (`SentInOrder`), because a drain that has the later one left to send has the
  earlier one left as well or in hand, or skips their resource (`LeftInOrder`); the one
  exception is a mark that waits when a drain sets out with a later one. A drain
  goes on with the least write of those that are left (`MinIsLeast`); that a least one exists
  is proved from the well-ordering of the naturals.

`AiIndexProofs`

* `TypeCorrect`: with what is left of a worker's pass (`Ordered`): artifacts within the limit,
  then sermons, which is why the sum of the two queries stays below the limit.
* `IndexedStaysFaithful`: the three facts of the property come from three stages of a pass.
  What a worker has found or has in hand is the text on the row, or the sermon got a new one
  meanwhile (`Carries`); the chunks it has written are made from that text, since another
  worker can only write the same (`Wrote`); and when it marks the document they have
  embeddings unless they were replaced since (`Wrote`, `Embedded`). The text of an artifact
  never changes (`Rows`), so that only sermons can be overtaken.

`SermonProofs`

* `TypeCorrect`: with a job in hand exactly when a worker is not between two (`WorkerKnows`).
* `DerivedStaysCurrent`: a stage that has succeeded is current or is asked for again by a call
  that has yet to enqueue it (`StagesKnown`). Both ways of replacing the transcript keep this:
  an upload asks for every derived stage (`CallKnows`), and TRANSCRIBE finds that nothing has
  been derived, or that everything was raced. A stage that runs has the current transcript in
  hand, and between its write and the record of its outcome what it wrote is what is shown
  (`WorkerKnows`), unless its transcript was replaced, which is what `raced` remembers
  (`NewVersionKnown`).
* `StatusIsKept` (action property): a call that is about to write the status has read one
  that was not ARCHIVED, and for publish neither PUBLISHED nor PROCESSING (`CallKnows`); if
  nobody is `Overtaken` that is still the status.

**Only model-checked:** liveness (`Settles`, `RequestsEnd`, `MessagesSettle`, `JobsSettle`,
`RetriesEnd`, `ProcessingEnds`, `Converges`). It rests on fairness, hence on ENABLED and on
induction over a measure (the attempts, the batch, the locks that are held), which the
installed provers cannot do.

## Not modelled

* Content: payloads, templates, amounts, accounts, names. A journal's lines balance
  by the contract's schema; no property here distinguishes amounts.
* Mobile: a refresh whose answer arrives after the user has signed out, and which then stores
  its tokens again; the timers of the background task, which does nothing.
* Isolation between tenants: SQL policies; each model is one tenant.
* Cryptography, the exchange with an OAuth provider, passkeys, contact verification:
  computations, or single inserts and updates that no modelled request reads.
* Rate limits, audit and mail: counters and inserts that no guard of a model reads. A
  request that a limit refuses is one that never begins.
* The onboarding journey, workspaces and subscriptions: recomputed from other rows.
* Parsing, reports, summaries, read models: pure functions of the rows.
* Editing drafts and reference data: single-row updates that do not change a status.
* Redis, object storage, providers: free choices of the actions that call them.

## Hazards without a model

Beside those in `PROJECT.json`, the survey met these, to be taken up with the module
of their component:

* Sessions: `revokeAllForUser` selects sessions and tokens in two statements
  (session.service.ts:259-282), so a session created in between stays ACTIVE and loses
  its only token. The model has the behaviour; no document says what is intended.
* Campaign: `send` on a scheduled campaign leaves the messages' `availableAt` as scheduled.
* Ledger: overlapping periods with different names can both be created (:232); two first
  requests both seed the chart of accounts (:71); a gift to a restricted fund credits
  4100 and its refund debits 4000 (giving.service.ts:131, :245); a reconciliation is
  completed against books that move (recon.service.ts:292).
* Membership: attendance is recorded in a session that was closed in between
  (attendance.service.ts:267); two conversions of one visitor (visitor.service.ts:235).

## Plan

What is left, most important first:

1. An abstract specification of the mobile outbox (the server applies the writes of a resource
   in order) and of the sermon's stages, with their refinements.
2. `Attendance` (check and write in two transactions) and `Reconciliation` on top of `Ledger`.
3. Passkeys: the counter of an authenticator against overlapping assertions.
