----------------------------- MODULE MobileSync -----------------------------
(***************************************************************************)
(* The mobile application (apps/mobile): writes made on one phone, the     *)
(* outbox that keeps them, the engine that replays them, and the session   *)
(* they are sent with.                                                     *)
(*                                                                         *)
(* The application is one isolate: between two awaits it runs alone, so a  *)
(* step is what lies between two awaits.  A write is its number, in the    *)
(* order of createdAt; what is left of it is the church it was made in and *)
(* whether it shares its resourceId with the other marks of that church (a *)
(* gift has one of its own).  What the API does with a gift is free: it    *)
(* takes it or refuses it, but it takes it only into the church of the     *)
(* token, and it does not look at the Idempotency-Key.  It takes no mark,  *)
(* because it has no route for the path that marks are posted to.  Time is *)
(* which writes wait for their next attempt.                               *)
(***************************************************************************)
EXTENDS Naturals, FiniteSets, FiniteSetsExt

CONSTANTS
  Churches,  \* tenants the user of the phone belongs to
  NoChurch,  \* stands for no church
  MaxWrites, \* bound on the writes
  MaxCopies  \* bound on how often the API takes one write

ASSUME NoChurchIsNone == NoChurch \notin Churches
ASSUME MaxWritesPositive == MaxWrites \in Nat \ {0}
ASSUME MaxCopiesPositive == MaxCopies \in Nat \ {0}

Writes == 1..MaxWrites

\* Drains in progress; _draining admits one, so the second slot stays empty.
Slots == 1..2

VARIABLES
  session,   \* the church of the stored tokens (SecureStore.session)
  tenant,    \* activeTenantIdProvider, NoChurch for ''
  written,   \* number of writes made
  church,    \* the church each write was made in
  mark,      \* the writes that share the resourceId of their church
  outbox,    \* the writes in the Hive box
  waiting,   \* those whose nextAttemptAt is after now
  drain,     \* each drain: where it is, what is left of its snapshot, the write it
             \* sends, the answer to it, and the resources that it must skip
  rejected,  \* the rows of the cache that show a rejection, by church
  copies,    \* how often the API has taken each write
  late,      \* writes whose request timed out and is still on its way
  unsure,    \* writes taken by the API whose answer the engine did not get (history)
  silent,    \* refused writes of which their church shows nothing (history)
  sent,      \* writes that were sent, whatever became of it (history)
  overtaken  \* a mark waited when a drain set out with a newer one (history)

server == <<copies, late>>
syncHistory == <<unsure, silent, sent, overtaken>>
syncVars == <<session, tenant, written, church, mark, outbox, waiting, drain, rejected,
          server, syncHistory>>

DrainPlaces == {"idle", "sending", "answered", "rejecting"}
Answers == {"none", "ok", "refused", "retry", "unauthenticated"}

Idle == [at |-> "idle", left |-> {}, item |-> 0, answer |-> "none", blocked |-> {}]

Resource(i) == IF i \in mark THEN church[i] ELSE i

SyncTypeOK ==
  /\ session \in Churches \union {NoChurch}
  /\ tenant \in Churches \union {NoChurch}
  /\ written \in 0..MaxWrites
  /\ church \in [Writes -> Churches \union {NoChurch}]
  /\ mark \subseteq 1..written
  /\ outbox \subseteq 1..written
  /\ waiting \subseteq outbox
  /\ drain \in [Slots -> [at : DrainPlaces, left : SUBSET Writes, item : 0..MaxWrites,
                           answer : Answers, blocked : SUBSET (Churches \union Writes)]]
  /\ rejected \in [Churches -> SUBSET Writes]
  /\ copies \in [Writes -> 0..MaxCopies]
  /\ late \subseteq Writes
  /\ unsure \subseteq Writes
  /\ silent \subseteq Writes
  /\ sent \subseteq 1..written
  /\ overtaken \in BOOLEAN

SyncInit ==
  /\ session = NoChurch /\ tenant = NoChurch
  /\ written = 0
  /\ church = [i \in Writes |-> NoChurch]
  /\ mark = {}
  /\ outbox = {} /\ waiting = {}
  /\ drain = [d \in Slots |-> Idle]
  /\ rejected = [c \in Churches |-> {}]
  /\ copies = [i \in Writes |-> 0]
  /\ late = {}
  /\ unsure = {} /\ silent = {} /\ sent = {} /\ overtaken = FALSE

-----------------------------------------------------------------------------
(* The drain *)

\* The first of the snapshot that is not blocked; the loop passes over the others.
Upcoming(left, blocked) == {i \in left : Resource(i) \notin blocked}

\* From one item of the loop to the next, or to its end
Advance(left, blocked) ==
  LET open == Upcoming(left, blocked)
  IN IF open = {} THEN Idle
     ELSE [at |-> "sending", left |-> left \ {Min(open)}, item |-> Min(open),
           answer |-> "none", blocked |-> blocked]

\* Faulty variant: a kick does not look whether a drain is in progress.
MayStartTwice == \E d \in Slots : drain[d] = Idle

\* if (_draining) return
MayStart == \A d \in Slots : drain[d] = Idle

\* kick, and drain up to its first await, on the box as this step leaves it
StartDrain ==
  LET pending == outbox' \ waiting'
      same(i, j) == {i, j} \subseteq mark' /\ church'[i] = church'[j]
      first == Min({d \in Slots : drain[d] = Idle})
  IN IF ~MayStart THEN UNCHANGED <<drain, overtaken>>
     ELSE /\ drain' = [drain EXCEPT ![first] = Advance(pending, {})]
          /\ overtaken' = (overtaken \/ \E i \in waiting', j \in pending : i < j /\ same(i, j))

\* The connectivity stream (attach), or a push that invalidates collections
Kick ==
  /\ session # NoChurch \/ tenant # NoChurch
  /\ UNCHANGED <<session, tenant, written, church, mark, outbox, waiting, rejected, server,
                 unsure, silent, sent>>
  /\ StartDrain

\* GivingRepository.record and MembershipRepository.recordAttendance
Write(isMark) ==
  LET i == written + 1
  IN /\ written < MaxWrites
     /\ session # NoChurch \/ tenant # NoChurch
     /\ written' = i
     /\ church' = [church EXCEPT ![i] = IF tenant # NoChurch THEN tenant ELSE session]
     /\ mark' = IF isMark THEN mark \union {i} ELSE mark
     /\ outbox' = outbox \union {i}
     /\ UNCHANGED <<session, tenant, waiting, rejected, server,
                    unsure, silent, sent>>
     /\ StartDrain

\* nextAttemptAt passes.
BecomeDue(i) ==
  /\ i \in waiting
  /\ waiting' = waiting \ {i}
  /\ UNCHANGED <<session, tenant, written, church, mark, outbox, drain, rejected, server, syncHistory>>

-----------------------------------------------------------------------------
(* One request, through ZionApi, and what drain makes of its answer *)

Answer(d, answer) ==
  drain' = [drain EXCEPT ![d] = [@ EXCEPT !.at = "answered", !.answer = answer]]

\* The API would take it: a gift, with a token of its church.
Takes(i) == i \notin mark /\ session = church[i]

Store(i) ==
  /\ copies[i] < MaxCopies
  /\ copies' = [copies EXCEPT ![i] = @ + 1]

\* The API takes the write and its answer is lost; or the request times out, and may
\* be taken later; or the API never sees it.
Unanswered(i) ==
  \/ Takes(i) /\ Store(i) /\ unsure' = unsure \union {i} /\ UNCHANGED late
  \/ Takes(i) /\ late' = late \union {i} /\ UNCHANGED <<copies, unsure>>
  \/ UNCHANGED <<server, unsure>>

\* The API takes the write and says so.
Taken(d) ==
  /\ Takes(drain[d].item) /\ Store(drain[d].item)
  /\ Answer(d, "ok")
  /\ UNCHANGED <<session, late, unsure>>

\* A 4xx other than 401, 408 and 429
Refused(d) ==
  /\ Answer(d, "refused")
  /\ UNCHANGED <<session, server, unsure>>

\* No answer, or 408, 429 or 5xx
Unreachable(d) ==
  /\ Unanswered(drain[d].item)
  /\ Answer(d, "retry")
  /\ UNCHANGED session

\* 401: nobody is signed in, the session is revoked, or the access token has expired
\* and the refresh fails, for whatever reason.  If it succeeds the request is made once
\* more, and whatever stops that one, an answer that is lost included, is reported as
\* the 401 of the first.  The tokens are cleared.
Unauthenticated(d) ==
  /\ session' = NoChurch
  /\ Answer(d, "unauthenticated")
  /\ Unanswered(drain[d].item)

Send(d) ==
  /\ drain[d].at = "sending"
  /\ Taken(d) \/ Refused(d) \/ Unreachable(d) \/ Unauthenticated(d)
  /\ sent' = sent \union {drain[d].item}
  /\ UNCHANGED <<tenant, written, church, mark, outbox, waiting, rejected, silent, overtaken>>

\* A request that timed out reaches the API after all, or never does.
Arrive(i) ==
  /\ i \in late
  /\ late' = late \ {i}
  /\ \/ Store(i) /\ unsure' = unsure \union {i}
     \/ UNCHANGED <<copies, unsure>>
  /\ UNCHANGED <<session, tenant, written, church, mark, outbox, waiting, drain, rejected,
                 silent, sent, overtaken>>

\* Faulty variant: what waits does not keep the later ones of its resource back.
BlockedNot(d) == drain[d].blocked

\* blocked, once the write that d sends has been put back
Blocked(d) == drain[d].blocked \union {Resource(drain[d].item)}

\* Faulty variant: remove() follows whatever the answer was.
PutBackNot(i) == outbox' = outbox \ {i} /\ waiting' = waiting \union {i}

\* outbox.update
PutBack(i) == outbox' = outbox \union {i} /\ waiting' = waiting \union {i}

\* outbox.remove
TakeOut(i) == outbox' = outbox \ {i} /\ waiting' = waiting \ {i}

Conclude(d) ==
  LET r == drain[d]
      Go(state) == drain' = [drain EXCEPT ![d] = state]
  IN /\ r.at = "answered"
     /\ \/ r.answer = "ok" /\ TakeOut(r.item) /\ Go(Advance(r.left, r.blocked))
        \/ r.answer = "retry" /\ PutBack(r.item) /\ Go(Advance(r.left, Blocked(d)))
        \/ r.answer = "refused" /\ TakeOut(r.item) /\ Go([r EXCEPT !.at = "rejecting"])
        \/ r.answer = "unauthenticated" /\ Go(Idle) /\ UNCHANGED <<outbox, waiting>>
     /\ UNCHANGED <<session, tenant, written, church, mark, rejected, server, syncHistory>>

\* The rejection is written under the church that is active by now, if there is one.
Reject(d) ==
  LET r == drain[d]
  IN /\ r.at = "rejecting"
     /\ rejected' = [c \in Churches |->
                       IF c = tenant THEN rejected[c] \union {r.item} ELSE rejected[c]]
     /\ silent' = IF tenant = church[r.item] THEN silent ELSE silent \union {r.item}
     /\ drain' = [drain EXCEPT ![d] = Advance(r.left, r.blocked)]
     /\ UNCHANGED <<session, tenant, written, church, mark, outbox, waiting, server,
                    unsure, sent, overtaken>>

-----------------------------------------------------------------------------
(* The session (AuthController) and the application's process *)

\* _activate: me() answers, does not get through, or finds the session dead.
Activate(c) ==
  \/ session' = c /\ tenant' \in {c, tenant}
  \/ session' = NoChurch /\ UNCHANGED tenant

\* login and the other ways to sign in
Login(c) ==
  /\ session = NoChurch /\ tenant = NoChurch
  /\ Activate(c)
  /\ UNCHANGED <<written, church, mark, outbox, waiting, drain, rejected, server, syncHistory>>

Logout ==
  /\ session # NoChurch \/ tenant # NoChurch
  /\ session' = NoChurch /\ tenant' = NoChurch
  /\ UNCHANGED <<written, church, mark, outbox, waiting, drain, rejected, server, syncHistory>>

\* Taken by the API and still in the box; out of the box and not yet shown
Concluding == {drain[d].item : d \in {e \in Slots : drain[e].answer = "ok"}}
Rejecting == {drain[d].item : d \in {e \in Slots : drain[e].at = "rejecting"}}

\* The application is closed or killed; bootstrap restores the session.
Restart ==
  /\ drain' = [d \in Slots |-> Idle]
  /\ unsure' = unsure \union Concluding
  /\ silent' = silent \union Rejecting
  /\ \/ session' = session /\ tenant' \in {session, NoChurch}
     \/ session' = NoChurch /\ tenant' = NoChurch
  /\ UNCHANGED <<written, church, mark, outbox, waiting, rejected, server,
                 sent, overtaken>>

SyncNext ==
  \/ \E isMark \in BOOLEAN : Write(isMark)
  \/ Kick
  \/ \E i \in Writes : BecomeDue(i)
  \/ \E d \in Slots : Send(d)
  \/ \E i \in Writes : Arrive(i)
  \/ \E d \in Slots : Conclude(d)
  \/ \E d \in Slots : Reject(d)
  \/ \E c \in Churches : Login(c)
  \/ Logout
  \/ Restart

SyncSpec == SyncInit /\ [][SyncNext]_syncVars

-----------------------------------------------------------------------------
(* A write leaves the outbox because the API took it or because it was     *)
(* refused, and then the row of its church says so, unless another church  *)
(* or none was active by the time of the refusal or the application was    *)
(* killed just then; and one that was taken twice is one whose answer      *)
(* never reached the engine: it was lost or late, or the application was   *)
(* killed before remove().  (drain, kick; the tenant is read after the     *)
(* answer, and nothing in the API reads the Idempotency-Key.)              *)
SentOnce ==
  \A i \in 1..written :
    /\ i \in outbox \union silent \union Rejecting \union rejected[church[i]] \/ copies[i] > 0
    /\ copies[i] > 1 => i \in unsure

\* Two marks of one resource, the first of them made before the second
Together(i, j) == {i, j} \subseteq mark /\ i < j /\ church[i] = church[j]

(* "Never reorder items that share a resourceId." (MOBILE.md:223)  An item *)
(* that waits for its next attempt is not pending, so the code does, from  *)
(* one drain to the next.                                                  *)
NeverReordered == \A i \in outbox, j \in sent : ~Together(i, j)

(* What is left of it: while a mark is in the box no later one of its      *)
(* resource is sent, whatever the answers, kills and sign-ins, unless it   *)
(* was waiting when a drain set out with the later one.  (drain: blocked,  *)
(* the order of createdAt)                                                 *)
ReorderedByWaiting == ~overtaken => NeverReordered

=============================================================================
