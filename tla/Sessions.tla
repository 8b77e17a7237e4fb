------------------------------ MODULE Sessions ------------------------------
(***************************************************************************)
(* The sessions of one user (auth/session.service): auth_sessions and the  *)
(* refresh tokens that belong to them.  A refresh token rotates on use and *)
(* a session is revoked together with its tokens, by requests that run     *)
(* concurrently in READ COMMITTED transactions.                            *)
(*                                                                         *)
(* One SQL statement is one step, or one step per row where it waits for   *)
(* row locks.  The writes of a transaction appear when it commits; until   *)
(* then their rows are in locked[r].  Expiry, the account's status and its *)
(* membership are free choices, made when the code reads them.             *)
(***************************************************************************)
EXTENDS Naturals, FiniteSets

CONSTANTS Requests,   \* concurrent calls of the session service
          SessionIds, \* rows of auth_sessions, of the same user
          Tokens,     \* rows of refresh_tokens: bounds creation and rotation
          None,       \* no session, no token
          MaxFaults   \* bound on transactions that fail on their own

ASSUME NoneDistinct == None \notin SessionIds \union Tokens
ASSUME RowsDistinct == SessionIds \intersect Tokens = {}
ASSUME MaxFaultsNat == MaxFaults \in Nat

VARIABLES
  status,    \* auth_sessions.status; "ABSENT" before the insert commits
  owner,     \* refresh_tokens.session_id; None before the insert commits
  live,      \* tokens whose revoked_at is null
  successor, \* refresh_tokens.replaced_by_token_id
  phase,     \* where each request is
  token,     \* the refresh token it presented
  scope,     \* the sessions it revokes
  todo,      \* rows its UPDATE has selected and not yet locked
  locked,    \* rows its open transaction has locked and will update
  reuse,     \* it found its token used already
  faults     \* failures so far, at most MaxFaults

tables == <<status, owner, live, successor>>
requestVars == <<phase, token, scope, todo, locked, reuse>>
vars == <<tables, requestVars, faults>>

Rows == SessionIds \union Tokens
Phases == {"idle", "checked", "rotating", "revoke", "sessions", "tokens"}

TypeOK ==
  /\ status \in [SessionIds -> {"ABSENT", "ACTIVE", "REVOKED"}]
  /\ owner \in [Tokens -> SessionIds \union {None}]
  /\ live \subseteq Tokens
  /\ successor \in [Tokens -> Tokens \union {None}]
  /\ phase \in [Requests -> Phases]
  /\ token \in [Requests -> Tokens \union {None}]
  /\ scope \in [Requests -> SUBSET SessionIds]
  /\ todo \in [Requests -> SUBSET Rows]
  /\ locked \in [Requests -> SUBSET Rows]
  /\ reuse \in [Requests -> BOOLEAN]
  /\ faults \in 0..MaxFaults

Init ==
  /\ status = [s \in SessionIds |-> "ABSENT"]
  /\ owner = [t \in Tokens |-> None]
  /\ live = {}
  /\ successor = [t \in Tokens |-> None]
  /\ phase = [r \in Requests |-> "idle"]
  /\ token = [r \in Requests |-> None]
  /\ scope = [r \in Requests |-> {}]
  /\ todo = [r \in Requests |-> {}]
  /\ locked = [r \in Requests |-> {}]
  /\ reuse = [r \in Requests |-> FALSE]
  /\ faults = 0

Fresh(t) == owner[t] = None

\* Ids are generated and never compared: which unused one is taken is immaterial.
NewToken(t) == Fresh(t) /\ t = CHOOSE u \in Tokens : Fresh(u)
NewSession(s) ==
  /\ status[s] = "ABSENT"
  /\ s = CHOOSE u \in SessionIds : status[u] = "ABSENT"

Unlocked(row) == \A r \in Requests : row \notin locked[r]
LiveTokens(s) == {t \in live : owner[t] = s}

\* Bound: a row is left for every rotation that is under way, and one more.
Spare ==
  Cardinality({t \in Tokens : Fresh(t)}) >
    Cardinality({r \in Requests : phase[r] \in {"checked", "rotating"}})

\* Request r is over: its locks are released.
Finish(r) ==
  /\ phase' = [phase EXCEPT ![r] = "idle"]
  /\ token' = [token EXCEPT ![r] = None]
  /\ scope' = [scope EXCEPT ![r] = {}]
  /\ todo' = [todo EXCEPT ![r] = {}]
  /\ locked' = [locked EXCEPT ![r] = {}]
  /\ reuse' = [reuse EXCEPT ![r] = FALSE]

\* Request r goes on to revoke the sessions ss.
GoRevoke(r, ss) ==
  /\ phase' = [phase EXCEPT ![r] = "revoke"]
  /\ scope' = [scope EXCEPT ![r] = ss]
  /\ token' = [token EXCEPT ![r] = None]

-----------------------------------------------------------------------------
(* Signing in *)

\* A session and its first token are inserted in one transaction.
CreateSession(s, t) ==
  /\ NewSession(s) /\ NewToken(t) /\ Spare
  /\ status' = [status EXCEPT ![s] = "ACTIVE"]
  /\ owner' = [owner EXCEPT ![t] = s]
  /\ live' = live \union {t}
  /\ UNCHANGED <<successor, requestVars, faults>>

-----------------------------------------------------------------------------
(* Rotation *)

Usable(t) == t \in live /\ status[owner[t]] = "ACTIVE"

\* rotateRefresh reads the presented token with its session.
PresentUsable(r, t) ==
  /\ phase[r] = "idle" /\ ~Fresh(t)
  /\ Usable(t) /\ Spare
  /\ phase' = [phase EXCEPT ![r] = "checked"]
  /\ token' = [token EXCEPT ![r] = t]
  /\ UNCHANGED <<tables, scope, todo, locked, reuse, faults>>

\* It was rotated or revoked before: the session is revoked.
PresentUsed(r, t) ==
  /\ phase[r] = "idle" /\ ~Fresh(t)
  /\ ~Usable(t)
  /\ reuse' = [reuse EXCEPT ![r] = TRUE]
  /\ GoRevoke(r, {owner[t]})
  /\ UNCHANGED <<tables, todo, locked, faults>>

\* Token or session expired, account inactive or membership gone: revoke.
Disqualify(r) ==
  /\ phase[r] = "checked"
  /\ GoRevoke(r, {owner[token[r]]})
  /\ UNCHANGED <<tables, todo, locked, reuse, faults>>

\* The tenant asked for is not one of the user's: an error, nothing changes.
Refuse(r) ==
  /\ phase[r] = "checked"
  /\ Finish(r)
  /\ UNCHANGED <<tables, faults>>

\* Faulty variant: the update does not ask whether the token is still live.
ReclaimAny(r) ==
  /\ phase[r] = "checked" /\ Unlocked(token[r])
  /\ phase' = [phase EXCEPT ![r] = "rotating"]
  /\ locked' = [locked EXCEPT ![r] = {token[r]}]
  /\ UNCHANGED <<tables, token, scope, todo, reuse, faults>>

\* updateMany(id, revokedAt null), the compare-and-set of the rotation.
Reclaim(r) ==
  /\ phase[r] = "checked" /\ Unlocked(token[r])
  /\ token[r] \in live
  /\ phase' = [phase EXCEPT ![r] = "rotating"]
  /\ locked' = [locked EXCEPT ![r] = {token[r]}]
  /\ UNCHANGED <<tables, token, scope, todo, reuse, faults>>

\* Faulty variant: the session is revoked inside the transaction's callback,
\* on a second connection, when the first one has set lastSeenAt already.
LoseRaceInside(r) ==
  /\ phase[r] = "checked" /\ Unlocked(token[r])
  /\ token[r] \notin live
  /\ Unlocked(owner[token[r]])
  /\ reuse' = [reuse EXCEPT ![r] = TRUE]
  /\ locked' = [locked EXCEPT ![r] = {owner[token[r]]}]
  /\ GoRevoke(r, {owner[token[r]]})
  /\ UNCHANGED <<tables, todo, faults>>

\* The update matched nothing: another request took the token.
LoseRace(r) ==
  /\ phase[r] = "checked" /\ Unlocked(token[r])
  /\ token[r] \notin live
  /\ reuse' = [reuse EXCEPT ![r] = TRUE]
  /\ GoRevoke(r, {owner[token[r]]})
  /\ UNCHANGED <<tables, todo, locked, faults>>

\* The token is replaced by t, which only this transaction sees until now.
Replace(r, t) ==
  /\ phase[r] = "rotating" /\ NewToken(t)
  /\ owner' = [owner EXCEPT ![t] = owner[token[r]]]
  /\ live' = (live \ {token[r]}) \union {t}
  /\ successor' = [successor EXCEPT ![token[r]] = t]
  /\ Finish(r)
  /\ UNCHANGED <<status, faults>>

\* Faulty variant: without the update of lastSeenAt the session is not locked.
RotateUnlocked(r, t) == Replace(r, t)

\* The rest of the transaction: insert and link the replacement, wait for the
\* session's row to set lastSeenAt on it, commit.
Rotate(r, t) ==
  /\ phase[r] = "rotating"
  /\ Unlocked(owner[token[r]])
  /\ Replace(r, t)

-----------------------------------------------------------------------------
(* Revocation *)

\* logout and switchTenant read the session of the token they were given.
SignOut(r, t) ==
  /\ phase[r] = "idle" /\ ~Fresh(t)
  /\ GoRevoke(r, {owner[t]})
  /\ UNCHANGED <<tables, todo, locked, reuse, faults>>

\* revokeAllForUser, with or without a session to keep.
SignOutAll(r) ==
  /\ phase[r] = "idle"
  /\ \E kept \in SessionIds \union {None} : GoRevoke(r, SessionIds \ {kept})
  /\ UNCHANGED <<tables, todo, locked, reuse, faults>>

\* First UPDATE: it selects the sessions that are ACTIVE now ...
SelectSessions(r) ==
  /\ phase[r] = "revoke"
  /\ phase' = [phase EXCEPT ![r] = "sessions"]
  /\ todo' = [todo EXCEPT ![r] = {s \in scope[r] : status[s] = "ACTIVE"}]
  /\ UNCHANGED <<tables, token, scope, locked, reuse, faults>>

\* ... and locks them one by one, skipping what meanwhile ceased to match.
LockSession(r, s) ==
  /\ phase[r] = "sessions"
  /\ s \in todo[r] /\ Unlocked(s)
  /\ todo' = [todo EXCEPT ![r] = @ \ {s}]
  /\ locked' = [locked EXCEPT ![r] =
                  IF status[s] = "ACTIVE" THEN @ \union {s} ELSE @]
  /\ UNCHANGED <<tables, phase, token, scope, reuse, faults>>

\* Second UPDATE: it selects their tokens that are live now ...
SelectTokens(r) ==
  /\ phase[r] = "sessions" /\ todo[r] = {}
  /\ phase' = [phase EXCEPT ![r] = "tokens"]
  /\ todo' = [todo EXCEPT ![r] = {t \in live : owner[t] \in scope[r]}]
  /\ UNCHANGED <<tables, token, scope, locked, reuse, faults>>

\* ... and locks them likewise.
LockToken(r, t) ==
  /\ phase[r] = "tokens"
  /\ t \in todo[r] /\ Unlocked(t)
  /\ todo' = [todo EXCEPT ![r] = @ \ {t}]
  /\ locked' = [locked EXCEPT ![r] =
                  IF t \in live THEN @ \union {t} ELSE @]
  /\ UNCHANGED <<tables, phase, token, scope, reuse, faults>>

\* Faulty variant: the other final status of the schema, which no code reads.
CommitExpires(r) ==
  /\ phase[r] = "tokens" /\ todo[r] = {}
  /\ status' = [s \in SessionIds |->
                  IF s \in locked[r] THEN "EXPIRED" ELSE status[s]]
  /\ live' = live \ locked[r]
  /\ Finish(r)
  /\ UNCHANGED <<owner, successor, faults>>

CommitRevocation(r) ==
  /\ phase[r] = "tokens" /\ todo[r] = {}
  /\ status' = [s \in SessionIds |->
                  IF s \in locked[r] THEN "REVOKED" ELSE status[s]]
  /\ live' = live \ locked[r]
  /\ Finish(r)
  /\ UNCHANGED <<owner, successor, faults>>

-----------------------------------------------------------------------------
(* The database *)

\* The row an open transaction waits for, if any
Awaited(r) ==
  CASE phase[r] = "checked" -> {token[r]}
    [] phase[r] = "rotating" -> {owner[token[r]]}
    [] phase[r] \in {"sessions", "tokens"} -> todo[r]
    [] OTHER -> {}

WaitsFor(r, q) == q # r /\ Awaited(r) \intersect locked[q] # {}

\* Transactions wait for each other: PostgreSQL aborts one of them, any one.
\* The error leaves the service, so the request ends without its effect.
DeadlockVictim(r) ==
  /\ \E S \in SUBSET Requests :
       r \in S /\ \A p \in S : \E q \in S : WaitsFor(p, q)
  /\ Finish(r)
  /\ UNCHANGED <<tables, faults>>

\* The process dies, the connection drops or the 15 s of withScope pass.
Fail(r) ==
  /\ phase[r] # "idle" /\ faults < MaxFaults
  /\ faults' = faults + 1
  /\ Finish(r)
  /\ UNCHANGED tables

Step(r) ==
  \/ Disqualify(r) \/ Refuse(r) \/ Reclaim(r) \/ LoseRace(r)
  \/ \E t \in Tokens : Rotate(r, t)
  \/ SelectSessions(r) \/ SelectTokens(r) \/ CommitRevocation(r)
  \/ \E s \in SessionIds : LockSession(r, s)
  \/ \E t \in Tokens : LockToken(r, t)

Next ==
  \/ \E s \in SessionIds, t \in Tokens : CreateSession(s, t)
  \/ \E r \in Requests, t \in Tokens :
       PresentUsable(r, t) \/ PresentUsed(r, t) \/ SignOut(r, t)
  \/ \E r \in Requests :
       SignOutAll(r) \/ Step(r) \/ DeadlockVictim(r) \/ Fail(r)

Spec == Init /\ [][Next]_vars

\* A request that was started is carried on, a row's lock is not refused to a
\* waiting transaction for ever, and deadlocks are detected.
FairSpec ==
  /\ Spec
  /\ \A r \in Requests : SF_vars(Step(r)) /\ WF_vars(DeadlockVictim(r))
-----------------------------------------------------------------------------
(* Properties *)

\* The tokens of a session form one chain with at most its end live: a token
\* is replaced at most once, by a token of its session, and is dead then.
\* (rotateRefresh: two requests may both have read the token as live.)
SingleLineage ==
  /\ \A t, u \in live : owner[t] = owner[u] => t = u
  /\ \A t \in Tokens : successor[t] # None =>
       /\ t \notin live
       /\ owner[successor[t]] = owner[t]
       /\ \A u \in Tokens : successor[u] = successor[t] => u = t

\* No token outlives its session: a rotation that overlaps with a revocation
\* leaves no live token behind the one that was revoked, although the update
\* of the tokens cannot see the replacement.  (revokeSession, revokeAllForUser)
RevokedIsDead ==
  \A s \in SessionIds : status[s] = "REVOKED" => LiveTokens(s) = {}

\* Sessions and their tokens change as if every request were one step (SessionChain): a
\* rotation that overlaps with another one or with a revocation, each of several
\* statements and locks, falls wholly before it or not at all, and no token that was
\* retired is ever good again.  (rotateRefresh, revokeSession, revokeAllForUser)
Current(s) == IF LiveTokens(s) = {} THEN None ELSE CHOOSE t \in live : owner[t] = s
Chain == INSTANCE SessionChain WITH
  state <- status,
  current <- [s \in SessionIds |-> Current(s)],
  issued <- {t \in Tokens : ~Fresh(t)}
ImplementsSessionChain == Chain!Spec

\* Every request ends, whatever rows the others lock and in whatever order.
RequestsEnd == \A r \in Requests : phase[r] # "idle" ~> phase[r] = "idle"
=============================================================================
