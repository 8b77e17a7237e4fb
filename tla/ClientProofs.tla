---------------------------- MODULE ClientProofs ----------------------------
(***************************************************************************)
(* Proofs about what a client holds: Sessions, for any sets of requests,   *)
(* sessions and tokens and any number of failures, and MobileSync, the     *)
(* phone, for any number of churches, writes and copies.  The two are not  *)
(* composed: each theorem is about the behaviours of one of them.          *)
(***************************************************************************)
EXTENDS Sessions, MobileSync, WellFoundedInduction, TLAPS

-----------------------------------------------------------------------------
(* Sessions: the inductive invariant *)

\* phase says what the request has locked and what it knows of its token.
PhaseShape ==
  \A r \in Requests :
    /\ phase[r] \in {"idle", "checked", "revoke"} => locked[r] = {}
    /\ phase[r] \in {"checked", "rotating"} => token[r] \in Tokens
    /\ phase[r] = "checked" => ~Fresh(token[r])
    /\ phase[r] = "rotating" => locked[r] = {token[r]}
    /\ phase[r] = "sessions" => todo[r] \union locked[r] \subseteq scope[r]

TypeInv == TypeOK /\ PhaseShape

\* A row is locked by one transaction, which will change it.
LocksDisjoint ==
  \A r, q \in Requests : r # q => locked[r] \intersect locked[q] = {}
LockedHold ==
  \A r \in Requests : \A row \in locked[r] :
    /\ row \in SessionIds => status[row] = "ACTIVE"
    /\ row \in Tokens => row \in live

\* What a revocation will commit includes the live tokens of its sessions:
\* a rotation that would add one waits for the session's lock.
Covered ==
  \A r \in Requests : phase[r] = "tokens" =>
    \A t \in live : owner[t] \in locked[r] => t \in todo[r] \union locked[r]

\* Rows refer to rows that exist.
Issued ==
  \A t \in Tokens :
    /\ t \in live \/ successor[t] # None => ~Fresh(t)
    /\ ~Fresh(t) => status[owner[t]] # "ABSENT"

IInv ==
  /\ TypeInv
  /\ LocksDisjoint
  /\ LockedHold
  /\ Covered
  /\ Issued
  /\ SingleLineage
  /\ RevokedIsDead

-----------------------------------------------------------------------------
(* Type correctness *)

LEMMA TypeInit == Init => TypeInv
  BY MaxFaultsNat DEF Init, TypeInv, TypeOK, PhaseShape, Phases

LEMMA FinishType ==
  ASSUME TypeInv, NEW r \in Requests, Finish(r), UNCHANGED owner
  PROVE  /\ phase' \in [Requests -> Phases]
         /\ token' \in [Requests -> Tokens \union {None}]
         /\ scope' \in [Requests -> SUBSET SessionIds]
         /\ todo' \in [Requests -> SUBSET Rows]
         /\ locked' \in [Requests -> SUBSET Rows]
         /\ reuse' \in [Requests -> BOOLEAN]
         /\ PhaseShape'
  BY DEF TypeInv, TypeOK, PhaseShape, Finish, Phases, Fresh

LEMMA GoRevokeType ==
  ASSUME TypeInv, NEW r \in Requests, NEW ss \in SUBSET SessionIds, GoRevoke(r, ss),
         phase[r] \in {"idle", "checked"}, UNCHANGED <<tables, todo, locked, faults>>,
         reuse' \in [Requests -> BOOLEAN]
  PROVE  TypeInv'
  BY DEF TypeInv, TypeOK, PhaseShape, GoRevoke, Phases, Fresh, tables

\* The session of a token that has been issued
LEMMA OwnerType ==
  ASSUME TypeOK, NEW t \in Tokens, ~Fresh(t)
  PROVE  owner[t] \in SessionIds
  BY DEF TypeOK, Fresh

LEMMA TypeStep == TypeInv /\ [Next]_vars => TypeInv'
  <1> SUFFICES ASSUME TypeInv, [Next]_vars PROVE TypeInv'
    OBVIOUS
  <1>0. TypeOK /\ PhaseShape
    BY DEF TypeInv
  <1>1. ASSUME NEW s \in SessionIds, NEW t \in Tokens, CreateSession(s, t) PROVE TypeInv'
    <2>1. TypeOK'
      BY <1>0, <1>1 DEF TypeOK, CreateSession, requestVars
    <2>2. \A u \in Tokens : ~Fresh(u) => owner'[u] = owner[u] \/ owner'[u] = s
      BY <1>0, <1>1 DEF TypeOK, CreateSession
    <2>3. PhaseShape'
      BY <1>0, <1>1, <2>2, NoneDistinct DEF PhaseShape, CreateSession, requestVars, Fresh
    <2> QED BY <2>1, <2>3 DEF TypeInv
  <1>2. ASSUME NEW r \in Requests, NEW t \in Tokens, PresentUsable(r, t) PROVE TypeInv'
    BY <1>0, <1>2 DEF TypeInv, TypeOK, PhaseShape, PresentUsable, Phases, tables, Fresh
  <1>3. ASSUME NEW r \in Requests, NEW t \in Tokens, PresentUsed(r, t) PROVE TypeInv'
    <2>1. owner[t] \in SessionIds
      BY <1>0, <1>3, OwnerType DEF PresentUsed
    <2> QED BY <1>0, <1>3, <2>1, GoRevokeType DEF PresentUsed, TypeOK
  <1>4. ASSUME NEW r \in Requests, NEW t \in Tokens, SignOut(r, t) PROVE TypeInv'
    <2>1. owner[t] \in SessionIds
      BY <1>0, <1>4, OwnerType DEF SignOut
    <2> QED BY <1>0, <1>4, <2>1, GoRevokeType DEF SignOut, TypeOK
  <1>5. ASSUME NEW r \in Requests, SignOutAll(r) PROVE TypeInv'
    <2>1. PICK kept \in SessionIds \union {None} : GoRevoke(r, SessionIds \ {kept})
      BY <1>5 DEF SignOutAll
    <2> QED BY <1>0, <1>5, <2>1, GoRevokeType DEF SignOutAll, TypeOK
  <1>6. ASSUME NEW r \in Requests, Step(r) PROVE TypeInv'
    <2>1. CASE Disqualify(r)
      <3>1. owner[token[r]] \in SessionIds
        BY <1>0, <2>1, OwnerType DEF Disqualify, PhaseShape
      <3> QED BY <1>0, <2>1, <3>1, GoRevokeType DEF Disqualify, TypeOK
    <2>2. CASE Refuse(r)
      BY <1>0, <2>2, FinishType DEF Refuse, tables, TypeOK, TypeInv
    <2>3. CASE Reclaim(r)
      <3>1. token[r] \in Tokens
        BY <1>0, <2>3 DEF Reclaim, PhaseShape
      <3> QED BY <1>0, <2>3, <3>1 DEF TypeInv, TypeOK, PhaseShape, Reclaim, Phases, tables, Fresh, Rows
    <2>4. CASE LoseRace(r)
      <3>1. owner[token[r]] \in SessionIds
        BY <1>0, <2>4, OwnerType DEF LoseRace, PhaseShape
      <3>2. reuse' \in [Requests -> BOOLEAN]
        BY <1>0, <2>4 DEF LoseRace, TypeOK
      <3> QED BY <1>0, <2>4, <3>1, <3>2, GoRevokeType DEF LoseRace
    <2>5. ASSUME NEW t \in Tokens, Rotate(r, t) PROVE TypeInv'
      <3>1. token[r] \in Tokens
        BY <1>0, <2>5 DEF Rotate, PhaseShape
      <3>2. TypeOK'
        BY <1>0, <2>5, <3>1 DEF Rotate, Replace, Finish, TypeOK, Phases
      <3>3. \A u \in Tokens : ~Fresh(u) => owner'[u] = owner[u]
        BY <1>0, <2>5 DEF Rotate, Replace, NewToken, TypeOK
      <3>4. PhaseShape'
        BY <1>0, <2>5, <3>3 DEF PhaseShape, Rotate, Replace, Finish, TypeOK, Fresh
      <3> QED BY <3>2, <3>4 DEF TypeInv
    <2>6. CASE SelectSessions(r)
      BY <1>0, <2>6 DEF TypeInv, TypeOK, PhaseShape, SelectSessions, Phases, tables, Fresh, Rows
    <2>7. CASE SelectTokens(r)
      BY <1>0, <2>7 DEF TypeInv, TypeOK, PhaseShape, SelectTokens, Phases, tables, Fresh, Rows
    <2>8. CASE CommitRevocation(r)
      <3>1. PhaseShape' /\ TypeOK'
        BY <1>0, <2>8, FinishType DEF CommitRevocation, TypeOK
      <3> QED BY <3>1 DEF TypeInv
    <2>9. ASSUME NEW s \in SessionIds, LockSession(r, s) PROVE TypeInv'
      BY <1>0, <2>9 DEF TypeInv, TypeOK, PhaseShape, LockSession, tables, Fresh, Rows
    <2>10. ASSUME NEW t \in Tokens, LockToken(r, t) PROVE TypeInv'
      BY <1>0, <2>10 DEF TypeInv, TypeOK, PhaseShape, LockToken, tables, Fresh, Rows
    <2> QED BY <1>6, <2>1, <2>2, <2>3, <2>4, <2>5, <2>6, <2>7, <2>8, <2>9, <2>10 DEF Step
  <1>7. ASSUME NEW r \in Requests, DeadlockVictim(r) PROVE TypeInv'
    BY <1>0, <1>7, FinishType DEF DeadlockVictim, tables, TypeOK, TypeInv
  <1>8. ASSUME NEW r \in Requests, Fail(r) PROVE TypeInv'
    <2>1. faults' \in 0..MaxFaults
      BY <1>0, <1>8, MaxFaultsNat DEF Fail, TypeOK
    <2> QED BY <1>0, <1>8, <2>1, FinishType DEF Fail, tables, TypeOK, TypeInv
  <1>9. CASE UNCHANGED vars
    BY <1>0, <1>9 DEF vars, tables, requestVars, TypeInv, TypeOK, PhaseShape, Fresh
  <1> QED BY <1>1, <1>2, <1>3, <1>4, <1>5, <1>6, <1>7, <1>8, <1>9 DEF Next

\* Every variable keeps its type, for any number of requests, sessions and tokens.
THEOREM TypeCorrect == Spec => []TypeOK
  <1>1. TypeInv => TypeOK
    BY DEF TypeInv
  <1> QED BY <1>1, TypeInit, TypeStep, PTL DEF Spec

-----------------------------------------------------------------------------
(* Tokens and sessions *)

LEMMA SafetyInit == Init => IInv
  <1> SUFFICES ASSUME Init PROVE IInv
    OBVIOUS
  <1>1. TypeInv
    BY TypeInit
  <1>2. LocksDisjoint /\ LockedHold /\ Covered
    BY DEF Init, LocksDisjoint, LockedHold, Covered
  <1>3. Issued /\ SingleLineage /\ RevokedIsDead
    BY DEF Init, Issued, Fresh, SingleLineage, RevokedIsDead, LiveTokens
  <1> QED BY <1>1, <1>2, <1>3 DEF IInv

\* The invariants of the tables alone
TableInv == Issued /\ SingleLineage /\ RevokedIsDead
LockInv == LocksDisjoint /\ LockedHold /\ Covered

LEMMA TablesUnchanged == TableInv /\ UNCHANGED tables => TableInv'
  BY DEF TableInv, tables, Issued, Fresh, SingleLineage, RevokedIsDead, LiveTokens

\* A request that ends without effect only gives up locks.
LEMMA FinishKeepsLockInv ==
  ASSUME TypeOK, LockInv, NEW r \in Requests, Finish(r), UNCHANGED tables
  PROVE  LockInv'
  <1>1. \A q \in Requests : q # r => locked'[q] = locked[q] /\ phase'[q] = phase[q] /\ todo'[q] = todo[q]
    BY DEF Finish, TypeOK
  <1>2. locked'[r] = {} /\ phase'[r] = "idle"
    BY DEF Finish, TypeOK
  <1>3. LocksDisjoint'
    BY <1>1, <1>2 DEF LockInv, LocksDisjoint
  <1>4. LockedHold'
    BY <1>1, <1>2 DEF LockInv, LockedHold, tables
  <1>5. Covered'
    BY <1>1, <1>2 DEF LockInv, Covered, tables
  <1> QED BY <1>3, <1>4, <1>5 DEF LockInv

\* A request that does not lock, and is not about to commit a revocation
LEMMA PhaseKeepsLockInv ==
  ASSUME TypeOK, LockInv, UNCHANGED <<tables, todo, locked>>, NEW r \in Requests,
         NEW p \in {"checked", "revoke"}, phase' = [phase EXCEPT ![r] = p]
  PROVE  LockInv'
  <1>1. \A q \in Requests : phase'[q] = "tokens" => phase[q] = "tokens"
    BY DEF TypeOK
  <1> QED BY <1>1 DEF LockInv, LocksDisjoint, LockedHold, Covered, tables

LEMMA CreateSessionKeeps ==
  ASSUME IInv, NEW s \in SessionIds, NEW t \in Tokens, CreateSession(s, t)
  PROVE  LockInv' /\ TableInv'
  <1> USE DEF IInv, TypeInv
  <1>1. /\ status[s] = "ABSENT" /\ Fresh(t)
        /\ status' = [status EXCEPT ![s] = "ACTIVE"]
        /\ owner' = [owner EXCEPT ![t] = s]
        /\ live' = live \union {t}
        /\ UNCHANGED <<successor, phase, todo, locked>>
    BY DEF CreateSession, NewSession, NewToken, requestVars
  <1>2. t \notin live /\ successor[t] = None
    BY <1>1 DEF Issued, Fresh
  <1>3. \A r \in Requests : s \notin locked[r]
    BY <1>1 DEF LockedHold
  <1>4. \A u \in Tokens : owner[u] # s
    BY <1>1, NoneDistinct DEF Issued, Fresh
  <1>5. \A u \in Tokens : u # t => owner'[u] = owner[u]
    BY <1>1 DEF TypeOK
  <1>6. owner'[t] = s /\ status'[s] = "ACTIVE"
    BY <1>1 DEF TypeOK
  <1>7. \A q \in SessionIds : q # s => status'[q] = status[q]
    BY <1>1 DEF TypeOK
  <1>8. live \subseteq Tokens
    BY DEF TypeOK
  <1>9. LocksDisjoint'
    BY <1>1 DEF LocksDisjoint
  <1>10. LockedHold'
    BY <1>1, <1>3, <1>7 DEF LockedHold
  <1>11. Covered'
    BY <1>1, <1>3, <1>5, <1>6, <1>8 DEF Covered
  <1>12. Issued'
    BY <1>1, <1>2, <1>5, <1>6, <1>7, NoneDistinct DEF Issued, Fresh
  <1>13. \A u, v \in live' : owner'[u] = owner'[v] => u = v
    BY <1>1, <1>4, <1>5, <1>6, <1>8 DEF SingleLineage
  <1>14. ASSUME NEW u \in Tokens, successor'[u] # None
         PROVE  /\ u \notin live'
                /\ owner'[successor'[u]] = owner'[u]
                /\ \A v \in Tokens : successor'[v] = successor'[u] => v = u
    <2>1. u # t /\ ~Fresh(u) /\ successor[u] \in Tokens /\ successor[u] # None
      BY <1>1, <1>2, <1>14 DEF Issued, TypeOK
    <2>2. owner[successor[u]] = owner[u]
      BY <2>1 DEF SingleLineage
    <2>3. successor[u] # t
      BY <2>1, <2>2, <1>1 DEF Fresh
    <2> QED BY <1>1, <1>5, <2>1, <2>2, <2>3 DEF SingleLineage
  <1>15. SingleLineage'
    BY <1>13, <1>14 DEF SingleLineage
  <1>16. RevokedIsDead'
    BY <1>1, <1>5, <1>6, <1>7, <1>8 DEF RevokedIsDead, LiveTokens
  <1> QED BY <1>9, <1>10, <1>11, <1>12, <1>15, <1>16 DEF LockInv, TableInv

LEMMA RotateKeeps ==
  ASSUME IInv, NEW r \in Requests, NEW t \in Tokens, Rotate(r, t)
  PROVE  LockInv' /\ TableInv'
  <1> USE DEF IInv, TypeInv
  <1> DEFINE old == token[r]
             s == owner[old]
  <1>1. /\ phase[r] = "rotating" /\ Unlocked(s) /\ Fresh(t)
        /\ owner' = [owner EXCEPT ![t] = s]
        /\ live' = (live \ {old}) \union {t}
        /\ successor' = [successor EXCEPT ![old] = t]
        /\ Finish(r) /\ status' = status
    BY DEF Rotate, Replace, NewToken
  <1>2. locked[r] = {old} /\ old \in Tokens /\ old \in live
    BY <1>1 DEF PhaseShape, LockedHold
  <1>3. s \in SessionIds /\ status[s] = "ACTIVE" /\ old # t
    <2>1. ~Fresh(old)
      BY <1>2 DEF Issued
    <2>2. s \in SessionIds /\ status[s] # "ABSENT"
      BY <1>2, <2>1, OwnerType DEF Issued
    <2>3. status[s] # "REVOKED"
      BY <1>2, <2>2 DEF RevokedIsDead, LiveTokens
    <2> QED BY <1>1, <2>1, <2>2, <2>3 DEF TypeOK
  <1>4. t \notin live /\ successor[t] = None /\ live \subseteq Tokens
    BY <1>1 DEF Issued, TypeOK
  <1>5. owner'[t] = s /\ \A u \in Tokens : u # t => owner'[u] = owner[u]
    BY <1>1 DEF TypeOK
  <1>6. successor'[old] = t /\ \A u \in Tokens : u # old => successor'[u] = successor[u]
    BY <1>1, <1>2 DEF TypeOK
  <1>7. \A q \in Requests : q # r =>
          /\ locked'[q] = locked[q] /\ phase'[q] = phase[q] /\ todo'[q] = todo[q]
          /\ old \notin locked[q] /\ s \notin locked[q]
    BY <1>1, <1>2 DEF Finish, TypeOK, LocksDisjoint, Unlocked
  <1>8. locked'[r] = {} /\ phase'[r] = "idle"
    BY <1>1 DEF Finish, TypeOK
  <1>9. LocksDisjoint'
    BY <1>7, <1>8 DEF LocksDisjoint
  <1>10. LockedHold'
    BY <1>1, <1>7, <1>8 DEF LockedHold
  <1>11. Covered'
    BY <1>1, <1>4, <1>5, <1>7, <1>8 DEF Covered
  <1>12. Issued'
    BY <1>1, <1>2, <1>3, <1>4, <1>5, <1>6, NoneDistinct DEF Issued, Fresh
  <1>13. \A u, v \in live' : owner'[u] = owner'[v] => u = v
    BY <1>1, <1>2, <1>4, <1>5 DEF SingleLineage
  <1>14. \A u \in Tokens : successor[u] # t
    BY <1>1, NoneDistinct DEF SingleLineage, Issued, Fresh
  <1>15. ASSUME NEW u \in Tokens, successor'[u] # None
         PROVE  /\ u \notin live'
                /\ owner'[successor'[u]] = owner'[u]
                /\ \A v \in Tokens : successor'[v] = successor'[u] => v = u
    <2>1. CASE u = old
      BY <2>1, <1>1, <1>3, <1>5, <1>6, <1>14
    <2>2. CASE u # old
      <3>1. successor[u] # None /\ successor[u] \in Tokens /\ successor[u] # t /\ u # t
        BY <2>2, <1>4, <1>6, <1>14, <1>15 DEF TypeOK
      <3> QED BY <2>2, <3>1, <1>1, <1>5, <1>6 DEF SingleLineage
    <2> QED BY <2>1, <2>2
  <1>16. SingleLineage'
    BY <1>13, <1>15 DEF SingleLineage
  <1>17. RevokedIsDead'
    BY <1>1, <1>3, <1>4, <1>5 DEF RevokedIsDead, LiveTokens
  <1> QED BY <1>9, <1>10, <1>11, <1>12, <1>16, <1>17 DEF LockInv, TableInv

LEMMA CommitRevocationKeeps ==
  ASSUME IInv, NEW r \in Requests, CommitRevocation(r)
  PROVE  LockInv' /\ TableInv'
  <1> USE DEF IInv, TypeInv
  <1>1. /\ phase[r] = "tokens" /\ todo[r] = {}
        /\ status' = [s \in SessionIds |-> IF s \in locked[r] THEN "REVOKED" ELSE status[s]]
        /\ live' = live \ locked[r]
        /\ Finish(r) /\ UNCHANGED <<owner, successor>>
    BY DEF CommitRevocation
  <1>2. \A q \in Requests : q # r =>
          /\ locked'[q] = locked[q] /\ phase'[q] = phase[q] /\ todo'[q] = todo[q]
          /\ locked[q] \intersect locked[r] = {}
    BY <1>1 DEF Finish, TypeOK, LocksDisjoint
  <1>3. locked'[r] = {} /\ phase'[r] = "idle"
    BY <1>1 DEF Finish, TypeOK
  <1>4. LocksDisjoint'
    BY <1>2, <1>3 DEF LocksDisjoint
  <1>5. LockedHold'
    BY <1>1, <1>2, <1>3 DEF LockedHold
  <1>6. Covered'
    BY <1>1, <1>2, <1>3 DEF Covered
  <1>7. \A s \in SessionIds : status[s] # "ABSENT" => status'[s] # "ABSENT"
    BY <1>1
  <1>8. Issued'
    BY <1>1, <1>7, OwnerType DEF Issued, Fresh
  <1>9. SingleLineage'
    BY <1>1 DEF SingleLineage
  <1>10. ASSUME NEW s \in SessionIds, status'[s] = "REVOKED" PROVE LiveTokens(s)' = {}
    <2>1. CASE s \in locked[r]
      BY <2>1, <1>1 DEF Covered, LiveTokens
    <2>2. CASE s \notin locked[r]
      BY <2>2, <1>1, <1>10 DEF RevokedIsDead, LiveTokens
    <2> QED BY <2>1, <2>2
  <1>11. RevokedIsDead'
    BY <1>10 DEF RevokedIsDead
  <1> QED BY <1>4, <1>5, <1>6, <1>8, <1>9, <1>11 DEF LockInv, TableInv

\* The steps by which a request takes a lock
LEMMA LockKeeps ==
  ASSUME TypeOK, LockInv, UNCHANGED tables, NEW r \in Requests, NEW row \in Rows,
         Unlocked(row),
         row \in SessionIds => status[row] = "ACTIVE",
         row \in Tokens => row \in live,
         locked' = [locked EXCEPT ![r] = @ \union {row}]
  PROVE  LocksDisjoint' /\ LockedHold'
  <1>1. \A q \in Requests : q # r => locked'[q] = locked[q] /\ row \notin locked[q]
    BY DEF TypeOK, Unlocked
  <1>2. locked'[r] = locked[r] \union {row}
    BY DEF TypeOK
  <1>3. LocksDisjoint'
    BY <1>1, <1>2 DEF LockInv, LocksDisjoint
  <1>4. LockedHold'
    BY <1>1, <1>2 DEF LockInv, LockedHold, tables
  <1> QED BY <1>3, <1>4

\* A request that gives up its locks, or takes none, without touching a row
LEMMA OthersKeep ==
  ASSUME IInv, NEW r \in Requests,
         \/ \E t \in Tokens : PresentUsable(r, t) \/ PresentUsed(r, t) \/ SignOut(r, t)
         \/ SignOutAll(r) \/ Disqualify(r) \/ Refuse(r) \/ LoseRace(r)
         \/ DeadlockVictim(r) \/ Fail(r)
  PROVE  LockInv' /\ UNCHANGED tables
  <1>1. TypeOK /\ LockInv
    BY DEF IInv, TypeInv, LockInv
  <1>2. ASSUME NEW t \in Tokens, PresentUsable(r, t) PROVE LockInv' /\ UNCHANGED tables
    BY <1>1, <1>2, PhaseKeepsLockInv DEF PresentUsable
  <1>3. ASSUME NEW t \in Tokens, PresentUsed(r, t) PROVE LockInv' /\ UNCHANGED tables
    BY <1>1, <1>3, PhaseKeepsLockInv DEF PresentUsed, GoRevoke
  <1>4. ASSUME NEW t \in Tokens, SignOut(r, t) PROVE LockInv' /\ UNCHANGED tables
    BY <1>1, <1>4, PhaseKeepsLockInv DEF SignOut, GoRevoke
  <1>5. CASE SignOutAll(r)
    BY <1>1, <1>5, PhaseKeepsLockInv DEF SignOutAll, GoRevoke
  <1>6. CASE Disqualify(r)
    BY <1>1, <1>6, PhaseKeepsLockInv DEF Disqualify, GoRevoke
  <1>7. CASE LoseRace(r)
    BY <1>1, <1>7, PhaseKeepsLockInv DEF LoseRace, GoRevoke
  <1>8. CASE Refuse(r)
    BY <1>1, <1>8, FinishKeepsLockInv DEF Refuse, tables
  <1>9. CASE DeadlockVictim(r)
    BY <1>1, <1>9, FinishKeepsLockInv DEF DeadlockVictim, tables
  <1>10. CASE Fail(r)
    BY <1>1, <1>10, FinishKeepsLockInv DEF Fail, tables
  <1> QED BY <1>2, <1>3, <1>4, <1>5, <1>6, <1>7, <1>8, <1>9, <1>10

LEMMA ReclaimKeeps ==
  ASSUME IInv, NEW r \in Requests, Reclaim(r)
  PROVE  LockInv' /\ UNCHANGED tables
  <1> USE DEF IInv, TypeInv
  <1>1. token[r] \in Tokens /\ locked[r] = {}
    BY DEF Reclaim, PhaseShape
  <1>2. locked' = [locked EXCEPT ![r] = @ \union {token[r]}] /\ UNCHANGED tables
    BY <1>1 DEF Reclaim, TypeOK
  <1>3. LocksDisjoint' /\ LockedHold'
    BY <1>1, <1>2, LockKeeps, RowsDistinct DEF LockInv, Reclaim, Rows
  <1>4. \A q \in Requests : phase'[q] = "tokens" =>
          phase[q] = "tokens" /\ todo'[q] = todo[q] /\ locked'[q] = locked[q]
    BY <1>2 DEF Reclaim, TypeOK
  <1>5. Covered'
    BY <1>2, <1>4 DEF Covered, tables
  <1> QED BY <1>2, <1>3, <1>5 DEF LockInv

LEMMA SelectKeeps ==
  ASSUME IInv, NEW r \in Requests, SelectSessions(r) \/ SelectTokens(r)
  PROVE  LockInv' /\ UNCHANGED tables
  <1> USE DEF IInv, TypeInv
  <1>1. UNCHANGED <<tables, scope, locked>>
    BY DEF SelectSessions, SelectTokens
  <1>2. LocksDisjoint' /\ LockedHold'
    BY <1>1 DEF LocksDisjoint, LockedHold, tables
  <1>3. \A q \in Requests : q # r => phase'[q] = phase[q] /\ todo'[q] = todo[q]
    BY DEF SelectSessions, SelectTokens, TypeOK
  <1>4. CASE SelectSessions(r)
    <2>1. phase'[r] = "sessions"
      BY <1>4 DEF SelectSessions, TypeOK
    <2>2. Covered'
      BY <1>1, <1>3, <2>1 DEF Covered, tables
    <2> QED BY <1>1, <1>2, <2>2 DEF LockInv
  <1>5. CASE SelectTokens(r)
    <2>1. locked[r] \subseteq scope[r]
      BY <1>5 DEF SelectTokens, PhaseShape
    <2>2. todo'[r] = {t \in live : owner[t] \in scope[r]}
      BY <1>5 DEF SelectTokens, TypeOK
    <2>3. Covered'
      BY <1>1, <1>3, <2>1, <2>2 DEF Covered, tables
    <2> QED BY <1>1, <1>2, <2>3 DEF LockInv
  <1> QED BY <1>4, <1>5

LEMMA LockSessionKeeps ==
  ASSUME IInv, NEW r \in Requests, NEW s \in SessionIds, LockSession(r, s)
  PROVE  LockInv' /\ UNCHANGED tables
  <1> USE DEF IInv, TypeInv
  <1>1. \A q \in Requests : phase'[q] = "tokens" =>
          phase[q] = "tokens" /\ todo'[q] = todo[q] /\ locked'[q] = locked[q]
    BY DEF LockSession, TypeOK
  <1>2. UNCHANGED tables
    BY DEF LockSession
  <1>3. Covered'
    BY <1>1, <1>2 DEF Covered, tables
  <1>4. CASE status[s] = "ACTIVE"
    <2>1. locked' = [locked EXCEPT ![r] = @ \union {s}]
      BY <1>4 DEF LockSession
    <2>2. LocksDisjoint' /\ LockedHold'
      BY <1>2, <1>4, <2>1, LockKeeps, RowsDistinct DEF LockInv, LockSession, Rows
    <2> QED BY <1>2, <1>3, <2>2 DEF LockInv
  <1>5. CASE status[s] # "ACTIVE"
    <2>1. locked' = locked
      BY <1>5 DEF LockSession, TypeOK
    <2> QED BY <1>2, <1>3, <2>1 DEF LockInv, LocksDisjoint, LockedHold, tables
  <1> QED BY <1>4, <1>5

LEMMA LockTokenKeeps ==
  ASSUME IInv, NEW r \in Requests, NEW t \in Tokens, LockToken(r, t)
  PROVE  LockInv' /\ UNCHANGED tables
  <1> USE DEF IInv, TypeInv
  <1>1. UNCHANGED <<tables, phase>>
    BY DEF LockToken
  <1>2. todo'[r] = todo[r] \ {t}
        /\ \A q \in Requests : q # r => todo'[q] = todo[q] /\ locked'[q] = locked[q]
    BY DEF LockToken, TypeOK
  <1>3. \A u \in live : owner[u] \in SessionIds
    BY OwnerType DEF Issued, TypeOK
  <1>4. CASE t \in live
    <2>1. locked' = [locked EXCEPT ![r] = @ \union {t}]
      BY <1>4 DEF LockToken
    <2>2. LocksDisjoint' /\ LockedHold'
      BY <1>1, <1>4, <2>1, LockKeeps, RowsDistinct DEF LockInv, LockToken, Rows
    <2>3. locked'[r] = locked[r] \union {t}
      BY <2>1 DEF TypeOK
    <2>4. Covered'
      BY <1>1, <1>2, <1>3, <2>3, RowsDistinct DEF Covered, tables
    <2> QED BY <1>1, <2>2, <2>4 DEF LockInv
  <1>5. CASE t \notin live
    <2>1. locked' = locked
      BY <1>5 DEF LockToken, TypeOK
    <2>2. LocksDisjoint' /\ LockedHold'
      BY <1>1, <2>1 DEF LocksDisjoint, LockedHold, tables
    <2>3. Covered'
      BY <1>1, <1>2, <1>5, <2>1 DEF Covered, tables
    <2> QED BY <1>1, <2>2, <2>3 DEF LockInv
  <1> QED BY <1>4, <1>5

LEMMA SafetyStep == IInv /\ [Next]_vars => IInv'
  <1> SUFFICES ASSUME IInv, [Next]_vars PROVE IInv'
    OBVIOUS
  <1>1. TypeInv'
    BY TypeStep DEF IInv
  <1>2. TableInv
    BY DEF IInv, TableInv
  <1>3. LockInv' /\ (TableInv' \/ UNCHANGED tables)
    <2>1. ASSUME NEW s \in SessionIds, NEW t \in Tokens, CreateSession(s, t)
          PROVE  LockInv' /\ TableInv'
      BY <2>1, CreateSessionKeeps
    <2>2. ASSUME NEW r \in Requests, NEW t \in Tokens,
                 PresentUsable(r, t) \/ PresentUsed(r, t) \/ SignOut(r, t)
          PROVE  LockInv' /\ UNCHANGED tables
      BY <2>2, OthersKeep
    <2>3. ASSUME NEW r \in Requests, SignOutAll(r) \/ DeadlockVictim(r) \/ Fail(r)
          PROVE  LockInv' /\ UNCHANGED tables
      BY <2>3, OthersKeep
    <2>4. ASSUME NEW r \in Requests, Step(r)
          PROVE  LockInv' /\ (TableInv' \/ UNCHANGED tables)
      BY <2>4, OthersKeep, ReclaimKeeps, RotateKeeps, SelectKeeps, CommitRevocationKeeps,
         LockSessionKeeps, LockTokenKeeps DEF Step
    <2>5. CASE UNCHANGED vars
      BY <2>5 DEF IInv, LockInv, LocksDisjoint, LockedHold, Covered, vars, tables, requestVars
    <2> QED BY <2>1, <2>2, <2>3, <2>4, <2>5 DEF Next
  <1>4. TableInv'
    BY <1>2, <1>3, TablesUnchanged
  <1> QED BY <1>1, <1>3, <1>4 DEF IInv, LockInv, TableInv

\* Locks, tokens and sessions fit together in every reachable state.
THEOREM InductiveInvariant == Spec => []IInv
  BY SafetyInit, SafetyStep, PTL DEF Spec

\* The tokens of a session form one chain whose end alone may be live, for any
\* requests, sessions and tokens (rotateRefresh).
THEOREM Lineage == Spec => []SingleLineage
  <1>1. IInv => SingleLineage
    BY DEF IInv
  <1> QED BY <1>1, InductiveInvariant, PTL

\* A revoked session has no live token, however many rotations and revocations
\* overlap (revokeSession, revokeAllForUser, rotateRefresh).
THEOREM Revocation == Spec => []RevokedIsDead
  <1>1. IInv => RevokedIsDead
    BY DEF IInv
  <1> QED BY <1>1, InductiveInvariant, PTL

-----------------------------------------------------------------------------
(* Sessions: the refinement of SessionChain *)

\* The token with which a session goes on, given its live ones
GoesOnBy(tokens, token_) ==
  (tokens = {} /\ token_ = None) \/ \E t \in Tokens : tokens = {t} /\ token_ = t

LEMMA OneCurrent ==
  ASSUME NEW tokens \in SUBSET Tokens, NEW owners, NEW s,
         \A t, u \in tokens : owners[t] = owners[u] => t = u
  PROVE  GoesOnBy({t \in tokens : owners[t] = s},
                  IF {t \in tokens : owners[t] = s} = {} THEN None
                  ELSE CHOOSE t \in tokens : owners[t] = s)
  <1> DEFINE own == {t \in tokens : owners[t] = s}
  <1>1. CASE own = {}
    BY <1>1 DEF GoesOnBy
  <1>2. CASE own # {}
    <2>1. PICK t \in own : TRUE
      BY <1>2
    <2>2. own = {t}
      BY <2>1
    <2>3. (CHOOSE u \in tokens : owners[u] = s) = t
      <3>1. \A u \in tokens : owners[u] = s => u = t
        BY <2>2
      <3> QED
        BY <2>1, <3>1
    <2> QED
      BY <1>2, <2>1, <2>2, <2>3 DEF GoesOnBy
  <1> QED
    BY <1>1, <1>2

LEMMA CurrentNow ==
  ASSUME IInv, NEW s
  PROVE  GoesOnBy(LiveTokens(s), Current(s))
  <1>1. live \in SUBSET Tokens /\ \A t, u \in live : owner[t] = owner[u] => t = u
    BY DEF IInv, TypeInv, TypeOK, SingleLineage
  <1> QED
    BY <1>1, OneCurrent DEF Current, LiveTokens

LEMMA CurrentThen ==
  ASSUME IInv', NEW s
  PROVE  GoesOnBy(LiveTokens(s)', Current(s)')
  <1>1. live' \in SUBSET Tokens /\ \A t, u \in live' : owner'[t] = owner'[u] => t = u
    BY DEF IInv, TypeInv, TypeOK, SingleLineage
  <1> QED
    BY <1>1, OneCurrent DEF Current, LiveTokens

\* A session that keeps its live tokens keeps the one it goes on by.
LEMMA CurrentStays ==
  ASSUME IInv, IInv', NEW s, LiveTokens(s)' = LiveTokens(s)
  PROVE  Current(s)' = Current(s)
  BY CurrentNow, CurrentThen DEF GoesOnBy

LEMMA SignInRefines ==
  ASSUME IInv, IInv', NEW s \in SessionIds, NEW t \in Tokens, CreateSession(s, t)
  PROVE  Chain!SignIn(s, t)
  <1>1. /\ status[s] = "ABSENT" /\ Fresh(t)
        /\ status' = [status EXCEPT ![s] = "ACTIVE"] /\ owner' = [owner EXCEPT ![t] = s]
        /\ live' = live \union {t}
    BY DEF CreateSession, NewSession, NewToken
  <1>2. owner \in [Tokens -> SessionIds \union {None}] /\ live \subseteq Tokens
    BY DEF IInv, TypeInv, TypeOK
  <1>3. t \notin live /\ LiveTokens(s) = {} /\ s # None
    BY <1>1, <1>2, NoneDistinct DEF IInv, Issued, LiveTokens, Fresh
  <1>4. LiveTokens(s)' = {t} /\ \A u \in SessionIds \ {s} : LiveTokens(u)' = LiveTokens(u)
    BY <1>1, <1>2, <1>3 DEF LiveTokens
  <1>5. Current(s)' = t /\ \A u \in SessionIds \ {s} : Current(u)' = Current(u)
    BY <1>4, CurrentThen, CurrentStays DEF GoesOnBy
  <1>6. {u \in Tokens : ~Fresh(u)}' = {u \in Tokens : ~Fresh(u)} \union {t}
    BY <1>1, <1>2, <1>3 DEF Fresh
  <1>7. [u \in SessionIds |-> Current(u)]' = [[u \in SessionIds |-> Current(u)] EXCEPT ![s] = t]
    BY <1>5
  <1> QED
    BY <1>1, <1>6, <1>7 DEF Chain!SignIn, Chain!Issue

LEMMA ExchangeRefines ==
  ASSUME IInv, IInv', NEW r \in Requests, NEW t \in Tokens, Rotate(r, t)
  PROVE  \E s \in SessionIds : Chain!Exchange(s, t)
  <1>1. owner \in [Tokens -> SessionIds \union {None}] /\ live \subseteq Tokens
    BY DEF IInv, TypeInv, TypeOK
  <1>2. phase[r] = "rotating" /\ Fresh(t) /\ token[r] \in live
    BY DEF Rotate, Replace, NewToken, IInv, TypeInv, PhaseShape, LockedHold
  <1>3. PICK old \in live : old = token[r]
    BY <1>2
  <1>4. PICK s \in SessionIds : s = owner[old]
    BY <1>1 DEF IInv, Issued, Fresh
  <1>5. /\ status' = status /\ owner' = [owner EXCEPT ![t] = s]
        /\ live' = (live \ {old}) \union {t}
    BY <1>3, <1>4 DEF Rotate, Replace
  <1>6. status[s] # "ABSENT" /\ s # None /\ t \notin live
    BY <1>1, <1>2, <1>4, NoneDistinct DEF IInv, Issued, Fresh
  <1>7. LiveTokens(s) = {old}
    BY <1>4 DEF LiveTokens, IInv, SingleLineage
  <1>8. status[s] = "ACTIVE"
    BY <1>6, <1>7 DEF IInv, TypeInv, TypeOK, RevokedIsDead
  <1>9. LiveTokens(s)' = {t} /\ \A u \in SessionIds \ {s} : LiveTokens(u)' = LiveTokens(u)
    BY <1>1, <1>4, <1>5, <1>6, <1>7 DEF LiveTokens
  <1>10. Current(s) # None
    BY <1>7, CurrentNow, NoneDistinct DEF GoesOnBy
  <1>11. Current(s)' = t /\ \A u \in SessionIds \ {s} : Current(u)' = Current(u)
    BY <1>9, CurrentThen, CurrentStays DEF GoesOnBy
  <1>12. {u \in Tokens : ~Fresh(u)}' = {u \in Tokens : ~Fresh(u)} \union {t}
    BY <1>1, <1>5, <1>6 DEF Fresh
  <1>13. [u \in SessionIds |-> Current(u)]' = [[u \in SessionIds |-> Current(u)] EXCEPT ![s] = t]
    BY <1>11
  <1>14. Chain!Exchange(s, t)
    BY <1>2, <1>5, <1>8, <1>10, <1>12, <1>13 DEF Chain!Exchange, Chain!Issue
  <1> QED
    BY <1>14

\* What a revocation closes are the sessions it has locked; what it ends are those and
\* the ones that lose their token without having been there when it selected sessions.
LEMMA CloseRefines ==
  ASSUME IInv, IInv', NEW r \in Requests, CommitRevocation(r)
  PROVE  \E closed, ended \in SUBSET SessionIds : Chain!Close(closed, ended)
  <1> DEFINE closed == SessionIds \intersect locked[r]
             ended == {s \in SessionIds : s \in closed \/ LiveTokens(s)' # LiveTokens(s)}
  <1>1. /\ status' = [s \in SessionIds |-> IF s \in locked[r] THEN "REVOKED" ELSE status[s]]
        /\ live' = live \ locked[r] /\ owner' = owner
    BY DEF CommitRevocation
  <1>2. \A s \in closed : status[s] = "ACTIVE" /\ status'[s] = "REVOKED"
    BY <1>1 DEF IInv, LockedHold
  <1>3. status' = [s \in SessionIds |-> IF s \in closed THEN "REVOKED" ELSE status[s]]
    BY <1>1
  <1>4. \A s \in SessionIds : LiveTokens(s)' \subseteq LiveTokens(s)
    BY <1>1 DEF LiveTokens
  <1>5. \A s \in closed : LiveTokens(s)' = {}
    BY <1>2 DEF IInv, RevokedIsDead
  <1> HIDE DEF closed
  <1>6. ASSUME NEW s \in ended
        PROVE  Current(s)' = None
    <2>1. LiveTokens(s)' = {}
      BY <1>4, <1>5, <1>6, CurrentNow DEF GoesOnBy
    <2> QED
      BY <2>1, CurrentThen DEF GoesOnBy
  <1>7. \A s \in SessionIds \ ended : Current(s)' = Current(s)
    BY CurrentStays
  <1>8. closed \subseteq ended /\ ended \in SUBSET SessionIds /\ closed \in SUBSET SessionIds
    BY DEF closed
  <1> HIDE DEF ended
  <1>9. [s \in SessionIds |-> Current(s)]' =
          [s \in SessionIds |-> IF s \in ended THEN None ELSE [u \in SessionIds |-> Current(u)][s]]
    BY <1>6, <1>7
  <1>10. {u \in Tokens : ~Fresh(u)}' = {u \in Tokens : ~Fresh(u)}
    BY <1>1 DEF Fresh
  <1>11. Chain!Close(closed, ended)
    BY <1>2, <1>3, <1>8, <1>9, <1>10 DEF Chain!Close
  <1> QED
    BY <1>8, <1>11

\* The other steps change no row.
LEMMA ChainRests ==
  ASSUME UNCHANGED tables
  PROVE  UNCHANGED Chain!chainVars
  BY DEF tables, Chain!chainVars, Current, LiveTokens, Fresh

LEMMA ChainStep ==
  ASSUME IInv, IInv', [Next]_vars
  PROVE  [Chain!Next]_Chain!chainVars
  <1>1. CASE \E s \in SessionIds, t \in Tokens : CreateSession(s, t)
    BY <1>1, SignInRefines DEF Chain!Next
  <1>2. CASE \E r \in Requests, t \in Tokens : Rotate(r, t)
    BY <1>2, ExchangeRefines DEF Chain!Next
  <1>3. CASE \E r \in Requests : CommitRevocation(r)
    BY <1>3, CloseRefines DEF Chain!Next
  <1>4. ASSUME NEW r \in Requests, NEW t \in Tokens,
               PresentUsable(r, t) \/ PresentUsed(r, t) \/ SignOut(r, t) \/ LockToken(r, t)
        PROVE  UNCHANGED tables
    BY <1>4 DEF PresentUsable, PresentUsed, SignOut, LockToken
  <1>5. ASSUME NEW r \in Requests, NEW s \in SessionIds, LockSession(r, s)
        PROVE  UNCHANGED tables
    BY <1>5 DEF LockSession
  <1>6. ASSUME NEW r \in Requests,
               SignOutAll(r) \/ DeadlockVictim(r) \/ Fail(r) \/ Disqualify(r) \/ Refuse(r)
                 \/ Reclaim(r) \/ LoseRace(r) \/ SelectSessions(r) \/ SelectTokens(r)
        PROVE  UNCHANGED tables
    BY <1>6 DEF SignOutAll, DeadlockVictim, Fail, Disqualify, Refuse, Reclaim, LoseRace,
                SelectSessions, SelectTokens
  <1>7. CASE UNCHANGED vars
    BY <1>7, ChainRests DEF vars
  <1> QED
    BY <1>1, <1>2, <1>3, <1>4, <1>5, <1>6, <1>7, ChainRests DEF Next, Step

LEMMA ChainInit ==
  ASSUME Init
  PROVE  Chain!Init
  <1>1. live = {} /\ status = [s \in SessionIds |-> "ABSENT"] /\ owner = [t \in Tokens |-> None]
    BY DEF Init
  <1>2. \A s \in SessionIds : Current(s) = None
    BY <1>1 DEF Current, LiveTokens
  <1>3. [s \in SessionIds |-> Current(s)] = [s \in SessionIds |-> None]
    BY <1>2
  <1>4. {t \in Tokens : ~Fresh(t)} = {}
    BY <1>1 DEF Fresh
  <1> QED
    BY <1>1, <1>3, <1>4 DEF Chain!Init

\* Sign-in, rotation and revocation are atomic for whoever holds the tokens, however
\* the statements and locks of any number of requests interleave.  (session.service)
THEOREM SessionsImplementSessionChain == Spec => ImplementsSessionChain
  BY ChainInit, ChainStep, InductiveInvariant, PTL DEF Spec, ImplementsSessionChain, Chain!Spec

-----------------------------------------------------------------------------
(* MobileSync: the inductive invariant *)

\* The write was sent, or is about to be.
Sent(j) == j \in sent \/ \E d \in Slots : drain[d].item = j

\* A write has its church from the start, and what is not written is nowhere.
Made ==
  /\ \A i \in 1..written : church[i] \in Churches
  /\ \A i \in Writes : i > written => copies[i] = 0 /\ i \notin late

OneDrain == \A d, e \in Slots : drain[d] # Idle /\ drain[e] # Idle => d = e

\* What a drain still has to send is in the box, and so is what it is sending, unless
\* it was refused.
Draining(d) ==
  IF drain[d].at = "idle" THEN drain[d] = Idle
  ELSE /\ drain[d].item \in 1..written /\ drain[d].item \notin drain[d].left
       /\ drain[d].left \subseteq outbox
       /\ drain[d].at = "rejecting" <=> drain[d].item \notin outbox
       /\ drain[d].at = "sending" => drain[d].answer = "none"
       /\ drain[d].at = "rejecting" => drain[d].answer = "refused"
       /\ drain[d].answer = "ok" => copies[drain[d].item] > 0

\* What the API has and the box still holds is about to leave it, or nobody knows.
TakenIsKnown == \A i \in outbox : copies[i] > 0 => i \in unsure \union Concluding

\* While a mark is in the box, none that was made after it has been sent or taken up.
SentInOrder == ~overtaken => \A i, j \in mark : Together(i, j) /\ i \in outbox => ~Sent(j)

\* A drain that has a mark left to send has the earlier ones left as well, or in hand,
\* or it is to skip their resource.
LeftInOrder(d) ==
  ~overtaken =>
    \A i, j \in mark :
      Together(i, j) /\ i \in outbox /\ j \in drain[d].left
        => i \in drain[d].left \union {drain[d].item} \/ Resource(j) \in drain[d].blocked

Drains ==
  /\ OneDrain
  /\ \A d \in Slots : Draining(d) /\ LeftInOrder(d)

SyncInv ==
  /\ SyncTypeOK /\ Made /\ Drains
  /\ TakenIsKnown /\ SentInOrder
  /\ SentOnce

-----------------------------------------------------------------------------
(* Lemmas about the operators of the drain *)

DrainStates == [at : DrainPlaces, left : SUBSET Writes, item : 0..MaxWrites,
                answer : Answers, blocked : SUBSET (Churches \union Writes)]

\* A set of numbers that is not empty has a least one, and Min picks it.
LEMMA MinIsLeast ==
  ASSUME NEW S \in SUBSET Nat, S # {}
  PROVE  Min(S) \in S /\ \A x \in S : Min(S) <= x
  <1>1. \E x \in S : \A y \in S : <<y, x>> \notin OpToRel(<, Nat)
    BY NatLessThanWellFounded, WFMin
  <1>2. PICK x \in S : \A y \in S : ~(y < x)
    BY <1>1 DEF OpToRel
  <1>3. \A y \in S : x <= y
    BY <1>2
  <1> QED
    BY <1>3, Zenon DEF Min

\* What a drain goes on with: nothing, or the first of what is left that it need not skip
GoesOn(r, left, blocked) ==
  \/ r = Idle
  \/ /\ r.at = "sending" /\ r.answer = "none" /\ r.blocked = blocked
     /\ r.item \in left /\ r.left = left \ {r.item}
     /\ Resource(r.item) \notin blocked
     /\ \A i \in left : Resource(i) \notin blocked => r.item <= i

LEMMA AdvanceGoesOn ==
  ASSUME NEW left \in SUBSET Writes, NEW blocked \in SUBSET (Churches \union Writes),
         NEW r, r = Advance(left, blocked)
  PROVE  r \in DrainStates /\ GoesOn(r, left, blocked)
  <1> DEFINE open == Upcoming(left, blocked)
  <1>1. CASE open = {}
    <2>1. r = Idle
      BY <1>1 DEF Advance
    <2>2. Idle \in DrainStates
      BY MaxWritesPositive DEF Idle, DrainStates, DrainPlaces, Answers
    <2> QED
      BY <2>1, <2>2 DEF GoesOn
  <1>2. CASE open # {}
    <2>1. open \in SUBSET Nat /\ open \subseteq left
      <3>1. left \subseteq Nat
        BY MaxWritesPositive DEF Writes
      <3>2. open \subseteq left
        BY DEF Upcoming
      <3> QED
        BY <3>1, <3>2
    <2> HIDE DEF open
    <2>2. Min(open) \in open /\ \A i \in open : Min(open) <= i
      BY <1>2, <2>1, MinIsLeast
    <2>3. r = [at |-> "sending", left |-> left \ {Min(open)}, item |-> Min(open),
               answer |-> "none", blocked |-> blocked]
      BY <1>2 DEF Advance, open
    <2>4. Min(open) \in left /\ Resource(Min(open)) \notin blocked
      BY <2>2 DEF Upcoming, open
    <2>5. \A i \in left : Resource(i) \notin blocked => Min(open) <= i
      BY <2>2 DEF Upcoming, open
    <2>6. Min(open) \in 0..MaxWrites /\ left \ {Min(open)} \in SUBSET Writes
      <3>1. Min(open) \in Writes
        BY <2>4
      <3>2. Min(open) \in 0..MaxWrites
        BY <3>1, MaxWritesPositive DEF Writes
      <3> QED
        BY <3>2
    <2>7. "sending" \in DrainPlaces /\ "none" \in Answers
      BY DEF DrainPlaces, Answers
    <2>8. r \in DrainStates
      BY <2>3, <2>6, <2>7 DEF DrainStates
    <2> QED
      BY <2>3, <2>4, <2>5, <2>8 DEF GoesOn
  <1> QED
    BY <1>1, <1>2

LEMMA DrainsTyped ==
  ASSUME SyncTypeOK
  PROVE  drain \in [Slots -> DrainStates]
  BY DEF SyncTypeOK, DrainStates

LEMMA SyncInitIsFine ==
  ASSUME SyncInit
  PROVE  SyncInv
  <1> USE MaxWritesPositive, MaxCopiesPositive DEF SyncInit
  <1>1. Idle \in DrainStates
    BY DEF Idle, DrainStates, DrainPlaces, Answers
  <1>2. SyncTypeOK
    <2>1. drain \in [Slots -> DrainStates]
      BY <1>1
    <2> QED
      <3>1. /\ church \in [Writes -> Churches \union {NoChurch}]
            /\ rejected \in [Churches -> SUBSET Writes]
            /\ copies \in [Writes -> 0..MaxCopies]
        OBVIOUS
      <3>2. /\ session \in Churches \union {NoChurch} /\ tenant \in Churches \union {NoChurch}
            /\ written \in 0..MaxWrites
        OBVIOUS
      <3>3. overtaken \in BOOLEAN
        BY Zenon
      <3> QED
        BY <2>1, <3>1, <3>2, <3>3 DEF SyncTypeOK, DrainStates
  <1>3. Made /\ Drains
    BY DEF Made, Drains, OneDrain, Draining, LeftInOrder, Idle, Together
  <1>4. TakenIsKnown /\ SentInOrder /\ SentOnce
    BY DEF TakenIsKnown, SentInOrder, SentOnce
  <1> QED
    BY <1>2, <1>3, <1>4 DEF SyncInv

-----------------------------------------------------------------------------
(* The drain and the box *)

LEMMA OthersRest ==
  ASSUME Drains, NEW d \in Slots, drain[d].at # "idle", NEW e \in Slots, e # d
  PROVE  drain[e] = Idle
  BY DEF Drains, OneDrain, Idle

\* A drain that has the answer goes on, once its write has left the box or is put back.
LEMMA DrainGoesOn ==
  ASSUME SyncTypeOK, Made, Drains, SentInOrder,
         NEW d \in Slots, drain[d].at # "idle",
         NEW blocked, blocked \in {drain[d].blocked, Blocked(d)},
         drain' = [drain EXCEPT ![d] = Advance(drain[d].left, blocked)],
         outbox' \in {outbox, outbox \ {drain[d].item}},
         drain[d].item \notin outbox' \/ blocked = Blocked(d),
         UNCHANGED <<written, church, mark, copies, sent, overtaken>>
  PROVE  Drains' /\ SentInOrder' /\ drain' \in [Slots -> DrainStates]
  <1> DEFINE r == drain[d]
             s == Advance(r.left, blocked)
  <1>1. drain \in [Slots -> DrainStates] /\ r \in DrainStates
    BY DrainsTyped
  <1>2. /\ r.item \in 1..written /\ r.item \notin r.left /\ r.left \subseteq outbox
        /\ r.left \in SUBSET Writes /\ r.item \in Writes
    <2>1. Draining(d)
      BY DEF Drains
    <2>2. 1..written \subseteq Writes /\ r.left \in SUBSET Writes
      BY <1>1, MaxWritesPositive DEF SyncTypeOK, Writes, DrainStates
    <2> QED
      BY <2>1, <2>2 DEF Draining
  <1>3. blocked \in SUBSET (Churches \union Writes)
    <2>1. Resource(r.item) \in Churches \union Writes
      BY <1>2 DEF Made, Resource
    <2>2. r.blocked \in SUBSET (Churches \union Writes)
      BY <1>1 DEF DrainStates
    <2> QED
      BY <2>1, <2>2 DEF Blocked
  <1>4. /\ s \in DrainStates
        /\ \/ s = Idle
           \/ /\ s.at = "sending" /\ s.answer = "none" /\ s.blocked = blocked
              /\ s.item \in r.left /\ s.left = r.left \ {s.item}
              /\ Resource(s.item) \notin blocked
              /\ \A i \in r.left : Resource(i) \notin blocked => s.item <= i
    <2> HIDE DEF s, r
    <2>1. s = Advance(r.left, blocked)
      BY DEF s
    <2>2. r.left \in SUBSET Writes
      BY <1>2
    <2>3. s \in DrainStates /\ GoesOn(s, r.left, blocked)
      BY <1>3, <2>1, <2>2, AdvanceGoesOn
    <2> QED
      BY <2>3 DEF GoesOn
  <1> HIDE DEF s
  <1>5. drain' = [drain EXCEPT ![d] = s]
    BY DEF s
  <1>6. drain'[d] = s /\ \A e \in Slots : e # d => drain'[e] = Idle
    BY <1>1, <1>5, OthersRest
  <1>7. drain' \in [Slots -> DrainStates]
    BY <1>1, <1>4, <1>5
  <1>8. r.left \subseteq outbox'
    BY <1>2
  <1>9. Draining(d)'
    <2>1. CASE s = Idle
      BY <1>6, <2>1 DEF Draining, Idle
    <2>2. CASE s # Idle
      <3>1. s.item \in 1..written' /\ s.item \notin s.left /\ s.left \subseteq outbox' /\ s.item \in outbox'
        BY <1>4, <1>8, <2>2 DEF SyncTypeOK
      <3> QED
        BY <1>4, <1>6, <2>2, <3>1 DEF Draining
    <2> QED
      BY <2>1, <2>2
  <1>10. \* what is in the box and belongs before something left is left as well
         ASSUME ~overtaken, NEW i \in mark, NEW j \in mark, Together(i, j), i \in outbox', j \in r.left,
                Resource(j) \notin blocked
         PROVE  i \in r.left /\ Resource(i) \notin blocked
    <2>1. Resource(i) = Resource(j)
      BY <1>10 DEF Together, Resource
    <2>2. r.blocked \subseteq blocked
      BY DEF Blocked
    <2>3. i \in r.left \union {r.item}
      BY <1>10, <2>2 DEF Drains, LeftInOrder
    <2>4. i # r.item
      BY <1>10, <2>1 DEF Blocked
    <2> QED
      BY <1>10, <2>1, <2>3, <2>4
  <1>11. LeftInOrder(d)'
    <2> SUFFICES ASSUME ~overtaken, s # Idle, NEW i \in mark, NEW j \in mark, Together(i, j), i \in outbox',
                        j \in s.left, Resource(j) \notin blocked
                 PROVE  i \in s.left \union {s.item}
      BY <1>4, <1>6 DEF LeftInOrder, Together, Resource, Idle
    <2>1. i \in r.left
      BY <1>4, <1>10
    <2> QED
      BY <1>4, <2>1
  <1>12. SentInOrder'
    <2> SUFFICES ASSUME ~overtaken, NEW i \in mark, NEW j \in mark, Together(i, j), i \in outbox', Sent(j)'
                 PROVE  FALSE
      BY DEF SentInOrder, Together
    <2>1. ~Sent(j)
      BY DEF SentInOrder
    <2>2. PICK e \in Slots : drain'[e].item = j
      BY <2>1 DEF Sent
    <2>3. j # 0
      BY DEF SyncTypeOK
    <2>4. e = d /\ s # Idle /\ s.item = j
      BY <1>6, <2>2, <2>3 DEF Idle
    <2>5. i \in r.left /\ Resource(i) \notin blocked
      BY <1>4, <1>10, <2>4
    <2>6. i \in Nat /\ j \in Nat /\ i < j
      BY DEF Together, SyncTypeOK
    <2>7. s.item <= i
      BY <1>4, <2>4, <2>5
    <2> QED
      BY <2>4, <2>6, <2>7
  <1>13. Drains'
    <2>1. OneDrain'
      BY <1>6 DEF OneDrain
    <2>2. ASSUME NEW e \in Slots, e # d
          PROVE  Draining(e)' /\ LeftInOrder(e)'
      BY <1>6, <2>2 DEF Draining, LeftInOrder, Idle
    <2> QED
      BY <1>9, <1>11, <2>1, <2>2 DEF Drains
  <1> QED
    BY <1>7, <1>12, <1>13

-----------------------------------------------------------------------------
(* The start of a drain, after a write or without one *)

\* Writes were made, or none; what was there stays.
Grown ==
  /\ written' \in 0..MaxWrites /\ written <= written'
  /\ church' \in [Writes -> Churches \union {NoChurch}]
  /\ \A i \in 1..written : church'[i] = church[i]
  /\ \A i \in 1..written' : church'[i] \in Churches
  /\ mark \subseteq mark' /\ mark' \subseteq 1..written' /\ mark' \intersect 1..written \subseteq mark
  /\ outbox' = outbox \union (1..written' \ 1..written)

\* Where a drain has got to after StartDrain: where it was, or it is new and has its snapshot
LEMMA StartedDrains ==
  ASSUME SyncTypeOK, Drains, Grown, StartDrain, waiting' = waiting
  PROVE  /\ drain' \in [Slots -> DrainStates]
         /\ \/ drain' = drain /\ overtaken' = overtaken
            \/ /\ \A d \in Slots : drain[d] = Idle
               /\ \E d \in Slots, s \in DrainStates :
                    /\ drain'[d] = s /\ \A e \in Slots : e # d => drain'[e] = Idle
                    /\ s = Idle \/ /\ s.at = "sending" /\ s.answer = "none"
                                   /\ s.item \in outbox' \ waiting
                                   /\ s.left = (outbox' \ waiting) \ {s.item}
                                   /\ \A i \in outbox' \ waiting : s.item <= i
               /\ overtaken' = (overtaken \/ \E i \in waiting, j \in outbox' \ waiting :
                                  i < j /\ {i, j} \subseteq mark' /\ church'[i] = church'[j])
  <1>1. drain \in [Slots -> DrainStates]
    BY DrainsTyped
  <1>2. CASE ~MayStart
    BY <1>1, <1>2 DEF StartDrain
  <1>3. CASE MayStart
    <2> DEFINE pending == outbox' \ waiting
               first == Min({d \in Slots : drain[d] = Idle})
               s == Advance(pending, {})
    <2>1. \A d \in Slots : drain[d] = Idle
      BY <1>3 DEF MayStart
    <2>2. first \in Slots
      <3>1. {d \in Slots : drain[d] = Idle} = Slots /\ Slots \in SUBSET Nat /\ Slots # {}
        BY <2>1 DEF Slots
      <3> QED
        BY <3>1, MinIsLeast
    <2>3. pending \in SUBSET Writes
      BY MaxWritesPositive DEF Grown, SyncTypeOK, Writes
    <2> HIDE DEF first, pending
    <2>4. /\ s \in DrainStates
          /\ s = Idle \/ /\ s.at = "sending" /\ s.answer = "none"
                         /\ s.item \in pending /\ s.left = pending \ {s.item}
                         /\ \A i \in pending : s.item <= i
      <3> HIDE DEF s
      <3>1. s = Advance(pending, {})
        BY DEF s
      <3> QED
        <4>1. {} \in SUBSET (Churches \union Writes)
          OBVIOUS
        <4>2. s \in DrainStates /\ GoesOn(s, pending, {})
          BY <2>3, <3>1, <4>1, AdvanceGoesOn
        <4> QED
          BY <4>2 DEF GoesOn
    <2> HIDE DEF s
    <2>5. drain' = [drain EXCEPT ![first] = s]
      BY <1>3 DEF StartDrain, first, pending, s
    <2>6. drain' \in [Slots -> DrainStates] /\ drain'[first] = s
          /\ \A e \in Slots : e # first => drain'[e] = Idle
      BY <1>1, <2>1, <2>2, <2>4, <2>5
    <2>7. overtaken' = (overtaken \/ \E i \in waiting, j \in pending :
                          i < j /\ {i, j} \subseteq mark' /\ church'[i] = church'[j])
      BY <1>3 DEF StartDrain, pending
    <2> QED
      BY <2>1, <2>2, <2>4, <2>6, <2>7 DEF pending
  <1> QED
    BY <1>2, <1>3

LEMMA StartKeeps ==
  ASSUME SyncInv, Grown, StartDrain,
         UNCHANGED <<session, tenant, waiting, rejected, server, unsure, silent, sent>>
  PROVE  SyncInv'
  <1> USE DEF SyncInv
  <1>1. /\ drain' \in [Slots -> DrainStates]
        /\ \/ drain' = drain /\ overtaken' = overtaken
           \/ /\ \A d \in Slots : drain[d] = Idle
              /\ \E d \in Slots, s \in DrainStates :
                   /\ drain'[d] = s /\ \A e \in Slots : e # d => drain'[e] = Idle
                   /\ s = Idle \/ /\ s.at = "sending" /\ s.answer = "none"
                                  /\ s.item \in outbox' \ waiting
                                  /\ s.left = (outbox' \ waiting) \ {s.item}
                                  /\ \A i \in outbox' \ waiting : s.item <= i
              /\ overtaken' = (overtaken \/ \E i \in waiting, j \in outbox' \ waiting :
                                 i < j /\ {i, j} \subseteq mark' /\ church'[i] = church'[j])
    BY StartedDrains DEF server
  <1>2. written \in Nat /\ written' \in Nat /\ outbox \subseteq 1..written /\ outbox \subseteq outbox'
        /\ outbox' \subseteq 1..written' /\ \A i \in outbox' : i \in outbox \/ i > written
    BY DEF SyncTypeOK, Grown
  <1>3. ASSUME NEW i \in 1..written
        PROVE  i \in 1..written' /\ Resource(i)' = Resource(i) /\ church'[i] = church[i] /\ (i \in mark' <=> i \in mark)
    BY <1>2, <1>3 DEF Grown, Resource
  <1>4. ASSUME NEW j \in 1..written', copies[j] > 0 \/ j \in sent
        PROVE  j \in 1..written
    <2>1. j \in Writes
      BY <1>2, MaxWritesPositive DEF Writes, Grown
    <2> QED
      BY <1>2, <1>4, <2>1 DEF Made, SyncTypeOK
  <1>5. SyncTypeOK'
    <2>1. mark' \subseteq 1..written' /\ waiting' \subseteq outbox' /\ sent' \subseteq 1..written'
          /\ written' \in 0..MaxWrites /\ church' \in [Writes -> Churches \union {NoChurch}]
      BY <1>2 DEF SyncTypeOK, Grown
    <2>2. overtaken' \in BOOLEAN
      <3>1. overtaken \in BOOLEAN
        BY DEF SyncTypeOK
      <3> QED
        BY <1>1, <3>1, Zenon
    <2> QED
      BY <1>1, <1>2, <2>1, <2>2 DEF SyncTypeOK, DrainStates, server
  <1>6. Made'
    BY <1>2 DEF Made, Grown, server, SyncTypeOK, Writes
  <1>7. SentOnce'
    <2> SUFFICES ASSUME NEW i \in 1..written'
                 PROVE  /\ \/ i \in outbox' \union silent' \union Rejecting' \union rejected'[church'[i]]
                           \/ copies'[i] > 0
                        /\ copies'[i] > 1 => i \in unsure'
      BY DEF SentOnce
    <2>1. i \in Writes /\ copies[i] \in Nat
      BY <1>2, MaxWritesPositive, MaxCopiesPositive DEF Writes, Grown, SyncTypeOK
    <2>2. CASE i > written
      BY <1>2, <2>1, <2>2 DEF Grown, Made, server
    <2>3. CASE i \in 1..written
      <3>1. i \in Rejecting => i \in Rejecting'
        BY <1>1 DEF Rejecting, Idle
      <3> QED
        BY <1>2, <1>3, <2>3, <3>1 DEF SentOnce, server
    <2> QED
      BY <1>2, <2>2, <2>3
  <1>9. TakenIsKnown'
    <2> SUFFICES ASSUME NEW i \in outbox', copies[i] > 0
                 PROVE  i \in unsure \union Concluding'
      BY DEF TakenIsKnown, server
    <2>1. i \in outbox
      BY <1>2, <1>4
    <2>2. i \in Concluding => i \in Concluding'
      BY <1>1 DEF Concluding, Idle
    <2> QED
      BY <2>1, <2>2 DEF TakenIsKnown
  <1>10. CASE drain' = drain /\ overtaken' = overtaken
    <2>1. Drains'
      <3>1. ASSUME NEW d \in Slots
            PROVE  Draining(d)'
        <4>1. Draining(d)
          BY DEF Drains
        <4>2. ASSUME drain[d].at # "idle"
              PROVE  (drain[d].item \in outbox' <=> drain[d].item \in outbox) /\ drain[d].item \in 1..written'
          <5>1. drain[d].item \in 1..written
            BY <4>1, <4>2 DEF Draining
          <5> QED
            BY <1>2, <1>3, <5>1
        <4> QED
          BY <1>2, <1>10, <4>1, <4>2 DEF Draining, server
      <3>2. ASSUME NEW d \in Slots
            PROVE  LeftInOrder(d)'
        <4> SUFFICES ASSUME ~overtaken, NEW i \in mark', NEW j \in mark', Together(i, j)', i \in outbox',
                            j \in drain[d].left
                     PROVE  i \in drain[d].left \union {drain[d].item} \/ Resource(j)' \in drain[d].blocked
          BY <1>10 DEF LeftInOrder
        <4>1. j \in 1..written
          BY <1>2 DEF Drains, Draining, Idle
        <4>2. i \in 1..written /\ i \in outbox
          BY <1>2, <4>1 DEF Together, Grown
        <4>3. Together(i, j)
          BY <1>3, <4>1, <4>2 DEF Together
        <4> QED
          BY <1>3, <4>1, <4>2, <4>3 DEF Drains, LeftInOrder, Together
      <3> QED
        BY <1>10, <3>1, <3>2 DEF Drains, OneDrain
    <2>2. SentInOrder'
      <3> SUFFICES ASSUME ~overtaken, NEW i \in mark', NEW j \in mark', Together(i, j)', i \in outbox', Sent(j)'
                   PROVE  FALSE
        BY <1>10 DEF SentInOrder
      <3>1. Sent(j)
        BY <1>10 DEF Sent, server
      <3>2. j \in 1..written
        <4>1. CASE j \in sent
          BY <1>4, <4>1 DEF Grown
        <4>2. CASE \E d \in Slots : drain[d].item = j
          <5>1. PICK d \in Slots : drain[d].item = j
            BY <4>2
          <5>2. j > 0
            BY <1>2 DEF Grown
          <5> QED
            BY <5>1, <5>2 DEF Drains, Draining, Idle
        <4> QED
          BY <3>1, <4>1, <4>2 DEF Sent
      <3>3. i \in 1..written /\ i \in outbox
        BY <1>2, <3>2 DEF Together, Grown
      <3>4. Together(i, j)
        BY <1>3, <3>2, <3>3 DEF Together
      <3> QED
        BY <3>1, <3>3, <3>4 DEF SentInOrder, Together
    <2> QED
      BY <1>5, <1>6, <1>7, <1>9, <2>1, <2>2
  <1>11. CASE \A d \in Slots : drain[d] = Idle
    <2>1. CASE drain' = drain /\ overtaken' = overtaken
      BY <1>10, <2>1
    <2>2. CASE ~(drain' = drain /\ overtaken' = overtaken)
      <3>1. PICK d \in Slots, s \in DrainStates :
              /\ drain'[d] = s /\ \A e \in Slots : e # d => drain'[e] = Idle
              /\ s = Idle \/ /\ s.at = "sending" /\ s.answer = "none"
                             /\ s.item \in outbox' \ waiting
                             /\ s.left = (outbox' \ waiting) \ {s.item}
                             /\ \A i \in outbox' \ waiting : s.item <= i
        BY <1>1, <2>2
      <3>2. ASSUME ~overtaken', NEW i \in mark', NEW j \in mark', Together(i, j)', i \in outbox',
                   j \in outbox' \ waiting
            PROVE  i \in outbox' \ waiting /\ ~overtaken
        BY <1>1, <2>2, <3>2 DEF Together
      <3>3. Drains'
        <4>1. OneDrain'
          BY <3>1 DEF OneDrain
        <4>2. ASSUME NEW e \in Slots
              PROVE  Draining(e)'
          <5>1. CASE drain'[e] = Idle
            BY <5>1 DEF Draining, Idle
          <5>2. CASE drain'[e] # Idle
            <6>1. e = d /\ s # Idle
              BY <3>1, <5>2
            <6>2. s.item \in 1..written' /\ s.item \notin s.left /\ s.left \subseteq outbox' /\ s.item \in outbox'
              BY <1>2, <3>1, <6>1
            <6> QED
              BY <3>1, <6>1, <6>2 DEF Draining
          <5> QED
            BY <5>1, <5>2
        <4>3. ASSUME NEW e \in Slots
              PROVE  LeftInOrder(e)'
          <5> SUFFICES ASSUME ~overtaken', NEW i \in mark', NEW j \in mark', Together(i, j)', i \in outbox',
                              j \in drain'[e].left
                       PROVE  i \in drain'[e].left \union {drain'[e].item}
            BY DEF LeftInOrder
          <5>1. e = d /\ s # Idle
            BY <3>1 DEF Idle
          <5> QED
            BY <3>1, <3>2, <5>1
        <4> QED
          BY <4>1, <4>2, <4>3 DEF Drains
      <3>4. SentInOrder'
        <4> SUFFICES ASSUME ~overtaken', NEW i \in mark', NEW j \in mark', Together(i, j)', i \in outbox', Sent(j)'
                     PROVE  FALSE
          BY DEF SentInOrder
        <4>1. i \in Nat /\ j \in Nat /\ i < j /\ j > 0
          BY <1>2 DEF Together, Grown
        <4>2. CASE j \in sent
          <5>1. ~overtaken
            BY <1>1, <2>2, Zenon
          <5>2. j \in 1..written
            BY <1>4, <4>2 DEF Grown
          <5>3. i \in 1..written /\ i \in outbox
            BY <1>2, <4>1, <5>2 DEF Grown
          <5>4. Together(i, j)
            BY <1>3, <5>2, <5>3 DEF Together
          <5> QED
            BY <4>2, <5>1, <5>3, <5>4 DEF SentInOrder, Together, Sent
        <4>3. CASE j \notin sent
          <5>1. PICK e \in Slots : drain'[e].item = j
            BY <4>3 DEF Sent, server
          <5>2. e = d /\ s # Idle /\ s.item = j
            BY <3>1, <4>1, <5>1 DEF Idle
          <5> QED
            BY <1>2, <3>1, <3>2, <4>1, <5>2
        <4> QED
          BY <4>2, <4>3
      <3> QED
        BY <1>5, <1>6, <1>7, <1>9, <3>3, <3>4
    <2> QED
      BY <2>1, <2>2
  <1> QED
    BY <1>1, <1>10, <1>11

-----------------------------------------------------------------------------
(* The actions *)

\* The session and the clock do not touch what the invariant is about.
LEMMA SyncFrame ==
  ASSUME SyncInv, session' \in Churches \union {NoChurch}, tenant' \in Churches \union {NoChurch},
         waiting' \subseteq waiting,
         UNCHANGED <<written, church, mark, outbox, drain, rejected, server, syncHistory>>
  PROVE  SyncInv'
  <1> USE DEF SyncInv, server, syncHistory
  <1>1. SyncTypeOK'
    BY DEF SyncTypeOK
  <1>2. Made' /\ SentOnce' /\ TakenIsKnown'
    BY DEF Made, SentOnce, TakenIsKnown, Rejecting, Concluding
  <1>3. Drains' /\ SentInOrder'
    <2>1. \A i, j : (Together(i, j)' <=> Together(i, j)) /\ (Sent(j)' <=> Sent(j))
      BY DEF Together, Sent
    <2>2. \A j : Resource(j)' = Resource(j)
      BY DEF Resource
    <2>3. \A d \in Slots : Draining(d)' /\ LeftInOrder(d)'
      BY <2>1, <2>2 DEF Drains, Draining, LeftInOrder
    <2> QED
      BY <2>1, <2>3 DEF Drains, OneDrain, SentInOrder
  <1> QED
    BY <1>1, <1>2, <1>3

LEMMA KickKeeps ==
  ASSUME SyncInv, Kick
  PROVE  SyncInv'
  <1>1. Grown
    <2>1. outbox' = outbox \union (1..written' \ 1..written)
      BY DEF Kick
    <2> QED
      BY <2>1 DEF Kick, Grown, SyncInv, SyncTypeOK, Made
  <1> QED
    BY <1>1, StartKeeps DEF Kick

LEMMA WriteKeeps ==
  ASSUME SyncInv, NEW isMark \in BOOLEAN, Write(isMark)
  PROVE  SyncInv'
  <1>1. Grown
    <2> DEFINE i == written + 1
    <2>1. written \in Nat /\ i \in Writes /\ i \in 0..MaxWrites /\ written' = i
      BY MaxWritesPositive DEF Write, SyncInv, SyncTypeOK, Writes
    <2>2. 1..i \ 1..written = {i} /\ 1..i = 1..written \union {i} /\ i \notin 1..written
      BY <2>1
    <2>3. PICK c \in Churches : church' = [church EXCEPT ![i] = c]
      <3>1. tenant # NoChurch => tenant \in Churches
        BY DEF SyncInv, SyncTypeOK
      <3>2. tenant = NoChurch => session \in Churches
        BY DEF SyncInv, SyncTypeOK, Write
      <3> QED
        BY <3>1, <3>2 DEF Write
    <2>4. mark' = mark \/ mark' = mark \union {i}
      BY DEF Write
    <2>5. outbox' = outbox \union {i}
      BY DEF Write
    <2> HIDE DEF i
    <2>6. /\ church' \in [Writes -> Churches \union {NoChurch}]
          /\ \A j \in 1..written : church'[j] = church[j]
          /\ church'[i] = c
      <3>1. church \in [Writes -> Churches \union {NoChurch}]
        BY DEF SyncInv, SyncTypeOK
      <3>2. 1..written \subseteq Writes
        BY MaxWritesPositive DEF SyncInv, SyncTypeOK, Writes
      <3> QED
        BY <2>1, <2>2, <2>3, <3>1, <3>2
    <2>7. \A j \in 1..written' : church'[j] \in Churches
      BY <2>1, <2>2, <2>3, <2>6 DEF SyncInv, Made
    <2>8. mark \subseteq mark' /\ mark' \subseteq 1..written' /\ mark' \intersect 1..written \subseteq mark
      BY <2>1, <2>2, <2>4 DEF SyncInv, SyncTypeOK
    <2>9. written <= written'
      BY <2>1 DEF i
    <2> QED
      BY <2>1, <2>2, <2>5, <2>6, <2>7, <2>8, <2>9 DEF Grown
  <1> QED
    BY <1>1, StartKeeps DEF Write

\* The fields of a drain that has its answer
LEMMA Answered ==
  ASSUME SyncTypeOK, NEW d \in Slots, NEW answer \in Answers, Answer(d, answer)
  PROVE  /\ drain' \in [Slots -> DrainStates]
         /\ drain'[d].at = "answered" /\ drain'[d].answer = answer
         /\ drain'[d].left = drain[d].left /\ drain'[d].item = drain[d].item
         /\ drain'[d].blocked = drain[d].blocked
         /\ \A e \in Slots : e # d => drain'[e] = drain[e]
  <1> DEFINE r == drain[d]
             s == [r EXCEPT !.at = "answered", !.answer = answer]
  <1>1. r \in DrainStates /\ drain \in [Slots -> DrainStates]
    BY DrainsTyped
  <1>2. "answered" \in DrainPlaces
    BY DEF DrainPlaces
  <1>3. /\ s \in DrainStates /\ s.at = "answered" /\ s.answer = answer
        /\ s.left = r.left /\ s.item = r.item /\ s.blocked = r.blocked
    BY <1>1, <1>2 DEF DrainStates
  <1>4. drain' = [drain EXCEPT ![d] = s]
    BY DEF Answer
  <1> HIDE DEF s
  <1> QED
    BY <1>1, <1>3, <1>4

\* What Send leaves of the drains when it has the answer: copies grow by what the API
\* took, and the write in hand is the one that was sent.
LEMMA SendKeepsDrains ==
  ASSUME SyncInv, NEW d \in Slots, drain[d].at = "sending",
         NEW answer \in Answers, Answer(d, answer),
         answer = "ok" => copies'[drain[d].item] > 0,
         \A i \in Writes : copies[i] > 0 => copies'[i] > 0,
         sent' = sent \union {drain[d].item},
         UNCHANGED <<written, church, mark, outbox, waiting, overtaken>>
  PROVE  Drains' /\ SentInOrder' /\ drain' \in [Slots -> DrainStates]
         /\ Rejecting = {} /\ Concluding = {}
         /\ Concluding' = IF answer = "ok" THEN {drain[d].item} ELSE {}
  <1> USE DEF SyncInv
  <1>1. /\ drain' \in [Slots -> DrainStates]
        /\ drain'[d].at = "answered" /\ drain'[d].answer = answer
        /\ drain'[d].left = drain[d].left /\ drain'[d].item = drain[d].item
        /\ drain'[d].blocked = drain[d].blocked
        /\ \A e \in Slots : e # d => drain'[e] = drain[e]
    BY Answered
  <1>2. \A e \in Slots : e # d => drain[e] = Idle
    BY OthersRest
  <1>3. /\ drain[d].item \in 1..written /\ drain[d].item \notin drain[d].left
        /\ drain[d].left \subseteq outbox /\ drain[d].item \in outbox /\ drain[d].answer = "none"
    BY DEF Drains, Draining
  <1>4. Draining(d)'
    BY <1>1, <1>3 DEF Draining
  <1>5. \A i, j : Together(i, j)' <=> Together(i, j)
    BY DEF Together
  <1>6. \A j : Resource(j)' = Resource(j)
    BY DEF Resource
  <1>7. LeftInOrder(d)'
    BY <1>1, <1>5, <1>6 DEF LeftInOrder, Drains
  <1>8. Drains'
    <2>1. OneDrain'
      BY <1>1, <1>2 DEF OneDrain
    <2>2. ASSUME NEW e \in Slots, e # d
          PROVE  Draining(e)' /\ LeftInOrder(e)'
      BY <1>1, <1>2, <2>2 DEF Draining, LeftInOrder, Idle
    <2> QED
      BY <1>4, <1>7, <2>1, <2>2 DEF Drains
  <1>9. SentInOrder'
    <2>1. ASSUME NEW j \in mark, Sent(j)'
          PROVE  Sent(j)
      BY <1>1, <2>1 DEF Sent
    <2> QED
      BY <1>5, <2>1 DEF SentInOrder
  <1>10. Rejecting = {} /\ Concluding = {}
    BY <1>2, <1>3 DEF Rejecting, Concluding, Idle
  <1>11. Concluding' = IF answer = "ok" THEN {drain[d].item} ELSE {}
    <2>1. {e \in Slots : drain'[e].answer = "ok"} = IF answer = "ok" THEN {d} ELSE {}
      BY <1>1, <1>2 DEF Idle
    <2> QED
      BY <1>1, <2>1 DEF Concluding
  <1> QED
    BY <1>1, <1>8, <1>9, <1>10, <1>11

\* The write that the API takes
LEMMA Stored ==
  ASSUME SyncInv, NEW i \in 1..written, Store(i)
  PROVE  /\ copies' \in [Writes -> 0..MaxCopies] /\ i \in Writes
         /\ copies'[i] = copies[i] + 1 /\ \A j \in Writes : j # i => copies'[j] = copies[j]
  <1>1. i \in Writes
    BY MaxWritesPositive DEF SyncInv, SyncTypeOK, Writes
  <1>2. copies \in [Writes -> 0..MaxCopies]
    BY DEF SyncInv, SyncTypeOK
  <1>3. copies[i] + 1 \in 0..MaxCopies
    BY <1>1, <1>2, MaxCopiesPositive DEF Store
  <1>4. copies' = [copies EXCEPT ![i] = copies[i] + 1]
    BY DEF Store
  <1> QED
    BY <1>1, <1>2, <1>3, <1>4

\* The ways a request can go: the API takes the write, and says so or not; or it does not
\* take it now.
LEMMA SendEnds ==
  ASSUME SyncTypeOK, NEW d \in Slots, Send(d)
  PROVE  \E answer \in Answers :
           /\ Answer(d, answer) /\ session' \in Churches \union {NoChurch}
           /\ \/ /\ Store(drain[d].item) /\ late' = late
                 /\ unsure' = IF answer = "ok" THEN unsure ELSE unsure \union {drain[d].item}
              \/ /\ answer # "ok" /\ UNCHANGED <<copies, unsure>>
                 /\ late' = late \/ late' = late \union {drain[d].item}
  <1>1. session \in Churches \union {NoChurch}
    BY DEF SyncTypeOK
  <1>2. CASE Taken(d)
    BY <1>1, <1>2 DEF Taken, Answers
  <1>3. CASE Refused(d)
    BY <1>1, <1>3 DEF Refused, Answers, server
  <1>4. CASE Unreachable(d)
    BY <1>1, <1>4 DEF Unreachable, Unanswered, Answers, server
  <1>5. CASE Unauthenticated(d)
    BY <1>5 DEF Unauthenticated, Unanswered, Answers, server
  <1> QED
    BY <1>2, <1>3, <1>4, <1>5 DEF Send

LEMMA SendKeeps ==
  ASSUME SyncInv, NEW d \in Slots, Send(d)
  PROVE  SyncInv'
  <1> DEFINE k == drain[d].item
  <1> USE DEF SyncInv
  <1>1. /\ drain[d].at = "sending" /\ sent' = sent \union {k}
        /\ UNCHANGED <<tenant, written, church, mark, outbox, waiting, rejected, silent, overtaken>>
    BY DEF Send
  <1>2. k \in 1..written /\ k \in outbox /\ k \in Writes
    <2>1. 1..written \subseteq Writes
      BY MaxWritesPositive DEF SyncTypeOK, Writes
    <2> QED
      BY <1>1, <2>1 DEF Drains, Draining
  <1>3. \A i \in Writes : copies[i] \in Nat
    BY MaxCopiesPositive DEF SyncTypeOK
  <1>4. PICK answer \in Answers :
           /\ Answer(d, answer) /\ session' \in Churches \union {NoChurch}
           /\ \/ /\ Store(k) /\ late' = late
                 /\ unsure' = IF answer = "ok" THEN unsure ELSE unsure \union {k}
              \/ /\ answer # "ok" /\ UNCHANGED <<copies, unsure>>
                 /\ late' = late \/ late' = late \union {k}
    BY SendEnds
  <1>5. /\ copies' \in [Writes -> 0..MaxCopies] /\ unsure' \subseteq Writes /\ unsure \subseteq unsure'
        /\ late' = late \/ late' = late \union {k}
        /\ \A i \in Writes : i # k => copies'[i] = copies[i]
        /\ copies'[k] = copies[k] \/ (copies'[k] = copies[k] + 1 /\ (answer = "ok" \/ k \in unsure'))
        /\ answer = "ok" => copies'[k] > 0
    <2> HIDE DEF k
    <2>1. CASE Store(k) /\ late' = late /\ unsure' = IF answer = "ok" THEN unsure ELSE unsure \union {k}
      <3>1. /\ copies' \in [Writes -> 0..MaxCopies]
            /\ copies'[k] = copies[k] + 1 /\ \A j \in Writes : j # k => copies'[j] = copies[j]
        BY <1>2, <2>1, Stored
      <3>2. unsure \subseteq Writes
        BY DEF SyncTypeOK
      <3> QED
        BY <1>2, <1>3, <2>1, <3>1, <3>2
    <2>2. CASE answer # "ok" /\ UNCHANGED <<copies, unsure>> /\ (late' = late \/ late' = late \union {k})
      BY <2>2 DEF SyncTypeOK
    <2> QED
      BY <1>4, <2>1, <2>2
  <1> HIDE DEF k
  <1>6. /\ Drains' /\ SentInOrder' /\ drain' \in [Slots -> DrainStates]
        /\ Rejecting = {} /\ Concluding = {} /\ Concluding' = IF answer = "ok" THEN {k} ELSE {}
    <2>1. \A i \in Writes : copies[i] > 0 => copies'[i] > 0
      BY <1>2, <1>3, <1>5
    <2> QED
      BY <1>1, <1>4, <1>5, <2>1, SendKeepsDrains DEF k
  <1>7. SyncTypeOK'
    BY <1>1, <1>2, <1>4, <1>5, <1>6 DEF SyncTypeOK, DrainStates
  <1>8. Made'
    <2>1. ASSUME NEW i \in Writes, i > written
          PROVE  copies'[i] = 0 /\ i \notin late'
      <3>1. i # k
        BY <1>2, <2>1 DEF SyncTypeOK
      <3> QED
        BY <1>5, <2>1, <3>1 DEF Made
    <2> QED
      BY <1>1, <2>1 DEF Made
  <1>9. TakenIsKnown'
    <2> SUFFICES ASSUME NEW i \in outbox, copies'[i] > 0
                 PROVE  i \in unsure' \union Concluding'
      BY <1>1 DEF TakenIsKnown
    <2>1. i \in Writes
      BY MaxWritesPositive DEF SyncTypeOK, Writes
    <2>2. CASE copies'[i] = copies[i]
      BY <1>5, <1>6, <2>2 DEF TakenIsKnown
    <2>3. CASE copies'[i] # copies[i]
      BY <1>5, <1>6, <2>1, <2>3
    <2> QED
      BY <2>2, <2>3
  <1>10. SentOnce'
    <2> SUFFICES ASSUME NEW i \in 1..written
                 PROVE  /\ i \in outbox \union silent \union rejected[church[i]] \/ copies'[i] > 0
                        /\ copies'[i] > 1 => i \in unsure'
      BY <1>1 DEF SentOnce
    <2>1. i \in Writes
      BY MaxWritesPositive DEF SyncTypeOK, Writes
    <2>2. CASE i = k
      <3>1. copies[k] > 0 => k \in unsure
        BY <1>2, <1>6 DEF TakenIsKnown
      <3> QED
        BY <1>2, <1>3, <1>5, <2>2, <3>1
    <2>3. CASE i # k
      BY <1>5, <1>6, <2>1, <2>3 DEF SentOnce
    <2> QED
      BY <2>2, <2>3
  <1> QED
    BY <1>6, <1>7, <1>8, <1>9, <1>10

LEMMA ArriveKeeps ==
  ASSUME SyncInv, NEW i \in Writes, Arrive(i)
  PROVE  SyncInv'
  <1> USE DEF SyncInv
  <1>1. /\ i \in late /\ late' = late \ {i}
        /\ UNCHANGED <<session, tenant, written, church, mark, outbox, waiting, drain, rejected,
                       silent, sent, overtaken>>
    BY DEF Arrive
  <1>2. i \in 1..written
    BY <1>1 DEF Made, SyncTypeOK, Writes
  <1>3. /\ copies' \in [Writes -> 0..MaxCopies]
        /\ unsure \subseteq unsure' /\ unsure' \subseteq Writes
        /\ \A j \in Writes : j # i => copies'[j] = copies[j]
        /\ copies'[i] = copies[i] \/ i \in unsure'
        /\ \A j \in Writes : copies[j] > 0 => copies'[j] > 0
    <2>1. CASE Store(i) /\ unsure' = unsure \union {i}
      <3>1. /\ copies' \in [Writes -> 0..MaxCopies]
            /\ copies'[i] = copies[i] + 1 /\ \A j \in Writes : j # i => copies'[j] = copies[j]
        BY <1>2, <2>1, Stored
      <3>2. \A j \in Writes : copies[j] \in Nat
        BY MaxCopiesPositive DEF SyncTypeOK
      <3>3. unsure' \subseteq Writes
        BY <2>1 DEF SyncTypeOK
      <3> QED
        BY <2>1, <3>1, <3>2, <3>3
    <2>2. CASE UNCHANGED <<copies, unsure>>
      BY <2>2 DEF SyncTypeOK
    <2> QED
      BY <2>1, <2>2 DEF Arrive
  <1>4. SyncTypeOK'
    BY <1>1, <1>3 DEF SyncTypeOK
  <1>5. Made'
    BY <1>1, <1>2, <1>3 DEF Made, SyncTypeOK
  <1>6. Concluding' = Concluding /\ Rejecting' = Rejecting
    BY <1>1 DEF Concluding, Rejecting
  <1>7. 1..written \subseteq Writes /\ outbox \subseteq Writes /\ mark \subseteq Writes
    BY MaxWritesPositive DEF SyncTypeOK, Writes
  <1>8. TakenIsKnown' /\ SentOnce'
    <2>1. TakenIsKnown'
      BY <1>1, <1>3, <1>6, <1>7 DEF TakenIsKnown
    <2>2. ASSUME NEW j \in 1..written
          PROVE  /\ j \in outbox \union silent \union Rejecting \union rejected[church[j]] \/ copies'[j] > 0
                 /\ copies'[j] > 1 => j \in unsure'
      <3>1. copies[j] > 0 => copies'[j] > 0
        BY <1>3, <1>7
      <3>2. copies'[j] = copies[j] \/ j \in unsure'
        BY <1>3, <1>7
      <3> QED
        BY <1>3, <3>1, <3>2 DEF SentOnce
    <2> QED
      BY <1>1, <1>6, <2>1, <2>2 DEF SentOnce
  <1>10. Drains' /\ SentInOrder'
    <2>1. \A j, k : Together(j, k)' <=> Together(j, k)
      BY <1>1 DEF Together
    <2>2. \A j : Resource(j)' = Resource(j)
      BY <1>1 DEF Resource
    <2>3. \A j \in Writes : Sent(j)' => Sent(j)
      BY <1>1 DEF Sent
    <2>4. ASSUME NEW d \in Slots
          PROVE  Draining(d)' /\ LeftInOrder(d)'
      <3>1. drain[d].at # "idle" => drain[d].item \in Writes
        BY <1>7 DEF Drains, Draining
      <3>2. Draining(d)'
        BY <1>1, <1>3, <3>1 DEF Drains, Draining, Idle
      <3>3. LeftInOrder(d)'
        BY <1>1, <2>1, <2>2 DEF Drains, LeftInOrder
      <3> QED
        BY <3>2, <3>3
    <2> QED
      BY <1>1, <1>7, <2>1, <2>3, <2>4 DEF Drains, OneDrain, SentInOrder
  <1> QED
    BY <1>4, <1>5, <1>8, <1>10

\* A drain that ends leaves nothing behind.
LEMMA DrainEnds ==
  ASSUME SyncTypeOK, Drains, SentInOrder, NEW d \in Slots, drain[d].at # "idle",
         drain' = [drain EXCEPT ![d] = Idle],
         UNCHANGED <<written, church, mark, outbox, copies, sent, overtaken>>
  PROVE  Drains' /\ SentInOrder' /\ drain' \in [Slots -> DrainStates]
  <1>1. drain \in [Slots -> DrainStates] /\ Idle \in DrainStates
    BY DrainsTyped, MaxWritesPositive DEF Idle, DrainStates, DrainPlaces, Answers
  <1>2. \A e \in Slots : drain'[e] = Idle
    BY <1>1, OthersRest
  <1>3. Drains'
    BY <1>2 DEF Drains, OneDrain, Draining, LeftInOrder, Idle
  <1>4. SentInOrder'
    <2>1. ASSUME NEW j \in mark, Sent(j)'
          PROVE  Sent(j)
      <3>1. j # 0
        BY DEF SyncTypeOK
      <3> QED
        BY <1>2, <2>1, <3>1 DEF Sent, Idle
    <2> QED
      BY <2>1 DEF SentInOrder, Together
  <1> QED
    BY <1>1, <1>3, <1>4

LEMMA ConcludeKeeps ==
  ASSUME SyncInv, NEW d \in Slots, Conclude(d)
  PROVE  SyncInv'
  <1> DEFINE k == drain[d].item
  <1> USE DEF SyncInv
  <1>1. /\ drain[d].at = "answered"
        /\ UNCHANGED <<session, tenant, written, church, mark, rejected, copies, late,
                       unsure, silent, sent, overtaken>>
    BY DEF Conclude, server, syncHistory
  <1>2. drain \in [Slots -> DrainStates] /\ \A e \in Slots : e # d => drain[e] = Idle
    BY <1>1, OthersRest, DrainsTyped
  <1>3. /\ k \in 1..written /\ k \in outbox /\ k \notin drain[d].left /\ drain[d].left \subseteq outbox
        /\ drain[d].answer = "ok" => copies[k] > 0
    BY <1>1 DEF Drains, Draining
  <1>4. Rejecting = {} /\ Concluding = IF drain[d].answer = "ok" THEN {k} ELSE {}
    <2>1. {e \in Slots : drain[e].answer = "ok"} = IF drain[d].answer = "ok" THEN {d} ELSE {}
      BY <1>2 DEF Idle
    <2> QED
      BY <1>1, <1>2, <2>1 DEF Rejecting, Concluding, Idle
  <1> HIDE DEF k
  <1>5. \* what does not depend on how it ends
        ASSUME outbox' \in {outbox, outbox \ {k}}, waiting' \subseteq outbox',
               drain' \in [Slots -> DrainStates], Drains', SentInOrder',
               k \in outbox' => drain[d].answer # "ok",
               k \notin outbox' => copies[k] > 0 \/ k \in Rejecting'
        PROVE  SyncInv'
    <2>1. SyncTypeOK'
      BY <1>1, <1>5 DEF SyncTypeOK, DrainStates
    <2>2. Made'
      BY <1>1 DEF Made
    <2>3. TakenIsKnown'
      BY <1>1, <1>4, <1>5 DEF TakenIsKnown
    <2>4. SentOnce'
      BY <1>1, <1>4, <1>5 DEF SentOnce
    <2> QED
      BY <1>5, <2>1, <2>2, <2>3, <2>4
  <1>6. CASE drain[d].answer = "ok" /\ TakeOut(k) /\ drain' = [drain EXCEPT ![d] = Advance(drain[d].left, drain[d].blocked)]
    <2>1. outbox' = outbox \ {k} /\ waiting' \subseteq outbox'
      BY <1>6 DEF TakeOut, SyncTypeOK
    <2>2. Drains' /\ SentInOrder' /\ drain' \in [Slots -> DrainStates]
      BY <1>1, <1>6, <2>1, DrainGoesOn DEF k
    <2> QED
      BY <1>3, <1>5, <1>6, <2>1, <2>2
  <1>7. CASE drain[d].answer = "retry" /\ PutBack(k) /\ drain' = [drain EXCEPT ![d] = Advance(drain[d].left, Blocked(d))]
    <2>1. outbox' = outbox /\ waiting' \subseteq outbox'
      BY <1>3, <1>7 DEF PutBack, SyncTypeOK
    <2>2. Drains' /\ SentInOrder' /\ drain' \in [Slots -> DrainStates]
      BY <1>1, <1>7, <2>1, DrainGoesOn DEF k
    <2> QED
      BY <1>3, <1>5, <1>7, <2>1, <2>2
  <1>8. CASE drain[d].answer = "refused" /\ TakeOut(k) /\ drain' = [drain EXCEPT ![d] = [drain[d] EXCEPT !.at = "rejecting"]]
    <2>1. outbox' = outbox \ {k} /\ waiting' \subseteq outbox'
      BY <1>8 DEF TakeOut, SyncTypeOK
    <2> DEFINE s == [drain[d] EXCEPT !.at = "rejecting"]
    <2>2. "rejecting" \in DrainPlaces
      BY DEF DrainPlaces
    <2>3. /\ s \in DrainStates /\ s.at = "rejecting" /\ s.answer = "refused" /\ s.item = k
          /\ s.left = drain[d].left /\ s.blocked = drain[d].blocked
      BY <1>2, <1>8, <2>2 DEF DrainStates, k
    <2>4. drain' = [drain EXCEPT ![d] = s]
      BY <1>8
    <2> HIDE DEF s
    <2>5. /\ drain' \in [Slots -> DrainStates] /\ drain'[d] = s
          /\ \A e \in Slots : e # d => drain'[e] = Idle
      BY <1>2, <2>3, <2>4
    <2>6. \A i, j : Together(i, j)' <=> Together(i, j)
      BY <1>1 DEF Together
    <2>7. \A j : Resource(j)' = Resource(j)
      BY <1>1 DEF Resource
    <2>8. Drains'
      <3>1. OneDrain'
        BY <2>5 DEF OneDrain
      <3>2. Draining(d)'
        BY <1>1, <1>3, <2>1, <2>3, <2>5 DEF Draining
      <3>3. LeftInOrder(d)'
        BY <1>1, <2>1, <2>3, <2>5, <2>6, <2>7 DEF LeftInOrder, Drains, k
      <3>4. ASSUME NEW e \in Slots, e # d
            PROVE  Draining(e)' /\ LeftInOrder(e)'
        BY <2>5, <3>4 DEF Draining, LeftInOrder, Idle
      <3> QED
        BY <3>1, <3>2, <3>3, <3>4 DEF Drains
    <2>9. SentInOrder'
      <3>1. ASSUME NEW j \in mark, Sent(j)'
            PROVE  Sent(j)
        BY <1>1, <1>2, <2>3, <2>5, <3>1 DEF Sent, k
      <3> QED
        BY <1>1, <2>1, <2>6, <3>1 DEF SentInOrder
    <2>10. k \in Rejecting'
      BY <2>3, <2>5 DEF Rejecting
    <2> QED
      BY <1>5, <2>1, <2>5, <2>8, <2>9, <2>10
  <1>9. CASE drain[d].answer = "unauthenticated" /\ drain' = [drain EXCEPT ![d] = Idle] /\ UNCHANGED <<outbox, waiting>>
    <2>1. Drains' /\ SentInOrder' /\ drain' \in [Slots -> DrainStates]
      BY <1>1, <1>9, DrainEnds
    <2>2. waiting' \subseteq outbox'
      BY <1>9 DEF SyncTypeOK
    <2> QED
      BY <1>3, <1>5, <1>9, <2>1, <2>2
  <1> QED
    BY <1>6, <1>7, <1>8, <1>9 DEF Conclude, k

LEMMA RejectKeeps ==
  ASSUME SyncInv, NEW d \in Slots, Reject(d)
  PROVE  SyncInv'
  <1> DEFINE k == drain[d].item
  <1> USE DEF SyncInv
  <1>1. /\ drain[d].at = "rejecting"
        /\ drain' = [drain EXCEPT ![d] = Advance(drain[d].left, drain[d].blocked)]
        /\ UNCHANGED <<session, tenant, written, church, mark, outbox, waiting, copies, late,
                       unsure, sent, overtaken>>
    BY DEF Reject, server
  <1>2. drain \in [Slots -> DrainStates] /\ \A e \in Slots : e # d => drain[e] = Idle
    BY <1>1, OthersRest, DrainsTyped
  <1>3. k \in 1..written /\ k \in Writes /\ k \notin outbox /\ drain[d].answer = "refused"
    <2>1. 1..written \subseteq Writes
      BY MaxWritesPositive DEF SyncTypeOK, Writes
    <2> QED
      BY <1>1, <2>1 DEF Drains, Draining
  <1>4. Rejecting = {k} /\ Concluding = {}
    <2>1. {e \in Slots : drain[e].at = "rejecting"} = {d}
      BY <1>1, <1>2 DEF Idle
    <2> QED
      BY <1>2, <1>3, <2>1 DEF Rejecting, Concluding, Idle
  <1>5. Drains' /\ SentInOrder' /\ drain' \in [Slots -> DrainStates]
    BY <1>1, <1>3, DrainGoesOn
  <1>6. /\ rejected' \in [Churches -> SUBSET Writes] /\ silent \subseteq silent' /\ silent' \subseteq Writes
        /\ \A c \in Churches : rejected[c] \subseteq rejected'[c]
        /\ k \in silent' \union rejected'[church[k]]
    <2>1. /\ rejected' = [c \in Churches |-> IF c = tenant THEN rejected[c] \union {k} ELSE rejected[c]]
          /\ silent' = IF tenant = church[k] THEN silent ELSE silent \union {k}
      BY DEF Reject
    <2> HIDE DEF k
    <2>2. rejected \in [Churches -> SUBSET Writes] /\ silent \subseteq Writes
      BY DEF SyncTypeOK
    <2>3. church[k] \in Churches
      BY <1>3 DEF Made
    <2> QED
      BY <1>3, <2>1, <2>2, <2>3
  <1> HIDE DEF k
  <1>7. SyncTypeOK'
    BY <1>1, <1>5, <1>6 DEF SyncTypeOK, DrainStates
  <1>8. Made'
    BY <1>1 DEF Made
  <1>9. TakenIsKnown'
    BY <1>1, <1>4 DEF TakenIsKnown
  <1>10. SentOnce'
    <2>1. \A i \in 1..written : rejected[church[i]] \subseteq rejected'[church[i]]
      BY <1>6 DEF Made
    <2> QED
      BY <1>1, <1>4, <1>6, <2>1 DEF SentOnce
  <1> QED
    BY <1>5, <1>7, <1>8, <1>9, <1>10

LEMMA RestartKeeps ==
  ASSUME SyncInv, Restart
  PROVE  SyncInv'
  <1> USE DEF SyncInv
  <1>1. /\ drain' = [d \in Slots |-> Idle]
        /\ unsure' = unsure \union Concluding /\ silent' = silent \union Rejecting
        /\ UNCHANGED <<written, church, mark, outbox, waiting, rejected, copies, late,
                       sent, overtaken>>
    BY DEF Restart, server
  <1>2. session' \in Churches \union {NoChurch} /\ tenant' \in Churches \union {NoChurch}
    BY DEF Restart, SyncTypeOK
  <1>3. drain \in [Slots -> DrainStates]
    BY DrainsTyped
  <1>4. Concluding \subseteq Writes /\ Rejecting \subseteq Writes
    <2>1. ASSUME NEW d \in Slots, drain[d].answer = "ok" \/ drain[d].at = "rejecting"
          PROVE  drain[d].item \in Writes
      <3>1. drain[d].item \in 1..written
        BY <2>1 DEF Drains, Draining, Idle
      <3> QED
        BY <3>1, MaxWritesPositive DEF SyncTypeOK, Writes
    <2> QED
      BY <2>1 DEF Concluding, Rejecting
  <1>5. \A d \in Slots : drain'[d] = Idle
    BY <1>1
  <1>6. SyncTypeOK'
    <2>1. Idle \in DrainStates
      BY MaxWritesPositive DEF Idle, DrainStates, DrainPlaces, Answers
    <2>2. drain' \in [Slots -> DrainStates]
      BY <1>1, <2>1
    <2> QED
      BY <1>1, <1>2, <1>4, <2>2 DEF SyncTypeOK, DrainStates
  <1>7. Made'
    BY <1>1 DEF Made
  <1>8. Concluding' = {} /\ Rejecting' = {}
    BY <1>5 DEF Concluding, Rejecting, Idle
  <1>9. TakenIsKnown' /\ SentOnce'
    BY <1>1, <1>8 DEF TakenIsKnown, SentOnce
  <1>10. Drains'
    BY <1>5 DEF Drains, OneDrain, Draining, LeftInOrder, Idle
  <1>11. SentInOrder'
    <2>1. ASSUME NEW j \in mark, Sent(j)'
          PROVE  Sent(j)
      <3>1. j # 0
        BY DEF SyncTypeOK
      <3> QED
        BY <1>1, <1>5, <2>1, <3>1 DEF Sent, Idle
    <2> QED
      BY <1>1, <2>1 DEF SentInOrder, Together
  <1> QED
    BY <1>6, <1>7, <1>9, <1>10, <1>11

LEMMA SyncNextKeeps ==
  ASSUME SyncInv, [SyncNext]_syncVars
  PROVE  SyncInv'
  <1>1. ASSUME NEW i \in Writes, BecomeDue(i)
        PROVE  SyncInv'
    BY <1>1, SyncFrame DEF BecomeDue, SyncInv, SyncTypeOK
  <1>2. ASSUME NEW c \in Churches, Login(c)
        PROVE  SyncInv'
    <2>1. session' \in Churches \union {NoChurch} /\ tenant' \in Churches \union {NoChurch}
      BY <1>2 DEF Login, Activate, SyncInv, SyncTypeOK
    <2> QED
      BY <1>2, <2>1, SyncFrame DEF Login
  <1>3. CASE Logout
    BY <1>3, SyncFrame DEF Logout
  <1>4. CASE UNCHANGED syncVars
    BY <1>4, SyncFrame DEF syncVars, SyncInv, SyncTypeOK
  <1> QED
    BY <1>1, <1>2, <1>3, <1>4, KickKeeps, WriteKeeps, SendKeeps, ArriveKeeps, ConcludeKeeps,
       RejectKeeps, RestartKeeps DEF SyncNext

-----------------------------------------------------------------------------
(* The theorems *)

LEMMA SyncAlways == SyncSpec => []SyncInv
  <1>1. SyncInit => SyncInv
    BY SyncInitIsFine
  <1>2. SyncInv /\ [SyncNext]_syncVars => SyncInv'
    BY SyncNextKeeps
  <1> QED
    BY <1>1, <1>2, PTL DEF SyncSpec

\* Whatever the outbox, the drain, the session and the cache go through, each keeps the
\* values it can have.  (outbox_store.dart, sync_engine.dart)
THEOREM SyncTypeCorrect == SyncSpec => []SyncTypeOK
  <1>1. SyncInv => SyncTypeOK
    BY DEF SyncInv
  <1> QED
    BY <1>1, SyncAlways, PTL

\* No write is lost between the box, the API and the screen, however the drains, the
\* requests and the restarts fall, and one that the API has twice is one whose answer
\* the engine never got.  (SyncEngine._drain)
THEOREM WritesAreSentOnce == SyncSpec => []SentOnce
  <1>1. SyncInv => SentOnce
    BY DEF SyncInv
  <1> QED
    BY <1>1, SyncAlways, PTL

\* No drain sends a mark while an earlier one of its resource is in the box, however many
\* there are, but for those that waited when it set out.  (SyncEngine.drain: pending, blocked)
THEOREM MarksAreSentInOrder == SyncSpec => []ReorderedByWaiting
  <1>1. SyncInv => ReorderedByWaiting
    BY DEF SyncInv, SyncTypeOK, SentInOrder, ReorderedByWaiting, NeverReordered, Sent, Together
  <1> QED
    BY <1>1, SyncAlways, PTL

=============================================================================
