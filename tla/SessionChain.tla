---------------------------- MODULE SessionChain ----------------------------
(***************************************************************************)
(* What the session service promises the holder of a refresh token, without *)
(* requests, rows or locks: a session goes on by one token at a time, an   *)
(* exchange retires that token for a new one, and a session that is closed *)
(* goes on by none, ever.  Each of these happens at once.                  *)
(* Sessions.tla is shown to implement this module.                         *)
(***************************************************************************)

CONSTANTS SessionIds,  \* sessions of one user
          Tokens,      \* refresh tokens
          None         \* no token

VARIABLES state,    \* each session: "ABSENT", "ACTIVE" or "REVOKED"
          current,  \* the one token with which each session can go on
          issued    \* tokens that were ever handed out

chainVars == <<state, current, issued>>

Init ==
  /\ state = [s \in SessionIds |-> "ABSENT"]
  /\ current = [s \in SessionIds |-> None]
  /\ issued = {}

\* A token is handed out once, to one session.
Issue(s, t) ==
  /\ t \notin issued
  /\ issued' = issued \union {t}
  /\ current' = [current EXCEPT ![s] = t]

SignIn(s, t) ==
  /\ state[s] = "ABSENT"
  /\ state' = [state EXCEPT ![s] = "ACTIVE"]
  /\ Issue(s, t)

\* The session goes on with another token; the one it had is good for nothing now.
Exchange(s, t) ==
  /\ state[s] = "ACTIVE" /\ current[s] # None
  /\ UNCHANGED state
  /\ Issue(s, t)

\* Sessions are closed with their tokens.  A session that came while others were being
\* closed may lose its token and stay open, without a way to go on.
Close(closed, ended) ==
  /\ closed \subseteq ended
  /\ \A s \in closed : state[s] = "ACTIVE"
  /\ state' = [s \in SessionIds |-> IF s \in closed THEN "REVOKED" ELSE state[s]]
  /\ current' = [s \in SessionIds |-> IF s \in ended THEN None ELSE current[s]]
  /\ UNCHANGED issued

Next ==
  \/ \E s \in SessionIds, t \in Tokens : SignIn(s, t) \/ Exchange(s, t)
  \/ \E closed, ended \in SUBSET SessionIds : Close(closed, ended)

Spec == Init /\ [][Next]_chainVars
=============================================================================
