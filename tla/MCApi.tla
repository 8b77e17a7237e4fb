-------------------------------- MODULE MCApi -------------------------------
(***************************************************************************)
(* Outbox and Sessions for TLC: the relays and the sessions of the API     *)
(* processes.  They share no variable and no row, so a behaviour of both   *)
(* shows nothing that one of them alone does not: one of them moves, and   *)
(* the other stays where nothing has happened yet, which is where their    *)
(* fairness demands nothing.                                               *)
(***************************************************************************)
EXTENDS Outbox, Sessions

ApiInit == OutboxInit /\ Init

Relaying == OutboxNext /\ UNCHANGED vars
Authenticating == Next /\ UNCHANGED outboxVars

ApiNext ==
  \/ Init /\ Relaying
  \/ OutboxInit /\ Authenticating

ApiSpec ==
  /\ ApiInit /\ [][ApiNext]_<<outboxVars, vars>>
  /\ Fairness
  /\ \A r \in Requests : SF_vars(Step(r)) /\ WF_vars(DeadlockVictim(r))

=============================================================================
