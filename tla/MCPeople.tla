------------------------------ MODULE MCPeople ------------------------------
(***************************************************************************)
(* MemberImport, Invitations and MobileSync for TLC: how a person becomes  *)
(* a member and what a member's phone sends.  The three share no variable  *)
(* and no row, so a behaviour of all three shows nothing that one of them  *)
(* alone does not: one of them moves, from any of its initial states, and  *)
(* the other two stay where nothing has happened yet.                      *)
(***************************************************************************)
EXTENDS MemberImport, Invitations, MobileSync, TLC

NothingImported == Init /\ accounts = {} /\ taken = {}
NobodyInvited == InviteInit /\ ~account

PeopleInit ==
  \/ Init /\ NobodyInvited /\ SyncInit
  \/ NothingImported /\ InviteInit /\ SyncInit

Importing == Next /\ UNCHANGED <<inviteVars, syncVars>>
Inviting == InviteNext /\ UNCHANGED <<vars, syncVars>>
Syncing == SyncNext /\ UNCHANGED <<vars, inviteVars>>

PeopleNext ==
  \/ NobodyInvited /\ SyncInit /\ Importing
  \/ NothingImported /\ SyncInit /\ Inviting
  \/ NothingImported /\ NobodyInvited /\ Syncing

PeopleSpec == PeopleInit /\ [][PeopleNext]_<<vars, inviteVars, syncVars>>

\* One call is as good as another; People.cfg gives the calls of the import and those of the
\* administrators the same names, so that one permutation serves both.
Symmetry == Permutations(Calls)

=============================================================================
