---------------------------- MODULE Invitations ----------------------------
(***************************************************************************)
(* The invitation of one e-mail address to one church                      *)
(* (modules/onboarding/invitation.service.ts) and the challenges that      *)
(* carry its tokens (modules/auth/verification.service.ts).                *)
(*                                                                         *)
(* Administrators invite, resend and revoke; the bearer of a token accepts *)
(* or declines.  Every read and every write is a transaction of its own,   *)
(* so a call is split wherever it awaits one that another call can         *)
(* disturb.  A token is its number; what was shown in a preview, names,    *)
(* audit and the session that accept opens are left out.                   *)
(***************************************************************************)
EXTENDS Naturals, FiniteSets

CONSTANTS
  Admins,   \* calls of administrators
  Bearers,  \* calls that present a token
  Roles,    \* the roles an administrator may give
  None,     \* stands for no role
  MaxTokens \* bound on the tokens issued

ASSUME NoneIsNoRole == None \notin Roles
ASSUME MaxTokensPositive == MaxTokens \in Nat \ {0}

Tokens == 1..MaxTokens

VARIABLES
  invitation, \* tenant_invitations.status, "ABSENT" before the row is there
  role,       \* tenant_invitations.role
  challenge,  \* tenant_invitations.challenge_id, 0 for null
  issued,     \* number of INVITATION challenges issued
  expired,    \* those whose expires_at has passed
  consumed,   \* those with a consumed_at
  account,    \* a user with this e-mail address exists
  identity,   \* that user has the EMAIL identity by which findByEmail looks
  member,     \* the role of that user's membership, None if there is none
  admin,      \* each administrator's call: where it is, the status it has read, the role
              \* it gives, its token
  bearer,     \* each bearer's call: where it is, whether it accepts, its token, and
              \* the status and the role it has read
  shut,       \* the invitation was revoked while no call had it open (history)
  overwritten \* ACCEPTED was overwritten by a call that had read it earlier (history)

rows == <<invitation, role, challenge>>
tokens == <<issued, expired, consumed>>
user == <<account, identity, member>>
inviteHistory == <<shut, overwritten>>
inviteVars == <<rows, tokens, user, admin, bearer, inviteHistory>>

InvitationStatuses == {"ABSENT", "PENDING", "ACCEPTED", "REVOKED"}
AdminPlaces == {"new", "inviting", "resending", "revoking", "issuing", "linking", "done"}
BearerPlaces == {"new", "consuming", "checking", "finding", "provisioning", "joining",
                 "declining", "done"}

AdminAt(place, saw, r, t) == [at |-> place, saw |-> saw, role |-> r, token |-> t]
BearerAt(place, accepts, t) ==
  [at |-> place, accepts |-> accepts, token |-> t, saw |-> "ABSENT", role |-> None]

InviteTypeOK ==
  /\ invitation \in InvitationStatuses
  /\ role \in Roles \union {None}
  /\ issued \in 0..MaxTokens
  /\ challenge \in 0..issued
  /\ expired \subseteq 1..issued
  /\ consumed \subseteq 1..issued
  /\ account \in BOOLEAN
  /\ identity \in BOOLEAN
  /\ member \in Roles \union {None}
  /\ admin \in [Admins -> [at : AdminPlaces, saw : InvitationStatuses,
                           role : Roles \union {None}, token : 0..MaxTokens]]
  /\ bearer \in [Bearers -> [at : BearerPlaces, accepts : BOOLEAN, token : 0..MaxTokens,
                             saw : InvitationStatuses, role : Roles \union {None}]]
  /\ shut \in BOOLEAN
  /\ overwritten \in BOOLEAN
  /\ identity \/ member # None => account

InviteInit ==
  /\ invitation = "ABSENT" /\ role = None /\ challenge = 0
  /\ issued = 0 /\ expired = {} /\ consumed = {}
  /\ account \in BOOLEAN /\ identity \in {account, FALSE}
  /\ member = None
  /\ admin = [a \in Admins |-> AdminAt("new", "ABSENT", None, 0)]
  /\ bearer = [b \in Bearers |-> BearerAt("new", FALSE, 0)]
  /\ shut = FALSE /\ overwritten = FALSE

\* Calls that will add the membership: they have seen an invitation that was open
Entering == {b \in Bearers : bearer[b].at \in {"finding", "provisioning", "joining"}}

-----------------------------------------------------------------------------
(* The administrators *)

AdminGoes(a, state) == admin' = [admin EXCEPT ![a] = state]

\* Faulty variant: resend and revoke do not look at the status.
AdmitsAny(place) == IF place = "inviting" THEN invitation # "ACCEPTED" ELSE invitation # "ABSENT"

\* invite finds no invitation that was accepted; resend and revoke, one that was not.
Admits(place) == invitation # "ACCEPTED" /\ (place # "inviting" => invitation # "ABSENT")

BeginAs(a, place, r) ==
  /\ admin[a].at = "new" /\ Admits(place)
  /\ AdminGoes(a, AdminAt(place, invitation, r, 0))
  /\ UNCHANGED <<rows, tokens, user, bearer, inviteHistory>>

BeginCall(a) ==
  \/ \E r \in Roles : BeginAs(a, "inviting", r)
  \/ \E place \in {"resending", "revoking"} : BeginAs(a, place, None)

\* A write of the status on the strength of saw
Overwrites(saw) == overwritten' = (overwritten \/ (invitation = "ACCEPTED" /\ saw # "ACCEPTED"))

\* The upsert of invite, the update of resend: by key, whatever the status is by now
Open(a) ==
  /\ admin[a].at \in {"inviting", "resending"}
  /\ invitation' = "PENDING"
  /\ role' = IF admin[a].at = "inviting" THEN admin[a].role ELSE role
  /\ shut' = FALSE
  /\ Overwrites(admin[a].saw)
  /\ AdminGoes(a, AdminAt("issuing", "ABSENT", None, 0))
  /\ UNCHANGED <<challenge, tokens, user, bearer>>

\* issue, and the mail with the token; enforceIssueLimit may refuse it.
Issue(a) ==
  /\ admin[a].at = "issuing"
  /\ \/ /\ issued < MaxTokens
        /\ issued' = issued + 1
        /\ AdminGoes(a, AdminAt("linking", "ABSENT", None, issued + 1))
     \/ /\ AdminGoes(a, AdminAt("done", "ABSENT", None, 0))
        /\ UNCHANGED issued
  /\ UNCHANGED <<rows, expired, consumed, user, bearer, inviteHistory>>

\* issueAndSend writes challenge_id, then sends.
Link(a) ==
  /\ admin[a].at = "linking"
  /\ challenge' = admin[a].token
  /\ AdminGoes(a, AdminAt("done", "ABSENT", None, 0))
  /\ UNCHANGED <<invitation, role, tokens, user, bearer, inviteHistory>>

\* REVOKED, by revoke or by decline
Shut(saw) ==
  /\ invitation' = "REVOKED"
  /\ shut' = (member = None /\ Entering = {})
  /\ Overwrites(saw)
  /\ UNCHANGED <<role, challenge, tokens, user>>

Revoke(a) ==
  /\ admin[a].at = "revoking" /\ Shut(admin[a].saw)
  /\ AdminGoes(a, AdminAt("done", "ABSENT", None, 0))
  /\ UNCHANGED bearer

-----------------------------------------------------------------------------
(* The bearers *)

BearerGoes(b, state) == bearer' = [bearer EXCEPT ![b] = state]
BearerMoves(b, place) == BearerGoes(b, [bearer[b] EXCEPT !.at = place])
BearerEnds(b, t) == BearerGoes(b, BearerAt("done", FALSE, t))

\* Tokens that have been mailed: a bearer cannot have the others.
Mailed == 1..issued \ {admin[a].token : a \in Admins}

\* consumeByToken finds the challenge open.
Present(b, t, accepts) ==
  /\ bearer[b].at = "new" /\ t \in Mailed \ (consumed \union expired)
  /\ BearerGoes(b, BearerAt("consuming", accepts, t))
  /\ UNCHANGED <<rows, tokens, user, admin, inviteHistory>>

\* where: { consumedAt: null }
Unspent(t) == t \notin consumed

\* The compare-and-set of consumeByToken
Consume(b) ==
  LET t == bearer[b].token
  IN /\ bearer[b].at = "consuming"
     /\ \/ Unspent(t) /\ consumed' = consumed \union {t} /\ BearerMoves(b, "checking")
        \/ ~Unspent(t) /\ UNCHANGED consumed /\ BearerEnds(b, 0)
     /\ UNCHANGED <<rows, issued, expired, user, admin, inviteHistory>>

\* Faulty variant: only an accepted invitation is closed to accept.
ClosedLoose(accepts) == invitation = "ACCEPTED"

\* What ends accept and decline after the token is spent
Closed(accepts) ==
  \/ invitation = "ACCEPTED"
  \/ accepts /\ invitation = "REVOKED"

\* requireInvitation and the checks that follow
Check(b) ==
  LET r == bearer[b]
  IN /\ r.at = "checking"
     /\ \/ Closed(r.accepts) /\ BearerEnds(b, r.token)
        \/ /\ ~Closed(r.accepts)
           /\ BearerGoes(b, [r EXCEPT !.at = IF r.accepts THEN "finding" ELSE "declining",
                                      !.saw = invitation,
                                      !.role = IF r.accepts THEN role ELSE None])
     /\ UNCHANGED <<rows, tokens, user, admin, inviteHistory>>

\* Faulty variant: an address without an identity is taken for a user's.
AfterFindingAny == "joining"

\* findByEmail
AfterFinding == IF identity THEN "joining" ELSE "provisioning"

\* Without an identity the request needs a password; the token is spent by now.
Find(b) ==
  /\ bearer[b].at = "finding"
  /\ \/ BearerMoves(b, AfterFinding)
     \/ ~identity /\ BearerEnds(b, bearer[b].token)
  /\ UNCHANGED <<rows, tokens, user, admin, inviteHistory>>

\* provisionUser makes a user without an identity; the address of a user is unique.
Provision(b) ==
  /\ bearer[b].at = "provisioning"
  /\ \/ ~account /\ account' = TRUE /\ BearerMoves(b, "joining")
     \/ account /\ UNCHANGED account /\ BearerEnds(b, bearer[b].token)
  /\ UNCHANGED <<rows, tokens, identity, member, admin, inviteHistory>>

\* The last transaction of accept: by id, whatever the status is by now
Join(b) ==
  /\ bearer[b].at = "joining"
  /\ member' = IF member = None THEN bearer[b].role ELSE member
  /\ invitation' = "ACCEPTED"
  /\ BearerEnds(b, bearer[b].token)
  /\ UNCHANGED <<role, challenge, tokens, account, identity, admin, inviteHistory>>

Decline(b) ==
  /\ bearer[b].at = "declining" /\ Shut(bearer[b].saw)
  /\ BearerEnds(b, bearer[b].token)
  /\ UNCHANGED admin

-----------------------------------------------------------------------------
(* Meanwhile *)

Expire(t) ==
  /\ t \in 1..issued \ expired
  /\ expired' = expired \union {t}
  /\ UNCHANGED <<rows, issued, consumed, user, admin, bearer, inviteHistory>>

\* Somebody signs up with the address elsewhere: as the owner of a church, or with
\* another identity (oauth), or by accepting the invitation of another church.
SignUp ==
  /\ ~account /\ account' = TRUE
  /\ identity' \in BOOLEAN
  /\ UNCHANGED <<rows, tokens, member, admin, bearer, inviteHistory>>

InviteNext ==
  \/ \E a \in Admins : BeginCall(a)
  \/ \E a \in Admins : Open(a)
  \/ \E a \in Admins : Issue(a)
  \/ \E a \in Admins : Link(a)
  \/ \E a \in Admins : Revoke(a)
  \/ \E b \in Bearers, t \in Tokens, accepts \in BOOLEAN : Present(b, t, accepts)
  \/ \E b \in Bearers : Consume(b)
  \/ \E b \in Bearers : Check(b)
  \/ \E b \in Bearers : Find(b)
  \/ \E b \in Bearers : Provision(b)
  \/ \E b \in Bearers : Join(b)
  \/ \E b \in Bearers : Decline(b)
  \/ \E t \in Tokens : Expire(t)
  \/ SignUp

InviteSpec == InviteInit /\ [][InviteNext]_inviteVars

-----------------------------------------------------------------------------
(* An accepted invitation has made its member, and the member's invitation *)
(* stays accepted, unless a call that had read it before the acceptance    *)
(* wrote its own status over it.  (accept, invite, resend, revoke, decline *)
(* write by key.)                                                          *)
MemberIsAccepted ==
  /\ invitation = "ACCEPTED" => member # None
  /\ member # None => invitation = "ACCEPTED" \/ overwritten

(* An invitation that was revoked or declined while no call was past its   *)
(* check lets nobody in, whichever tokens are still about, until it is     *)
(* opened again.                                                           *)
ShutKeepsOut == shut => member = None

=============================================================================
