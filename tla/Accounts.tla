------------------------------ MODULE Accounts ------------------------------
(***************************************************************************)
(* The credentials and the sessions of one user                            *)
(* (modules/auth: auth.service, verification.service, mfa.service and      *)
(* identity.service): signing in with one or two factors, magic links and  *)
(* codes, accepting an invitation (onboarding: invitation.service),        *)
(* resetting and changing the password, enrolling and disabling a TOTP     *)
(* factor, recovery codes, switching the tenant.                           *)
(*                                                                         *)
(* Every await of a request is a transaction or a Redis command of its     *)
(* own, so a request is split wherever it awaits one that another request  *)
(* can disturb; the transactions over factors and recovery codes are split *)
(* at their statements.  A password, a set of recovery codes and a session *)
(* carry the name of the request that made them.  A set has one code, a    *)
(* secret that is refused leaves no trace but the count of wrong codes.    *)
(* Rate limits, expiry, audit, mail, verified contacts and the tenant a    *)
(* session is for are left out; rotation and locks are those of Sessions.  *)
(***************************************************************************)
EXTENDS Naturals, FiniteSets

CONSTANTS
  Requests,      \* HTTP requests of this user
  Initial,       \* names the password, codes and session there were before
  Factors,       \* TOTP factors of the user
  None,          \* stands for no name
  MaxChallenges, \* bound on the challenges issued
  MaxAttempts,   \* OTP_MAX_ATTEMPTS
  MaxFaults      \* bound on requests that are aborted

ASSUME NamesDiffer == Initial \notin Requests /\ None \notin Requests \union {Initial} \union Factors
ASSUME MaxChallengesNat == MaxChallenges \in Nat
ASSUME MaxAttemptsPositive == MaxAttempts \in Nat \ {0}
ASSUME MaxFaultsNat == MaxFaults \in Nat

Makers == Requests \union {Initial}
Challenges == 1..MaxChallenges

VARIABLES
  password,  \* password_credentials.password_hash: who set it
  purpose,   \* verification_challenges.purpose, "ABSENT" before the row is there
  spent,     \* challenges that have a consumed_at
  attempts,  \* verification_challenges.attempts
  factor,    \* mfa_factors: status, and whether secret_ciphertext is there
  codes,     \* the sets of recovery codes that are there and unused
  awaiting,  \* requests whose mfaToken is in Redis
  session,   \* auth_sessions: status and assurance level; the password when its
             \* sign-in began, and how it came to be opened after that had changed
             \* (history)
  request,   \* each request: where it is, what it asks for, the session, challenge,
             \* mfaToken, factor and recovery code it uses, the rows it deletes; the
             \* password when it began, if no factor was active since, and if it goes
             \* back to a session that was over (history)
  raced,     \* factors that were disabled during their confirmation (history)
  faults     \* faults so far, at most MaxFaults

credentials == <<password, factor, codes>>
challengeVars == <<purpose, spent, attempts>>
vars == <<credentials, challengeVars, awaiting, session, request, raced, faults>>

Purposes == {"MAGIC_LINK", "OTP", "PASSWORD_RESET"}
SignIns == {"password", "oauth", "magic", "otp", "accept"}
Asks == SignIns \union {"reset", "change", "totp", "recovery", "confirm", "disable",
                        "regenerate", "switch"}
Places == {"new", "consuming", "guessed", "checked", "verifying", "completing", "opening",
           "setting", "revoking", "confirming", "disabling", "deleting", "replacing",
           "switching", "committing", "done", "unrevoked"}
Levels == {"AAL1", "AAL2"}
Lateness == {"no", "overlap", "revived"}

TypeOK ==
  /\ password \in Makers
  /\ purpose \in [Challenges -> Purposes \union {"ABSENT"}]
  /\ spent \subseteq {c \in Challenges : purpose[c] # "ABSENT"}
  /\ attempts \in [Challenges -> 0..MaxAttempts]
  /\ factor \in [Factors -> [status : {"PENDING", "ACTIVE", "DISABLED"}, secret : BOOLEAN]]
  /\ codes \subseteq Makers
  /\ awaiting \subseteq {r \in Requests : request[r].at = "done" /\ request[r].asks \in SignIns}
  /\ session \in [Makers -> [status : {"NONE", "ACTIVE", "REVOKED"}, level : Levels,
                             under : Makers, late : Lateness]]
  /\ request \in [Requests -> [at : Places, asks : Asks, own : Makers \union {None},
                               challenge : 0..MaxChallenges, token : Requests \union {None},
                               factor : Factors \union {None}, code : Makers \union {None},
                               deletes : SUBSET Makers, under : Makers, free : BOOLEAN,
                               revives : BOOLEAN]]
  /\ \A r \in Requests : request[r].deletes # {} => request[r].at = "committing"
  /\ raced \subseteq Factors
  /\ faults \in 0..MaxFaults

Active == {f \in Factors : factor[f].status = "ACTIVE"}

Fresh == [at |-> "new", asks |-> "password", own |-> None, challenge |-> 0, token |-> None,
          factor |-> None, code |-> None, deletes |-> {}, under |-> Initial, free |-> FALSE,
          revives |-> FALSE]

Session(status, level, under, late) ==
  [status |-> status, level |-> level, under |-> under, late |-> late]

\* Somebody is signed in; some factors are confirmed, and these gave recovery codes.
Init ==
  /\ password = Initial
  /\ purpose = [c \in Challenges |-> "ABSENT"] /\ spent = {}
  /\ attempts = [c \in Challenges |-> 0]
  /\ factor \in [Factors -> [status : {"PENDING", "ACTIVE"}, secret : {TRUE}]]
  /\ codes = IF Active = {} THEN {} ELSE {Initial}
  /\ awaiting = {}
  /\ session = [s \in Makers |->
       Session(IF s = Initial THEN "ACTIVE" ELSE "NONE", "AAL1", Initial, "no")]
  /\ request = [r \in Requests |-> Fresh]
  /\ raced = {} /\ faults = 0

At(r, place) == request[r].at = place
Running(r) == request[r].at \notin {"new", "done", "unrevoked"}
Goes(r, place) == request' = [request EXCEPT ![r].at = place]
GoesWith(r, state) == request' = [request EXCEPT ![r] = state]

\* Faulty variant: a transaction that ends does not release its rows.
OverHeld(r, place) ==
  [request[r] EXCEPT !.at = place, !.own = None, !.token = None, !.factor = None]

\* A request that is over keeps what it has spent; one that asked for a second factor, when
\* it began; one that opened a session, how.
Over(r, place) ==
  [Fresh EXCEPT !.at = place, !.challenge = request[r].challenge, !.code = request[r].code]
Ends(r) == GoesWith(r, Over(r, "done"))
Refused(r) == GoesWith(r, [Over(r, "done") EXCEPT !.challenge = 0])

\* A request begins: what it asks for and what it uses
Starts(r, place, asks) ==
  [Fresh EXCEPT !.at = place, !.asks = asks, !.under = password, !.free = (Active = {})]
Begins(r, state) ==
  /\ At(r, "new")
  /\ GoesWith(r, state)
  /\ UNCHANGED <<credentials, challengeVars, awaiting, session, raced, faults>>

\* JwtAuthGuard: the session of an authenticated request is active.
SignedIn == {s \in Makers : session[s].status = "ACTIVE"}

-----------------------------------------------------------------------------
(* Challenges *)

\* requestMagicLink, requestOtp, requestPasswordReset
Issue(p) ==
  /\ \E c \in Challenges :
       /\ purpose[c] = "ABSENT" /\ \A d \in 1..(c - 1) : purpose[d] # "ABSENT"
       /\ purpose' = [purpose EXCEPT ![c] = p]
  /\ UNCHANGED <<credentials, spent, attempts, awaiting, session, request, raced, faults>>

\* consumeByToken finds the challenge open.
FindByToken(r, c) ==
  \E ask \in {<<"MAGIC_LINK", "magic">>, <<"PASSWORD_RESET", "reset">>} :
    /\ purpose[c] = ask[1] /\ c \notin spent
    /\ Begins(r, [Starts(r, "consuming", ask[2]) EXCEPT !.challenge = c])

\* The most recent open code
Latest(c) ==
  /\ purpose[c] = "OTP" /\ c \notin spent
  /\ \A d \in Challenges : purpose[d] = "OTP" /\ d \notin spent => d <= c

\* consume compares the code with that one only.
FindByIdentifier(r, c) ==
  /\ Latest(c) /\ attempts[c] < MaxAttempts
  /\ \E place \in {"consuming", "guessed"} :
       Begins(r, [Starts(r, place, "otp") EXCEPT !.challenge = c])

\* The code was wrong.
CountAttempt(r) ==
  /\ At(r, "guessed")
  /\ LET c == request[r].challenge
     IN attempts' = [attempts EXCEPT ![c] = IF @ < MaxAttempts THEN @ + 1 ELSE @]
  /\ Refused(r)
  /\ UNCHANGED <<credentials, purpose, spent, awaiting, session, raced, faults>>

\* Faulty variant: the update does not look at consumed_at again.
UnspentLoose(c) == TRUE

\* where: { consumedAt: null }
Unspent(c) == c \notin spent

\* The compare-and-set of both, and where it leads
Consume(r) ==
  LET c == request[r].challenge
  IN /\ At(r, "consuming")
     /\ \/ /\ Unspent(c) /\ spent' = spent \union {c}
           /\ Goes(r, IF request[r].asks = "reset" THEN "setting" ELSE "checked")
        \/ /\ ~Unspent(c) /\ UNCHANGED spent
           /\ Refused(r)
     /\ UNCHANGED <<credentials, purpose, attempts, awaiting, session, raced, faults>>

-----------------------------------------------------------------------------
(* Signing in *)

\* login verifies the password there is; loginWithOAuth asks the provider.
Identify(r) ==
  \E asks \in {"password", "oauth"} : Begins(r, Starts(r, "checked", asks))

\* accept, of an invitation that lets the user in (Invitations has its token and its
\* checks): the session comes next, and no factor is asked for.
AcceptInvitation(r) == Begins(r, Starts(r, "opening", "accept"))

\* Faulty variant: whoever has clicked a link is believed.
StepsUpLoose(asks) == Active # {} /\ asks # "magic"

\* activeFactorCount
StepsUp(asks) == Active # {}

\* establishSession
Establish(r) ==
  /\ At(r, "checked")
  /\ \/ /\ StepsUp(request[r].asks)
        /\ awaiting' = awaiting \union {r}
        /\ GoesWith(r, [Over(r, "done") EXCEPT !.asks = request[r].asks, !.under = request[r].under])
     \/ /\ ~StepsUp(request[r].asks)
        /\ UNCHANGED awaiting /\ Goes(r, "opening")
  /\ UNCHANGED <<credentials, challengeVars, session, raced, faults>>

\* readChallenge, of a sign-in that was asked for a second factor
ReadMfaChallenge(r) ==
  \E t \in awaiting, asks \in {"totp", "recovery"} :
    Begins(r, [Starts(r, "verifying", asks) EXCEPT !.token = t, !.under = request[t].under])

\* verifyTotpForUser: a code of an active factor that has its secret
VerifyTotp(r) ==
  /\ At(r, "verifying") /\ request[r].asks = "totp"
  /\ \E f \in Active : factor[f].secret
  /\ Goes(r, "completing")
  /\ UNCHANGED <<credentials, challengeVars, awaiting, session, raced, faults>>

\* Rows a transaction has deleted and not yet committed
Locked == UNION {request[r].deletes : r \in Requests}

\* consumeRecoveryCode; it waits for the transaction that deletes the code.
UseRecoveryCode(r) ==
  /\ At(r, "verifying") /\ request[r].asks = "recovery"
  /\ \E c \in codes \ Locked :
       /\ codes' = codes \ {c}
       /\ GoesWith(r, [request[r] EXCEPT !.at = "completing", !.code = c])
  /\ UNCHANGED <<password, factor, challengeVars, awaiting, session, raced, faults>>

\* completeChallenge
CompleteChallenge(r) ==
  /\ At(r, "completing")
  /\ awaiting' = awaiting \ {request[r].token}
  /\ Goes(r, "opening")
  /\ UNCHANGED <<credentials, challengeVars, session, raced, faults>>

\* The password has changed since the sign-in, which went on, or the session it led to
\* was over by then.
Late(r) ==
  IF request[r].under = password THEN "no" ELSE IF request[r].revives THEN "revived" ELSE "overlap"

\* createSession
Open(r) ==
  /\ At(r, "opening")
  /\ session' = [session EXCEPT ![r] =
       Session("ACTIVE", IF request[r].asks \in {"totp", "recovery"} THEN "AAL2" ELSE "AAL1",
               request[r].under, Late(r))]
  /\ GoesWith(r, [Over(r, "done") EXCEPT !.asks = request[r].asks, !.free = request[r].free])
  /\ UNCHANGED <<credentials, challengeVars, awaiting, raced, faults>>

\* switchTenant with a refresh token: the row is found by its hash, and nobody asks whether
\* it or its session is over, or whose it is, ...
Switch(r) ==
  \E s \in {t \in Makers : session[t].status # "NONE"} :
    Begins(r, [Starts(r, "switching", "switch") EXCEPT
                 !.own = s, !.under = session[s].under,
                 !.revives = session[s].status = "REVOKED" \/ session[s].late = "revived"])

Revoked(S) ==
  session' = [s \in Makers |->
    IF s \in S /\ session[s].status = "ACTIVE"
    THEN [session[s] EXCEPT !.status = "REVOKED"] ELSE session[s]]

\* ... which it revokes before it opens another one.
LeaveSession(r) ==
  /\ At(r, "switching")
  /\ Revoked({request[r].own})
  /\ Goes(r, "opening")
  /\ UNCHANGED <<credentials, challengeVars, awaiting, raced, faults>>

\* logout, or revocation of one session
Logout(s) ==
  /\ s \in SignedIn /\ Revoked({s})
  /\ UNCHANGED <<credentials, challengeVars, awaiting, request, raced, faults>>

-----------------------------------------------------------------------------
(* Passwords *)

\* changePassword verifies the password there is.
Change(r) ==
  \E s \in SignedIn : Begins(r, [Starts(r, "setting", "change") EXCEPT !.own = s])

\* setPassword; the session of the user who changes it is that of the new password.
SetPassword(r) ==
  /\ At(r, "setting")
  /\ password' = r
  /\ session' = [s \in Makers |->
       IF s = request[r].own THEN [session[s] EXCEPT !.under = r] ELSE session[s]]
  /\ Goes(r, "revoking")
  /\ UNCHANGED <<factor, codes, challengeVars, awaiting, raced, faults>>

\* Faulty variant: sessions that passed a second factor are spared too.
SparedLoose(own) == {own} \union {s \in Makers : session[s].level = "AAL2"}

\* exceptSessionId
Spared(own) == {own}

\* revokeAllForUser
RevokeAll(r) ==
  /\ At(r, "revoking")
  /\ Revoked(Makers \ Spared(request[r].own))
  /\ Ends(r)
  /\ UNCHANGED <<credentials, challengeVars, awaiting, raced, faults>>

-----------------------------------------------------------------------------
(* Factors and recovery codes *)

\* confirmTotp reads the factor and finds the code right.
FindPending(r, f) ==
  \E s \in SignedIn :
    /\ factor[f].status # "ACTIVE" /\ factor[f].secret
    /\ Begins(r, [Starts(r, "confirming", "confirm") EXCEPT !.own = s, !.factor = f])

\* The rows of factors that a transaction has updated
Held == {request[r].factor : r \in {q \in Requests : At(q, "committing") \/ At(q, "deleting")}}

\* Its transaction updates the factor and deletes the codes there are, ...
Confirm(r) ==
  /\ At(r, "confirming") /\ request[r].factor \notin Held
  /\ GoesWith(r, [request[r] EXCEPT !.at = "committing", !.deletes = codes])
  /\ UNCHANGED <<credentials, challengeVars, awaiting, session, raced, faults>>

\* ... creates others and commits.
CommitConfirm(r) ==
  /\ At(r, "committing") /\ request[r].asks = "confirm"
  /\ factor' = [factor EXCEPT ![request[r].factor].status = "ACTIVE"]
  /\ codes' = (codes \ request[r].deletes) \union {r}
  /\ Ends(r)
  /\ UNCHANGED <<password, challengeVars, awaiting, session, raced, faults>>

\* regenerateRecoveryCodes, with the password if there is one
Regenerate(r) ==
  \E s \in SignedIn : Begins(r, [Starts(r, "replacing", "regenerate") EXCEPT !.own = s])

DeleteCodes(r) ==
  /\ At(r, "replacing")
  /\ GoesWith(r, [request[r] EXCEPT !.at = "committing", !.deletes = codes])
  /\ UNCHANGED <<credentials, challengeVars, awaiting, session, raced, faults>>

CommitRegenerate(r) ==
  /\ At(r, "committing") /\ request[r].asks = "regenerate"
  /\ codes' = (codes \ request[r].deletes) \union {r}
  /\ Ends(r)
  /\ UNCHANGED <<password, factor, challengeVars, awaiting, session, raced, faults>>

\* disableFactor finds the factor, ...
FindFactor(r, f) ==
  \E s \in SignedIn :
    Begins(r, [Starts(r, "disabling", "disable") EXCEPT !.own = s, !.factor = f])

\* ... updates it, counts the other active ones, ...
Disable(r) ==
  LET f == request[r].factor
  IN /\ At(r, "disabling") /\ f \notin Held
     /\ Goes(r, IF Active \ {f} = {} THEN "deleting" ELSE "committing")
     /\ UNCHANGED <<credentials, challengeVars, awaiting, session, raced, faults>>

\* ... deletes the codes if it was the last, ...
DeleteLast(r) ==
  /\ At(r, "deleting")
  /\ GoesWith(r, [request[r] EXCEPT !.at = "committing", !.deletes = codes])
  /\ UNCHANGED <<credentials, challengeVars, awaiting, session, raced, faults>>

\* status: DISABLED, secretCiphertext: null
NoSecret(f) == [factor EXCEPT ![f] = [status |-> "DISABLED", secret |-> FALSE]]

\* ... and commits.
CommitDisable(r) ==
  LET f == request[r].factor
  IN /\ At(r, "committing") /\ request[r].asks = "disable"
     /\ factor' = NoSecret(f)
     /\ codes' = codes \ request[r].deletes
     /\ request' = [q \in Requests |->
          IF q = r THEN Over(r, "done")
          ELSE [request[q] EXCEPT !.free = (@ \/ (Running(q) /\ Active \ {f} = {}))]]
     /\ raced' = raced \union {g \in {f} : \E q \in Requests :
                                             At(q, "confirming") /\ request[q].factor = f}
     /\ UNCHANGED <<password, challengeVars, awaiting, session, faults>>

-----------------------------------------------------------------------------

\* The process exits, or a transaction is aborted (deadlock, timeout).
Abort(r) ==
  /\ Running(r) /\ ~At(r, "guessed")
  /\ faults < MaxFaults /\ faults' = faults + 1
  /\ GoesWith(r, [Over(r, IF At(r, "revoking") THEN "unrevoked" ELSE "done") EXCEPT
                     !.challenge = IF At(r, "consuming") THEN 0 ELSE @])
  /\ UNCHANGED <<credentials, challengeVars, awaiting, session, raced>>

Next ==
  \/ \E p \in Purposes : Issue(p)
  \/ \E s \in Makers : Logout(s)
  \/ \E r \in Requests, c \in Challenges : FindByToken(r, c)
  \/ \E r \in Requests, c \in Challenges : FindByIdentifier(r, c)
  \/ \E r \in Requests, f \in Factors : FindPending(r, f)
  \/ \E r \in Requests, f \in Factors : FindFactor(r, f)
  \/ \E r \in Requests : CountAttempt(r)
  \/ \E r \in Requests : Consume(r)
  \/ \E r \in Requests : Identify(r)
  \/ \E r \in Requests : AcceptInvitation(r)
  \/ \E r \in Requests : Establish(r)
  \/ \E r \in Requests : ReadMfaChallenge(r)
  \/ \E r \in Requests : VerifyTotp(r)
  \/ \E r \in Requests : UseRecoveryCode(r)
  \/ \E r \in Requests : CompleteChallenge(r)
  \/ \E r \in Requests : Open(r)
  \/ \E r \in Requests : Switch(r)
  \/ \E r \in Requests : LeaveSession(r)
  \/ \E r \in Requests : Change(r)
  \/ \E r \in Requests : SetPassword(r)
  \/ \E r \in Requests : RevokeAll(r)
  \/ \E r \in Requests : Confirm(r)
  \/ \E r \in Requests : CommitConfirm(r)
  \/ \E r \in Requests : Regenerate(r)
  \/ \E r \in Requests : DeleteCodes(r)
  \/ \E r \in Requests : CommitRegenerate(r)
  \/ \E r \in Requests : Disable(r)
  \/ \E r \in Requests : DeleteLast(r)
  \/ \E r \in Requests : CommitDisable(r)
  \/ \E r \in Requests : Abort(r)

Spec == Init /\ [][Next]_vars

-----------------------------------------------------------------------------
(* A link, a one-time code and a recovery code admit one request: "two     *)
(* concurrent requests cannot both succeed".  (consumeByToken, consume,    *)
(* consumeRecoveryCode: what was looked up is compared when it is written, *)
(* while codes are replaced and deleted.)                                  *)
SpentOnce ==
  \A q, r \in Requests :
    q # r /\ {request[q].at, request[r].at} \intersect {"new", "consuming", "guessed"} = {}
      => /\ request[q].challenge # request[r].challenge \/ request[q].challenge = 0
         /\ request[q].code # request[r].code \/ request[q].code = None

(* "Consuming a reset token rotates the password and revokes every other   *)
(* session for that user" (docs/architecture/AUTHENTICATION.md): an active *)
(* session goes back to the present password, or was kept by the change    *)
(* that its user made, or a revocation is still to come or was aborted.    *)
(* The code has two more ways around it, and this is all of them: the      *)
(* sign-in (with its second step, or its switch) began before the change   *)
(* and ended after it ("overlap"), or somebody switched with the refresh   *)
(* token of a session that was over ("revived").                           *)
(* (resetPassword, changePassword, switchTenant, establishSession)         *)
SessionsEndWithPassword ==
  \A s \in SignedIn :
    \/ session[s].under = password
    \/ session[s].late \in {"overlap", "revived"}
    \/ \E r \in Requests : request[r].at \in {"revoking", "unrevoked"}

(* "A login that would otherwise be single-factor but for a user who has   *)
(* an active second factor returns an MFA challenge" (AUTHENTICATION.md):  *)
(* while a factor is active from its beginning to its end, a sign-in opens *)
(* no session without the second step.  Accepting an invitation does.      *)
(* (establishSession, InvitationService.accept)                            *)
SecondFactorAsked ==
  \A r \in Requests :
    session[r].status # "NONE" /\ request[r].asks \in SignIns => request[r].free

(* The other sign-ins do not, however factors are confirmed and disabled   *)
(* and passwords change meanwhile; and an active factor has the secret     *)
(* that the second step needs, unless it was disabled during its           *)
(* confirmation, which locks the user out although AUTHENTICATION.md:164   *)
(* says that confirming prevents just that.                                *)
(* (establishSession, confirmTotp, disableFactor)                          *)
SecondFactor ==
  /\ \A r \in Requests :
       session[r].status # "NONE" /\ request[r].asks \in SignIns \ {"accept"} => request[r].free
  /\ \A f \in Active \ raced : factor[f].secret

=============================================================================
