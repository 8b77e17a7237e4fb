--------------------------- MODULE AccountsProofs ---------------------------
(***************************************************************************)
(* Proofs about Accounts, for any number of requests, factors, challenges  *)
(* and aborted requests.                                                   *)
(***************************************************************************)
EXTENDS Accounts, TLAPS

-----------------------------------------------------------------------------
(* The shape of a request *)

RequestStates ==
  [at : Places, asks : Asks, own : Makers \union {None}, challenge : 0..MaxChallenges,
   token : Requests \union {None}, factor : Factors \union {None}, code : Makers \union {None},
   deletes : SUBSET Makers, under : Makers, free : BOOLEAN,
   revives : BOOLEAN]

\* What a request asks for, where it is, and what it has in hand there
Fits(state) ==
  /\ state.at = "checked" => state.asks \in SignIns
  /\ state.at \in {"verifying", "completing"} => state.asks \in {"totp", "recovery"}
  /\ state.at = "switching" => state.asks = "switch"
  /\ state.at = "confirming" => state.asks = "confirm"
  /\ state.at \in {"disabling", "deleting"} => state.asks = "disable"
  /\ state.at = "replacing" => state.asks = "regenerate"
  /\ state.at = "consuming" => state.asks \in {"magic", "otp", "reset"}
  /\ state.at \in {"confirming", "disabling", "deleting", "committing"}
       /\ state.asks \in {"confirm", "disable"} => state.factor \in Factors
  /\ state.at = "replacing" => state.factor = None
  /\ state.deletes # {} => state.at = "committing"
  /\ state.at \in {"new", "consuming", "guessed"} => state.code = None

Types == TypeOK /\ \A r \in Requests : Fits(request[r])

\* The conjuncts of TypeOK that say nothing of requests
OthersTyped ==
  /\ password \in Makers
  /\ purpose \in [Challenges -> Purposes \union {"ABSENT"}]
  /\ spent \subseteq {c \in Challenges : purpose[c] # "ABSENT"}
  /\ attempts \in [Challenges -> 0..MaxAttempts]
  /\ factor \in [Factors -> [status : {"PENDING", "ACTIVE", "DISABLED"}, secret : BOOLEAN]]
  /\ codes \subseteq Makers
  /\ session \in [Makers -> [status : {"NONE", "ACTIVE", "REVOKED"}, level : Levels,
                             under : Makers, late : Lateness]]
  /\ raced \subseteq Factors
  /\ faults \in 0..MaxFaults

LEMMA Typed == Types => OthersTyped /\ request \in [Requests -> RequestStates]
  BY DEF Types, TypeOK, OthersTyped, RequestStates

LEMMA MoveTyped ==
  ASSUME Types, NEW r \in Requests, ~At(r, "done"), NEW state \in RequestStates, Fits(state),
         request' = [request EXCEPT ![r] = state], OthersTyped',
         \A q \in awaiting' : q \in awaiting \/ (q = r /\ state.at = "done" /\ state.asks \in SignIns)
  PROVE  Types'
  <1>1. request \in [Requests -> RequestStates]
    BY Typed
  <1>2. request' \in [Requests -> RequestStates]
    BY <1>1
  <1>3. \A q \in Requests : Fits(request[q])'
    <2> TAKE q \in Requests
    <2>1. Fits(request[q])
      BY DEF Types
    <2>2. CASE q = r
      <3>1. request'[q] = state
        BY <1>1, <2>2
      <3> QED BY <3>1 DEF Fits
    <2>3. CASE q # r
      <3>1. request'[q] = request[q]
        BY <1>1, <2>3
      <3> QED BY <2>1, <3>1 DEF Fits
    <2> QED BY <2>2, <2>3
  <1>4. awaiting' \subseteq {q \in Requests : request'[q].at = "done" /\ request'[q].asks \in SignIns}
    <2> SUFFICES ASSUME NEW q \in awaiting'
                 PROVE  q \in Requests /\ request'[q].at = "done" /\ request'[q].asks \in SignIns
      OBVIOUS
    <2>1. CASE q \in awaiting
      <3>1. q \in Requests /\ request[q].at = "done" /\ request[q].asks \in SignIns
        BY <2>1 DEF Types, TypeOK
      <3>2. q # r
        BY <3>1 DEF At
      <3> QED BY <1>1, <3>1, <3>2
    <2>2. CASE q = r /\ state.at = "done" /\ state.asks \in SignIns
      BY <1>1, <2>2
    <2> QED BY <2>1, <2>2
  <1>5. \A q \in Requests : request'[q].deletes # {} => request'[q].at = "committing"
    BY <1>3 DEF Fits
  <1> QED BY <1>2, <1>3, <1>4, <1>5 DEF Types, TypeOK, OthersTyped, RequestStates

-----------------------------------------------------------------------------
(* The inductive invariant *)

\* Places of a request that has not got anything for its challenge
Trying == {"new", "consuming", "guessed"}

\* Makers of recovery codes that may be in use
Completed == {Initial} \union {r \in Requests : At(r, "done")}

Passed(r) == request[r].at \notin Trying

\* The sign-ins that ask for the second factor
Asked == SignIns \ {"accept"}

\* What a request has used is used up, ...
UsesSpent(r) == Passed(r) /\ request[r].challenge # 0 => request[r].challenge \in spent
Presents(r) ==
  At(r, "consuming")
    => request[r].challenge \in Challenges /\ purpose[request[r].challenge] # "ABSENT"
UsedUp(r) == request[r].code # None => request[r].code \in Completed \ codes

\* ... a factor that it confirms still has its secret, ...
HasSecret(r) ==
  request[r].at \in {"confirming", "committing"} /\ request[r].asks = "confirm"
    => factor[request[r].factor].secret \/ request[r].factor \in raced

\* ... and it knows when no factor is active, and so that it may sign in.
FreeNow(r) == Running(r) /\ Active = {} => request[r].free
FreeToOpen(r) == At(r, "opening") /\ request[r].asks \in Asked => request[r].free

\* Its own session is there, and the one that it opens is not before it is done.
OwnIsMade(r) == request[r].own # None => session[request[r].own].status # "NONE"
OpenedLast(r) == session[r].status # "NONE" => At(r, "done")
FirstFactorOnly(r) == session[r].status # "NONE" /\ request[r].asks \in Asked => request[r].free

RequestInv(r) ==
  /\ Presents(r) /\ UsesSpent(r) /\ UsedUp(r) /\ HasSecret(r) /\ FreeNow(r) /\ FreeToOpen(r)
  /\ OwnIsMade(r) /\ OpenedLast(r) /\ FirstFactorOnly(r)

CodesMade == codes \subseteq Completed

\* The row of a factor is locked by one request.
Holding(r) == request[r].at \in {"committing", "deleting"} /\ request[r].factor # None
HeldOnce ==
  \A q, r \in Requests :
    q # r /\ Holding(q) /\ Holding(r) => request[q].factor # request[r].factor

ActiveSecret == \A f \in Active \ raced : factor[f].secret

\* The request that set the present password has taken its own session along, ...
OwnFollows ==
  password \in Requests /\ At(password, "revoking") /\ request[password].own # None
    => session[request[password].own].under = password

\* ... and the other ones follow, are late, or are still to be revoked by it.
Revokes == password \in Requests /\ request[password].at \in {"revoking", "unrevoked"}
SessionsFollow == \A s \in SignedIn : session[s].under = password \/ session[s].late # "no" \/ Revokes

IInv ==
  /\ Types
  /\ \A r \in Requests : RequestInv(r)
  /\ CodesMade /\ HeldOnce /\ ActiveSecret /\ OwnFollows /\ SessionsFollow /\ SpentOnce

-----------------------------------------------------------------------------
(* What a move of a request leaves as it is *)

\* The request moves to a state that takes no factor that another one has.
RowsQuiet(r, state) ==
  /\ ~At(r, "done")
  /\ state.at = "consuming"
       => state.challenge \in Challenges /\ purpose[state.challenge] # "ABSENT"
  /\ state.at \in {"committing", "deleting"} /\ state.factor # None
       => state.factor \notin Held \/ (Holding(r) /\ state.factor = request[r].factor)
  /\ state.at \in {"confirming", "committing"} /\ state.asks = "confirm"
       => factor[state.factor].secret \/ state.factor \in raced
  /\ state.at \notin {"new", "done", "unrevoked"} /\ Active = {} => state.free
  /\ state.at = "opening" /\ state.asks \in Asked => state.free

\* Nobody else uses what it uses.
Sole(r, state) ==
  /\ state.at \notin Trying /\ state.challenge # 0
       => /\ state.challenge \in spent'
          /\ \A q \in Requests \ {r} : Passed(q) => request[q].challenge # state.challenge
  /\ state.code # None
       => /\ state.code \in Completed \ codes'
          /\ \A q \in Requests \ {r} : request[q].code # state.code

LEMMA RowsPart ==
  ASSUME IInv, NEW r \in Requests, NEW state, RowsQuiet(r, state), Sole(r, state),
         request' = [request EXCEPT ![r] = state],
         UNCHANGED <<purpose, factor, raced>>, spent \subseteq spent', codes' \subseteq codes
  PROVE  /\ \A q \in Requests : Presents(q)' /\ UsesSpent(q)' /\ UsedUp(q)' /\ HasSecret(q)'
         /\ \A q \in Requests : FreeNow(q)' /\ FreeToOpen(q)'
         /\ CodesMade' /\ HeldOnce' /\ ActiveSecret' /\ SpentOnce'
  <1>1. request \in [Requests -> RequestStates]
    BY Typed DEF IInv
  <1>2. request'[r] = state /\ \A q \in Requests \ {r} : request'[q] = request[q]
    BY <1>1
  <1>3. Completed \subseteq Completed'
    BY <1>2 DEF Completed, At, RowsQuiet
  <1>4. Active' = Active
    BY DEF Active
  <1>5. ASSUME NEW q \in Requests \ {r}
        PROVE  /\ Presents(q)' /\ UsesSpent(q)' /\ UsedUp(q)' /\ HasSecret(q)'
               /\ FreeNow(q)' /\ FreeToOpen(q)'
    <2>1. RequestInv(q) /\ request'[q] = request[q]
      BY <1>2, <1>5 DEF IInv
    <2> QED BY <1>3, <1>4, <2>1
            DEF RequestInv, Presents, UsesSpent, UsedUp, HasSecret, FreeNow, FreeToOpen, Running, Passed, At
  <1>6. UsesSpent(r)' /\ UsedUp(r)'
    BY <1>2, <1>3 DEF UsesSpent, UsedUp, Sole, Passed
  <1>7. Presents(r)' /\ HasSecret(r)' /\ FreeNow(r)' /\ FreeToOpen(r)'
    BY <1>2, <1>4 DEF Presents, HasSecret, FreeNow, FreeToOpen, Running, RowsQuiet, At
  <1>8. CodesMade' /\ ActiveSecret'
    BY <1>3, <1>4 DEF IInv, CodesMade, ActiveSecret
  <1>9. HeldOnce'
    <2>1. \A q \in Requests \ {r} : Holding(q)' => Holding(q)
      BY <1>2 DEF Holding
    <2>2. \A q \in Requests \ {r} : Holding(q) => request[q].factor \in Held
      BY DEF Holding, Held, At
    <2>3. \A q \in Requests \ {r} : Holding(r)' /\ Holding(q) => state.factor # request[q].factor
      BY <1>2, <2>2 DEF IInv, HeldOnce, Holding, RowsQuiet
    <2> SUFFICES ASSUME NEW p \in Requests, NEW q \in Requests, p # q, Holding(p)', Holding(q)'
                 PROVE  request'[p].factor # request'[q].factor
      BY DEF HeldOnce
    <2>4. CASE p = r
      BY <1>2, <2>1, <2>3, <2>4
    <2>5. CASE q = r
      BY <1>2, <2>1, <2>3, <2>5
    <2>6. CASE p # r /\ q # r
      BY <1>2, <2>1, <2>6 DEF IInv, HeldOnce
    <2> QED BY <2>4, <2>5, <2>6
  <1>10. SpentOnce'
    <2>1. \A q \in Requests \ {r} :
            request[q].at \notin Trying /\ state.at \notin Trying
              => /\ state.challenge # request[q].challenge \/ state.challenge = 0
                 /\ state.code # request[q].code \/ state.code = None
      BY DEF Sole, Passed
    <2>2. \A p, q \in Requests \ {r} :
            p # q /\ request[p].at \notin Trying /\ request[q].at \notin Trying
              => /\ request[p].challenge # request[q].challenge \/ request[p].challenge = 0
                 /\ request[p].code # request[q].code \/ request[p].code = None
      BY DEF IInv, SpentOnce, Trying
    <2> SUFFICES ASSUME NEW p \in Requests, NEW q \in Requests, p # q,
                        request'[p].at \notin Trying, request'[q].at \notin Trying
                 PROVE  /\ request'[p].challenge # request'[q].challenge \/ request'[p].challenge = 0
                        /\ request'[p].code # request'[q].code \/ request'[p].code = None
      BY DEF SpentOnce, Trying
    <2>3. CASE p = r
      BY <1>2, <2>1, <2>3
    <2>4. CASE q = r
      BY <1>2, <2>1, <2>4
    <2>5. CASE p # r /\ q # r
      BY <1>2, <2>2, <2>5
    <2> QED BY <2>3, <2>4, <2>5
  <1> QED BY <1>5, <1>6, <1>7, <1>8, <1>9, <1>10

\* It is not the one that revokes the sessions.
SessionsQuiet(r, state) ==
  /\ request[r].at \notin {"done", "unrevoked"}
  /\ state.at # "revoking" /\ (At(r, "revoking") => state.at = "unrevoked")
  /\ state.own # None => session[state.own].status # "NONE"

LEMMA SessionsPart ==
  ASSUME IInv, NEW r \in Requests, SessionsQuiet(r, request'[r]),
         \A q \in Requests \ {r} :
           /\ request'[q].at = request[q].at /\ request'[q].own = request[q].own
           /\ request'[q].asks = request[q].asks /\ (request[q].free => request'[q].free),
         UNCHANGED <<password, session>>
  PROVE  /\ \A q \in Requests : OwnIsMade(q)' /\ OpenedLast(q)' /\ FirstFactorOnly(q)'
         /\ OwnFollows' /\ SessionsFollow'
  <1>1. \A q \in Requests : OwnIsMade(q) /\ OpenedLast(q) /\ FirstFactorOnly(q)
    BY DEF IInv, RequestInv
  <1>2. session[r].status = "NONE"
    BY <1>1 DEF OpenedLast, SessionsQuiet, At
  <1>3. \A q \in Requests \ {r} : OwnIsMade(q)' /\ OpenedLast(q)' /\ FirstFactorOnly(q)'
    BY <1>1 DEF OwnIsMade, OpenedLast, FirstFactorOnly, At
  <1>4. OwnIsMade(r)' /\ OpenedLast(r)' /\ FirstFactorOnly(r)'
    BY <1>2 DEF OwnIsMade, OpenedLast, FirstFactorOnly, SessionsQuiet
  <1>5. OwnFollows'
    BY DEF IInv, OwnFollows, SessionsQuiet, At
  <1>6. Revokes => Revokes'
    BY DEF Revokes, SessionsQuiet, At
  <1>7. SessionsFollow'
    BY <1>6 DEF IInv, SessionsFollow, SignedIn
  <1> QED BY <1>3, <1>4, <1>5, <1>7

\* A move that neither takes nor leaves anything of which IInv speaks
Quiet(r, state) ==
  /\ state \in RequestStates /\ Fits(state)
  /\ RowsQuiet(r, state) /\ SessionsQuiet(r, state)
  /\ state.at \notin Trying /\ state.challenge # 0
       => Passed(r) /\ state.challenge = request[r].challenge
  /\ state.code # None => Passed(r) /\ state.code = request[r].code

\* What a request keeps it has alone.
LEMMA KeptSole ==
  ASSUME IInv, NEW r \in Requests, NEW state,
         state.at \notin Trying /\ state.challenge # 0
           => Passed(r) /\ state.challenge = request[r].challenge,
         state.code # None => Passed(r) /\ state.code = request[r].code,
         UNCHANGED <<spent, codes>>
  PROVE  Sole(r, state)
  <1>1. UsesSpent(r) /\ UsedUp(r)
    BY DEF IInv, RequestInv
  <1>2. \A q \in Requests \ {r} : ~Passed(q) => request[q].code = None
    BY DEF IInv, Types, Fits, Passed, Trying
  <1>3. \A q \in Requests \ {r} :
          Passed(q) /\ Passed(r)
            => /\ request[r].challenge # request[q].challenge \/ request[r].challenge = 0
               /\ request[r].code # request[q].code \/ request[r].code = None
    BY DEF IInv, SpentOnce, Passed, Trying
  <1> QED BY <1>1, <1>2, <1>3 DEF Sole, UsesSpent, UsedUp, Passed

LEMMA Together ==
  ASSUME Types',
         \A q \in Requests : Presents(q)' /\ UsesSpent(q)' /\ UsedUp(q)' /\ HasSecret(q)',
         \A q \in Requests : FreeNow(q)' /\ FreeToOpen(q)',
         CodesMade' /\ HeldOnce' /\ ActiveSecret' /\ SpentOnce',
         \A q \in Requests : OwnIsMade(q)' /\ OpenedLast(q)' /\ FirstFactorOnly(q)',
         OwnFollows' /\ SessionsFollow'
  PROVE  IInv'
  BY DEF IInv, RequestInv

LEMMA MovedAlone ==
  ASSUME IInv, NEW r \in Requests, NEW state, request' = [request EXCEPT ![r] = state]
  PROVE  request'[r] = state /\ \A q \in Requests \ {r} : request'[q] = request[q]
  <1>1. request \in [Requests -> RequestStates]
    BY Typed DEF IInv
  <1> QED BY <1>1

-----------------------------------------------------------------------------
(* Moves that touch the request alone, or rows of which IInv says nothing *)

\* A step whose request has moved quietly, while nothing else of IInv changed
LEMMA MoveStep ==
  ASSUME IInv, NEW r \in Requests, NEW state, Quiet(r, state),
         request' = [request EXCEPT ![r] = state],
         UNCHANGED <<password, purpose, factor, codes, spent, session, raced>>, OthersTyped',
         \A q \in awaiting' : q \in awaiting \/ (q = r /\ state.at = "done" /\ state.asks \in SignIns)
  PROVE  IInv'
  <1>1. Types'
    BY MoveTyped DEF IInv, Quiet, RowsQuiet
  <1>2. Sole(r, state)
    BY KeptSole DEF Quiet
  <1>3. request'[r] = state /\ \A q \in Requests \ {r} : request'[q] = request[q]
    BY MovedAlone
  <1>4. /\ \A q \in Requests : Presents(q)' /\ UsesSpent(q)' /\ UsedUp(q)' /\ HasSecret(q)'
        /\ \A q \in Requests : FreeNow(q)' /\ FreeToOpen(q)'
        /\ CodesMade' /\ HeldOnce' /\ ActiveSecret' /\ SpentOnce'
    BY <1>2, RowsPart DEF Quiet
  <1>5. /\ \A q \in Requests : OwnIsMade(q)' /\ OpenedLast(q)' /\ FirstFactorOnly(q)'
        /\ OwnFollows' /\ SessionsFollow'
    BY <1>3, SessionsPart DEF Quiet
  <1> QED BY <1>1, <1>4, <1>5, Together

\* What the moves of a request make of it
LEMMA FreshState ==
  /\ Fresh \in RequestStates /\ Fresh.own = None /\ Fresh.challenge = 0 /\ Fresh.code = None
  /\ Fresh.factor = None /\ Fresh.deletes = {}
  <1>1. 0 \in 0..MaxChallenges
    BY MaxChallengesNat
  <1> QED BY <1>1 DEF RequestStates, Fresh, Makers, Places, Asks, SignIns

LEMMA StartedState ==
  ASSUME Types, NEW r \in Requests, NEW place \in Places, NEW asks \in Asks
  PROVE  LET s == Starts(r, place, asks)
         IN /\ s \in RequestStates /\ s.at = place /\ s.asks = asks /\ s.own = None
            /\ s.challenge = 0 /\ s.factor = None /\ s.code = None /\ s.deletes = {}
            /\ s.free = (Active = {})
  <1>1. password \in Makers /\ (Active = {}) \in BOOLEAN /\ 0 \in 0..MaxChallenges
    BY MaxChallengesNat DEF Types, TypeOK
  <1>2. Fresh \in RequestStates /\ Fresh.own = None /\ Fresh.challenge = 0 /\ Fresh.code = None
        /\ Fresh.factor = None /\ Fresh.deletes = {}
    BY FreshState
  <1> DEFINE free == (Active = {})
  <1>3. free \in BOOLEAN
    OBVIOUS
  <1> HIDE DEF free
  <1>4. LET s == [Fresh EXCEPT !.at = place, !.asks = asks, !.under = password, !.free = free]
        IN /\ s \in RequestStates /\ s.at = place /\ s.asks = asks /\ s.own = None
           /\ s.challenge = 0 /\ s.factor = None /\ s.code = None /\ s.deletes = {} /\ s.free = free
    BY <1>1, <1>2, <1>3 DEF RequestStates
  <1> QED BY <1>4 DEF Starts, free

LEMMA MovedState ==
  ASSUME Types, NEW r \in Requests, NEW place \in Places
  PROVE  LET s == [request[r] EXCEPT !.at = place]
             o == request[r]
         IN /\ s \in RequestStates /\ s.at = place /\ s.asks = o.asks /\ s.own = o.own
            /\ s.challenge = o.challenge /\ s.code = o.code /\ s.factor = o.factor
            /\ s.deletes = o.deletes /\ s.free = o.free /\ s.token = o.token /\ s.under = o.under
  <1>1. request[r] \in RequestStates
    BY Typed
  <1> QED BY <1>1 DEF RequestStates

LEMMA OverState ==
  ASSUME Types, NEW r \in Requests, NEW place \in Places
  PROVE  LET s == Over(r, place)
             o == request[r]
         IN /\ s \in RequestStates /\ s.at = place /\ s.own = None
            /\ s.challenge = o.challenge /\ s.code = o.code /\ s.factor = None
            /\ s.deletes = {}
  <1>1. request[r] \in RequestStates
    BY Typed
  <1> DEFINE c == request[r].challenge
             d == request[r].code
  <1>2. c \in 0..MaxChallenges /\ d \in Makers \union {None}
    BY <1>1 DEF RequestStates
  <1> HIDE DEF c, d
  <1>3. LET s == [Fresh EXCEPT !.at = place, !.challenge = c, !.code = d]
        IN /\ s \in RequestStates /\ s.at = place /\ s.own = None /\ s.challenge = c
           /\ s.code = d /\ s.factor = None /\ s.deletes = {}
    BY <1>2, FreshState DEF RequestStates
  <1> QED BY <1>3 DEF Over, c, d

\* What it says of the sign-in besides
LEMMA KeptState ==
  ASSUME Types, NEW r \in Requests
  PROVE  LET o == request[r]
             s == [Over(r, "done") EXCEPT !.asks = o.asks, !.under = o.under]
             t == [Over(r, "done") EXCEPT !.asks = o.asks, !.free = o.free]
         IN /\ s \in RequestStates /\ s.at = "done" /\ s.asks = o.asks /\ s.own = None
            /\ s.challenge = o.challenge /\ s.code = o.code /\ s.factor = None /\ s.deletes = {}
            /\ t \in RequestStates /\ t.at = "done" /\ t.asks = o.asks /\ t.own = None
            /\ t.challenge = o.challenge /\ t.code = o.code /\ t.deletes = {} /\ t.free = o.free
  <1> DEFINE b == Over(r, "done")
             x == request[r].asks
             u == request[r].under
             y == request[r].free
             s == [b EXCEPT !.asks = x, !.under = u]
             t == [b EXCEPT !.asks = x, !.free = y]
  <1>1. x \in Asks /\ u \in Makers /\ y \in BOOLEAN
    BY Typed DEF RequestStates
  <1>2. /\ b \in RequestStates /\ b.at = "done" /\ b.own = None
        /\ b.challenge = request[r].challenge /\ b.code = request[r].code
        /\ b.factor = None /\ b.deletes = {}
    BY OverState DEF Places
  <1> HIDE DEF b, x, u, y
  <1>3. /\ s \in RequestStates /\ s.at = b.at /\ s.asks = x /\ s.own = b.own
        /\ s.challenge = b.challenge /\ s.code = b.code /\ s.factor = b.factor
        /\ s.deletes = b.deletes
    BY <1>1, <1>2 DEF RequestStates
  <1>4. /\ t \in RequestStates /\ t.at = b.at /\ t.asks = x /\ t.own = b.own
        /\ t.challenge = b.challenge /\ t.code = b.code /\ t.deletes = b.deletes /\ t.free = y
    BY <1>1, <1>2 DEF RequestStates
  <1> HIDE DEF s, t
  <1>5. /\ s = [Over(r, "done") EXCEPT !.asks = request[r].asks, !.under = request[r].under]
        /\ t = [Over(r, "done") EXCEPT !.asks = request[r].asks, !.free = request[r].free]
    BY DEF s, t, b, x, u, y
  <1> QED BY <1>2, <1>3, <1>4, <1>5 DEF x, y

LEMMA RefusedState ==
  ASSUME Types, NEW r \in Requests, NEW place \in Places
  PROVE  LET s == [Over(r, place) EXCEPT !.challenge = 0]
             o == request[r]
         IN /\ s \in RequestStates /\ s.at = place /\ s.own = None
            /\ s.challenge = 0 /\ s.code = o.code /\ s.factor = None /\ s.deletes = {}
  <1> DEFINE b == Over(r, place)
  <1>1. /\ b \in RequestStates /\ b.at = place /\ b.own = None
        /\ b.code = request[r].code /\ b.factor = None /\ b.deletes = {}
    BY OverState
  <1>2. 0 \in 0..MaxChallenges
    BY MaxChallengesNat
  <1> HIDE DEF b
  <1>3. LET s == [b EXCEPT !.challenge = 0]
        IN /\ s \in RequestStates /\ s.at = place /\ s.own = None
           /\ s.challenge = 0 /\ s.code = request[r].code /\ s.factor = None /\ s.deletes = {}
    BY <1>1, <1>2 DEF RequestStates
  <1> QED BY <1>3 DEF b

LEMMA BeginStep ==
  ASSUME IInv, NEW r \in Requests, NEW state \in RequestStates, Begins(r, state), Fits(state),
         state.at \notin {"new", "done", "revoking", "committing", "deleting", "unrevoked"},
         state.at = "opening" => state.asks = "accept",
         state.challenge # 0 => state.at \in Trying, state.code = None,
         state.at = "consuming"
           => state.challenge \in Challenges /\ purpose[state.challenge] # "ABSENT",
         state.own # None => session[state.own].status # "NONE",
         state.at = "confirming" => factor[state.factor].secret,
         state.free = (Active = {})
  PROVE  IInv'
  <1> USE DEF Begins, GoesWith, credentials, challengeVars, At
  <1>1. Quiet(r, state)
    BY DEF Quiet, RowsQuiet, SessionsQuiet, Asked
  <1>2. OthersTyped'
    BY Typed DEF IInv, OthersTyped
  <1> QED BY <1>1, <1>2, MoveStep

LEMMA BeginSteps ==
  ASSUME IInv, NEW r \in Requests,
         \/ \E c \in Challenges : FindByToken(r, c) \/ FindByIdentifier(r, c)
         \/ \E f \in Factors : FindPending(r, f) \/ FindFactor(r, f)
         \/ Identify(r) \/ AcceptInvitation(r) \/ ReadMfaChallenge(r) \/ Switch(r)
         \/ Change(r) \/ Regenerate(r)
  PROVE  IInv'
  <1>1. Types /\ OthersTyped /\ request \in [Requests -> RequestStates]
    BY Typed DEF IInv
  <1>2. \A s \in SignedIn : s \in Makers /\ session[s].status # "NONE"
    BY DEF SignedIn
  <1>3. ASSUME NEW c \in Challenges, FindByToken(r, c)
        PROVE  IInv'
    <2>1. PICK asks \in {"magic", "reset"} :
            Begins(r, [Starts(r, "consuming", asks) EXCEPT !.challenge = c])
      BY <1>3 DEF FindByToken
    <2> DEFINE s == [Starts(r, "consuming", asks) EXCEPT !.challenge = c]
    <2>2. asks \in Asks /\ "consuming" \in Places
      BY DEF Asks, SignIns, Places
    <2>3. s \in RequestStates /\ Fits(s) /\ s.at = "consuming" /\ s.code = None /\ s.own = None
          /\ s.challenge = c /\ s.free = (Active = {})
      BY <1>1, <2>2, StartedState DEF RequestStates, Fits, Challenges
    <2>4. purpose[c] # "ABSENT"
      BY <1>3 DEF FindByToken
    <2> QED BY <2>1, <2>3, <2>4, BeginStep DEF Trying
  <1>4. ASSUME NEW c \in Challenges, FindByIdentifier(r, c)
        PROVE  IInv'
    <2>1. PICK place \in {"consuming", "guessed"} :
            Begins(r, [Starts(r, place, "otp") EXCEPT !.challenge = c])
      BY <1>4 DEF FindByIdentifier
    <2> DEFINE s == [Starts(r, place, "otp") EXCEPT !.challenge = c]
    <2>2. "otp" \in Asks /\ place \in Places
      BY DEF Asks, SignIns, Places
    <2>3. s \in RequestStates /\ Fits(s) /\ s.at = place /\ s.code = None /\ s.own = None
          /\ s.challenge = c /\ s.free = (Active = {})
      BY <1>1, <2>2, StartedState DEF RequestStates, Fits, Challenges
    <2>4. purpose[c] # "ABSENT"
      BY <1>4 DEF FindByIdentifier, Latest
    <2> QED BY <2>1, <2>3, <2>4, BeginStep DEF Trying
  <1>5. ASSUME NEW f \in Factors, FindPending(r, f)
        PROVE  IInv'
    <2>1. PICK o \in SignedIn :
            Begins(r, [Starts(r, "confirming", "confirm") EXCEPT !.own = o, !.factor = f])
      BY <1>5 DEF FindPending
    <2> DEFINE s == [Starts(r, "confirming", "confirm") EXCEPT !.own = o, !.factor = f]
    <2>2. "confirm" \in Asks /\ "confirming" \in Places
      BY DEF Asks, Places
    <2>3. s \in RequestStates /\ Fits(s) /\ s.at = "confirming" /\ s.code = None /\ s.own = o
          /\ s.challenge = 0 /\ s.factor = f /\ s.free = (Active = {})
      <3> DEFINE b == Starts(r, "confirming", "confirm")
      <3>1. b \in RequestStates /\ b.at = "confirming" /\ b.asks = "confirm" /\ b.own = None
            /\ b.challenge = 0 /\ b.code = None /\ b.deletes = {} /\ b.free = (Active = {})
        BY <1>1, <2>2, StartedState
      <3>2. s = [b EXCEPT !.own = o, !.factor = f]
        OBVIOUS
      <3> HIDE DEF b, s
      <3> QED BY <1>1, <1>2, <2>2, <3>1, <3>2 DEF RequestStates, Fits
    <2>4. factor[f].secret
      BY <1>5 DEF FindPending
    <2> QED BY <1>2, <2>1, <2>3, <2>4, BeginStep
  <1>6. ASSUME NEW f \in Factors, FindFactor(r, f)
        PROVE  IInv'
    <2>1. PICK o \in SignedIn :
            Begins(r, [Starts(r, "disabling", "disable") EXCEPT !.own = o, !.factor = f])
      BY <1>6 DEF FindFactor
    <2> DEFINE s == [Starts(r, "disabling", "disable") EXCEPT !.own = o, !.factor = f]
    <2>2. "disable" \in Asks /\ "disabling" \in Places
      BY DEF Asks, Places
    <2>3. s \in RequestStates /\ Fits(s) /\ s.at = "disabling" /\ s.code = None /\ s.own = o
          /\ s.challenge = 0 /\ s.free = (Active = {})
      <3> DEFINE b == Starts(r, "disabling", "disable")
      <3>1. b \in RequestStates /\ b.at = "disabling" /\ b.asks = "disable" /\ b.own = None
            /\ b.challenge = 0 /\ b.code = None /\ b.deletes = {} /\ b.free = (Active = {})
        BY <1>1, <2>2, StartedState
      <3>2. s = [b EXCEPT !.own = o, !.factor = f]
        OBVIOUS
      <3> HIDE DEF b, s
      <3> QED BY <1>1, <1>2, <2>2, <3>1, <3>2 DEF RequestStates, Fits
    <2> QED BY <1>2, <2>1, <2>3, BeginStep
  <1>7. CASE Identify(r)
    <2>1. PICK asks \in {"password", "oauth"} : Begins(r, Starts(r, "checked", asks))
      BY <1>7 DEF Identify
    <2>2. asks \in Asks /\ asks \in SignIns /\ "checked" \in Places
      BY DEF Asks, SignIns, Places
    <2> DEFINE s == Starts(r, "checked", asks)
    <2>3. s \in RequestStates /\ Fits(s) /\ s.at = "checked" /\ s.code = None /\ s.own = None
          /\ s.challenge = 0 /\ s.free = (Active = {})
      BY <1>1, <2>2, StartedState DEF Fits
    <2> QED BY <2>1, <2>3, BeginStep
  <1>8. CASE ReadMfaChallenge(r)
    <2>1. PICK t \in awaiting, asks \in {"totp", "recovery"} :
            Begins(r, [Starts(r, "verifying", asks) EXCEPT !.token = t, !.under = request[t].under])
      BY <1>8 DEF ReadMfaChallenge
    <2>2. asks \in Asks /\ "verifying" \in Places
      BY DEF Asks, Places
    <2>3. t \in Requests /\ request[t].under \in Makers
      <3>1. t \in Requests
        BY <1>1 DEF Types, TypeOK
      <3> QED BY <1>1, <3>1 DEF RequestStates
    <2> DEFINE s == [Starts(r, "verifying", asks) EXCEPT !.token = t, !.under = request[t].under]
    <2>4. s \in RequestStates /\ Fits(s) /\ s.at = "verifying" /\ s.code = None /\ s.own = None
          /\ s.challenge = 0 /\ s.free = (Active = {})
      <3> DEFINE b == Starts(r, "verifying", asks)
      <3>1. b \in RequestStates /\ b.at = "verifying" /\ b.asks = asks /\ b.own = None
            /\ b.challenge = 0 /\ b.code = None /\ b.deletes = {} /\ b.free = (Active = {})
        BY <1>1, <2>2, StartedState
      <3>2. s = [b EXCEPT !.token = t, !.under = request[t].under]
        OBVIOUS
      <3> HIDE DEF b, s
      <3> QED BY <1>1, <2>2, <2>3, <3>1, <3>2 DEF RequestStates, Fits
    <2> QED BY <2>1, <2>4, BeginStep
  <1>9. CASE Switch(r)
    <2>1. PICK o \in Makers, revives \in BOOLEAN :
            /\ session[o].status # "NONE"
            /\ Begins(r, [Starts(r, "switching", "switch") EXCEPT
                             !.own = o, !.under = session[o].under, !.revives = revives])
      BY <1>9 DEF Switch
    <2>2. "switch" \in Asks /\ "switching" \in Places /\ session[o].under \in Makers
      BY <1>1 DEF Asks, Places, OthersTyped
    <2> DEFINE s == [Starts(r, "switching", "switch") EXCEPT
                       !.own = o, !.under = session[o].under, !.revives = revives]
    <2>3. s \in RequestStates /\ Fits(s) /\ s.at = "switching" /\ s.code = None /\ s.own = o
          /\ s.challenge = 0 /\ s.free = (Active = {})
      <3> DEFINE b == Starts(r, "switching", "switch")
      <3>1. b \in RequestStates /\ b.at = "switching" /\ b.asks = "switch" /\ b.own = None
            /\ b.challenge = 0 /\ b.code = None /\ b.deletes = {} /\ b.free = (Active = {})
        BY <1>1, <2>2, StartedState
      <3>2. s = [b EXCEPT !.own = o, !.under = session[o].under, !.revives = revives]
        OBVIOUS
      <3> HIDE DEF b, s
      <3> QED BY <1>1, <2>2, <3>1, <3>2 DEF RequestStates, Fits
    <2> QED BY <2>1, <2>3, BeginStep
  <1>10. CASE Change(r)
    <2>1. PICK o \in SignedIn : Begins(r, [Starts(r, "setting", "change") EXCEPT !.own = o])
      BY <1>10 DEF Change
    <2>2. "change" \in Asks /\ "setting" \in Places
      BY DEF Asks, Places
    <2> DEFINE s == [Starts(r, "setting", "change") EXCEPT !.own = o]
    <2>3. s \in RequestStates /\ Fits(s) /\ s.at = "setting" /\ s.code = None /\ s.own = o
          /\ s.challenge = 0 /\ s.free = (Active = {})
      BY <1>1, <1>2, <2>2, StartedState DEF RequestStates, Fits
    <2> QED BY <1>2, <2>1, <2>3, BeginStep
  <1>11. CASE Regenerate(r)
    <2>1. PICK o \in SignedIn : Begins(r, [Starts(r, "replacing", "regenerate") EXCEPT !.own = o])
      BY <1>11 DEF Regenerate
    <2>2. "regenerate" \in Asks /\ "replacing" \in Places
      BY DEF Asks, Places
    <2> DEFINE s == [Starts(r, "replacing", "regenerate") EXCEPT !.own = o]
    <2>3. s \in RequestStates /\ Fits(s) /\ s.at = "replacing" /\ s.code = None /\ s.own = o
          /\ s.challenge = 0 /\ s.free = (Active = {})
      BY <1>1, <1>2, <2>2, StartedState DEF RequestStates, Fits
    <2> QED BY <1>2, <2>1, <2>3, BeginStep
  <1>12. CASE AcceptInvitation(r)
    <2>1. "accept" \in Asks /\ "opening" \in Places
      BY DEF Asks, SignIns, Places
    <2> DEFINE s == Starts(r, "opening", "accept")
    <2>2. s \in RequestStates /\ Fits(s) /\ s.at = "opening" /\ s.asks = "accept" /\ s.code = None
          /\ s.own = None /\ s.challenge = 0 /\ s.free = (Active = {})
      BY <1>1, <2>1, StartedState DEF Fits
    <2>3. Begins(r, s)
      BY <1>12 DEF AcceptInvitation
    <2> QED BY <2>2, <2>3, BeginStep
  <1> QED BY <1>3, <1>4, <1>5, <1>6, <1>7, <1>8, <1>9, <1>10, <1>11, <1>12

\* A request that is over has let go of everything.
LEMMA EndQuiet ==
  ASSUME IInv, NEW r \in Requests, request[r].at \notin {"new", "done", "unrevoked"},
         NEW place \in {"done", "unrevoked"}, At(r, "revoking") => place = "unrevoked"
  PROVE  /\ Passed(r) => Quiet(r, Over(r, place))
         /\ Quiet(r, [Over(r, place) EXCEPT !.challenge = 0])
  <1> DEFINE o == Over(r, place)
             z == [Over(r, place) EXCEPT !.challenge = 0]
  <1>1. Types /\ place \in Places /\ Fits(request[r]) /\ FreeNow(r)
    BY DEF IInv, Places, Types, RequestInv
  <1>2. /\ o \in RequestStates /\ o.at = place /\ o.own = None /\ o.challenge = request[r].challenge
        /\ o.code = request[r].code /\ o.deletes = {}
    BY <1>1, OverState
  <1>3. /\ z \in RequestStates /\ z.at = place /\ z.own = None /\ z.challenge = 0
        /\ z.code = request[r].code /\ z.deletes = {}
    BY <1>1, RefusedState
  <1> HIDE DEF o, z
  <1>4. Passed(r) => Quiet(r, o)
    BY <1>1, <1>2 DEF Quiet, RowsQuiet, SessionsQuiet, Fits, Passed, Trying, FreeNow, Running, At
  <1>5. Quiet(r, z)
    BY <1>1, <1>3 DEF Quiet, RowsQuiet, SessionsQuiet, Fits, Passed, Trying, FreeNow, Running, At
  <1> QED BY <1>4, <1>5 DEF o, z

\* A request that only goes on, from one place past the checks to another
LEMMA GoQuiet ==
  ASSUME IInv, NEW r \in Requests, Passed(r), NEW place \in Places \ Trying,
         request[r].at \notin {"done", "revoking", "unrevoked"}, request[r].deletes = {},
         place \notin {"checked", "confirming", "disabling", "revoking"},
         place \in {"verifying", "completing"} => request[r].asks \in {"totp", "recovery"},
         place = "switching" => request[r].asks = "switch",
         place = "deleting" => request[r].asks = "disable" /\ request[r].factor \in Factors,
         place # "replacing",
         place = "committing" => request[r].asks # "confirm"
                                 /\ (request[r].asks = "disable" => request[r].factor \in Factors),
         place \in {"committing", "deleting"} /\ request[r].factor # None => request[r].factor \notin Held,
         place = "opening" /\ request[r].asks \in Asked => request[r].free
  PROVE  Quiet(r, [request[r] EXCEPT !.at = place])
  <1> DEFINE s == [request[r] EXCEPT !.at = place]
  <1>1. Types /\ FreeNow(r) /\ OwnIsMade(r)
    BY DEF IInv, RequestInv
  <1>2. /\ s \in RequestStates /\ s.at = place /\ s.asks = request[r].asks /\ s.own = request[r].own
        /\ s.challenge = request[r].challenge /\ s.code = request[r].code
        /\ s.factor = request[r].factor /\ s.deletes = request[r].deletes /\ s.free = request[r].free
    BY <1>1, MovedState
  <1> HIDE DEF s
  <1>3. Fits(s)
    BY <1>2 DEF Fits, Trying
  <1>4. Quiet(r, s)
    BY <1>1, <1>2, <1>3 DEF Quiet, RowsQuiet, SessionsQuiet, Passed, Trying, FreeNow, Running, OwnIsMade, At
  <1> QED BY <1>4 DEF s

\* The same, with codes to delete
LEMMA DeleteQuiet ==
  ASSUME IInv, NEW r \in Requests, Passed(r),
         request[r].at \notin {"done", "revoking", "unrevoked"},
         request[r].asks \in {"disable", "confirm"} => request[r].factor \in Factors,
         request[r].asks = "confirm" => At(r, "confirming"),
         request[r].factor # None => request[r].factor \notin Held \/ Holding(r)
  PROVE  Quiet(r, [request[r] EXCEPT !.at = "committing", !.deletes = codes])
  <1> DEFINE m == [request[r] EXCEPT !.at = "committing"]
             s == [request[r] EXCEPT !.at = "committing", !.deletes = codes]
  <1>1. Types /\ FreeNow(r) /\ OwnIsMade(r) /\ HasSecret(r) /\ codes \in SUBSET Makers
    BY Typed DEF IInv, RequestInv, OthersTyped
  <1>2. /\ m \in RequestStates /\ m.at = "committing" /\ m.asks = request[r].asks
        /\ m.own = request[r].own /\ m.challenge = request[r].challenge /\ m.code = request[r].code
        /\ m.factor = request[r].factor /\ m.free = request[r].free
    <2>1. "committing" \in Places
      BY DEF Places
    <2> QED BY <1>1, <2>1, MovedState
  <1>3. s = [m EXCEPT !.deletes = codes]
    OBVIOUS
  <1> HIDE DEF m, s
  <1>4. /\ s \in RequestStates /\ s.at = "committing" /\ s.asks = request[r].asks
        /\ s.own = request[r].own /\ s.challenge = request[r].challenge /\ s.code = request[r].code
        /\ s.factor = request[r].factor /\ s.free = request[r].free
    BY <1>1, <1>2, <1>3 DEF RequestStates
  <1>5. Fits(s)
    BY <1>4 DEF Fits
  <1>6. Quiet(r, s)
    BY <1>1, <1>4, <1>5 DEF Quiet, RowsQuiet, SessionsQuiet, Passed, Trying, FreeNow, Running, OwnIsMade,
                                 HasSecret, At
  <1> QED BY <1>6 DEF s

LEMMA GoSteps ==
  ASSUME IInv, NEW r \in Requests,
         \/ CountAttempt(r) \/ VerifyTotp(r) \/ CompleteChallenge(r) \/ Confirm(r)
         \/ DeleteCodes(r) \/ Disable(r) \/ DeleteLast(r) \/ Abort(r)
  PROVE  IInv'
  <1>1. OthersTyped /\ Fits(request[r]) /\ request[r] \in RequestStates
    BY Typed DEF IInv, Types
  <1> USE DEF credentials, challengeVars
  <1>2. CASE CountAttempt(r)
    <2> DEFINE s == [Over(r, "done") EXCEPT !.challenge = 0]
    <2>1. At(r, "guessed") /\ request' = [request EXCEPT ![r] = s]
      BY <1>2 DEF CountAttempt, Refused, GoesWith
    <2>2. Quiet(r, s)
      BY <2>1, EndQuiet DEF At
    <2>3. attempts' \in [Challenges -> 0..MaxAttempts]
      <3> DEFINE c == request[r].challenge
      <3>1. attempts' = [attempts EXCEPT ![c] = IF @ < MaxAttempts THEN @ + 1 ELSE @]
        BY <1>2 DEF CountAttempt
      <3>2. \A n \in 0..MaxAttempts : (IF n < MaxAttempts THEN n + 1 ELSE n) \in 0..MaxAttempts
        BY MaxAttemptsPositive
      <3>3. attempts \in [Challenges -> 0..MaxAttempts]
        BY <1>1 DEF OthersTyped
      <3> HIDE DEF c
      <3>4. CASE c \in Challenges
        <4> DEFINE n == IF attempts[c] < MaxAttempts THEN attempts[c] + 1 ELSE attempts[c]
        <4>1. n \in 0..MaxAttempts
          BY <3>2, <3>3, <3>4
        <4>2. attempts' = [attempts EXCEPT ![c] = n]
          BY <3>1
        <4> HIDE DEF n
        <4> QED BY <3>3, <4>1, <4>2
      <3>5. CASE c \notin Challenges
        BY <3>1, <3>3, <3>5
      <3> QED BY <3>4, <3>5
    <2>4. OthersTyped'
      BY <1>1, <1>2, <2>3 DEF CountAttempt, OthersTyped
    <2> HIDE DEF s
    <2> QED BY <1>2, <2>1, <2>2, <2>4, MoveStep DEF CountAttempt
  <1>3. CASE VerifyTotp(r)
    <2>1. request[r].deletes = {} /\ Passed(r) /\ request[r].asks = "totp"
      BY <1>1, <1>3 DEF VerifyTotp, Fits, Passed, Trying, At
    <2>2. Quiet(r, [request[r] EXCEPT !.at = "completing"])
      BY <1>3, <2>1, GoQuiet DEF VerifyTotp, Places, Trying, At
    <2>3. OthersTyped'
      BY <1>1, <1>3 DEF VerifyTotp, OthersTyped
    <2>4. request' = [request EXCEPT ![r] = [request[r] EXCEPT !.at = "completing"]]
      BY <1>3 DEF VerifyTotp, Goes
    <2> QED BY <1>3, <2>2, <2>3, <2>4, MoveStep DEF VerifyTotp
  <1>4. CASE CompleteChallenge(r)
    <2>1. request[r].deletes = {} /\ Passed(r) /\ request[r].asks \notin SignIns
      BY <1>1, <1>4 DEF CompleteChallenge, Fits, Passed, Trying, At, SignIns
    <2>2. Quiet(r, [request[r] EXCEPT !.at = "opening"])
      BY <1>4, <2>1, GoQuiet DEF CompleteChallenge, Places, Trying, Asked, At
    <2>3. OthersTyped'
      BY <1>1, <1>4 DEF CompleteChallenge, OthersTyped
    <2>4. request' = [request EXCEPT ![r] = [request[r] EXCEPT !.at = "opening"]]
      BY <1>4 DEF CompleteChallenge, Goes
    <2> QED BY <1>4, <2>2, <2>3, <2>4, MoveStep DEF CompleteChallenge
  <1>5. CASE Confirm(r) \/ DeleteCodes(r) \/ DeleteLast(r)
    <2>1. /\ request' = [request EXCEPT ![r] = [request[r] EXCEPT !.at = "committing", !.deletes = codes]]
          /\ UNCHANGED <<credentials, challengeVars, awaiting, session, raced, faults>>
      BY <1>5 DEF Confirm, DeleteCodes, DeleteLast, GoesWith
    <2>2. Quiet(r, [request[r] EXCEPT !.at = "committing", !.deletes = codes])
      <3>1. CASE Confirm(r)
        BY <1>1, <3>1, DeleteQuiet DEF Confirm, Fits, Passed, Trying, At
      <3>2. CASE DeleteCodes(r)
        BY <1>1, <3>2, DeleteQuiet DEF DeleteCodes, Fits, Passed, Trying, At
      <3>3. CASE DeleteLast(r)
        BY <1>1, <3>3, DeleteQuiet DEF DeleteLast, Fits, Passed, Trying, At, Holding
      <3> QED BY <1>5, <3>1, <3>2, <3>3
    <2>3. OthersTyped'
      BY <1>1, <2>1 DEF OthersTyped
    <2> QED BY <2>1, <2>2, <2>3, MoveStep
  <1>6. CASE Disable(r)
    <2> DEFINE place == IF Active \ {request[r].factor} = {} THEN "deleting" ELSE "committing"
    <2>1. /\ request' = [request EXCEPT ![r] = [request[r] EXCEPT !.at = place]]
          /\ UNCHANGED <<credentials, challengeVars, awaiting, session, raced, faults>>
          /\ At(r, "disabling") /\ request[r].factor \notin Held
      BY <1>6 DEF Disable, Goes
    <2>2. place \in {"deleting", "committing"}
      OBVIOUS
    <2> HIDE DEF place
    <2>3. Quiet(r, [request[r] EXCEPT !.at = place])
      BY <1>1, <2>1, <2>2, GoQuiet DEF Fits, Passed, Trying, At, Places
    <2>4. OthersTyped'
      BY <1>1, <2>1 DEF OthersTyped
    <2> QED BY <2>1, <2>3, <2>4, MoveStep
  <1>7. CASE Abort(r)
    <2> DEFINE place == IF At(r, "revoking") THEN "unrevoked" ELSE "done"
               z == [Over(r, place) EXCEPT !.challenge = 0]
    <2>1. /\ request[r].at \notin {"new", "guessed", "done", "unrevoked"}
          /\ faults' \in 0..MaxFaults
          /\ UNCHANGED <<credentials, challengeVars, awaiting, session, raced>>
      BY <1>1, <1>7, MaxFaultsNat DEF Abort, OthersTyped, Running, At
    <2>2. place \in {"done", "unrevoked"} /\ (At(r, "revoking") => place = "unrevoked")
      OBVIOUS
    <2>3. OthersTyped'
      BY <1>1, <2>1 DEF OthersTyped
    <2>4. CASE At(r, "consuming")
      <3>1. request' = [request EXCEPT ![r] = z]
        BY <1>7, <2>4 DEF Abort, GoesWith
      <3>2. Quiet(r, z)
        BY <2>1, <2>2, EndQuiet
      <3> HIDE DEF z
      <3> QED BY <2>1, <2>3, <3>1, <3>2, MoveStep
    <2>5. CASE ~At(r, "consuming")
      <3>1. request' = [request EXCEPT ![r] = Over(r, place)]
        <4>1. request' = [request EXCEPT ![r] = [Over(r, place) EXCEPT !.challenge = Over(r, place).challenge]]
          BY <1>7, <2>5 DEF Abort, GoesWith
        <4>2. Over(r, place) \in RequestStates
          BY <2>2, OverState DEF IInv, Places
        <4>3. \A s \in RequestStates : [s EXCEPT !.challenge = s.challenge] = s
          BY DEF RequestStates
        <4> QED BY <4>1, <4>2, <4>3
      <3>2. Quiet(r, Over(r, place))
        BY <2>1, <2>2, <2>5, EndQuiet DEF Passed, Trying, At
      <3> QED BY <2>1, <2>3, <3>1, <3>2, MoveStep
    <2> QED BY <2>4, <2>5
  <1> QED BY <1>2, <1>3, <1>4, <1>5, <1>6, <1>7

LEMMA EstablishStep ==
  ASSUME IInv, NEW r \in Requests, Establish(r)
  PROVE  IInv'
  <1>1. Types /\ OthersTyped /\ Fits(request[r]) /\ FreeNow(r)
    BY Typed DEF IInv, Types, RequestInv
  <1>2. OthersTyped'
    BY <1>1 DEF Establish, OthersTyped, credentials, challengeVars
  <1>3. /\ Passed(r) /\ At(r, "checked") /\ request[r].asks \in SignIns
        /\ request[r].deletes = {}
    BY <1>1 DEF Establish, Passed, Trying, At, Fits
  <1>4. CASE StepsUp(request[r].asks)
    <2> DEFINE s == [Over(r, "done") EXCEPT !.asks = request[r].asks, !.under = request[r].under]
    <2>1. request' = [request EXCEPT ![r] = s] /\ awaiting' = awaiting \union {r}
      BY <1>4 DEF Establish, GoesWith
    <2>2. /\ s \in RequestStates /\ s.at = "done" /\ s.asks = request[r].asks /\ s.own = None
          /\ s.challenge = request[r].challenge /\ s.code = request[r].code /\ s.factor = None
          /\ s.deletes = {}
      BY <1>1, KeptState
    <2> HIDE DEF s
    <2>3. Quiet(r, s)
      BY <1>3, <2>2 DEF Quiet, RowsQuiet, SessionsQuiet, Fits, At
    <2> QED BY <1>2, <1>3, <2>1, <2>2, <2>3, MoveStep DEF Establish, credentials, challengeVars
  <1>5. CASE ~StepsUp(request[r].asks)
    <2>1. request' = [request EXCEPT ![r] = [request[r] EXCEPT !.at = "opening"]] /\ awaiting' = awaiting
      BY <1>5 DEF Establish, Goes
    <2>2. Quiet(r, [request[r] EXCEPT !.at = "opening"])
      BY <1>1, <1>3, <1>5, GoQuiet DEF At, FreeNow, Running, StepsUp, Places, Trying
    <2> QED BY <1>2, <2>1, <2>2, MoveStep DEF Establish, credentials, challengeVars
  <1> QED BY <1>4, <1>5

-----------------------------------------------------------------------------
(* Challenges and codes that are used *)

LEMMA ConsumeStep ==
  ASSUME IInv, NEW r \in Requests, Consume(r)
  PROVE  IInv'
  <1>1. Types /\ OthersTyped /\ Fits(request[r]) /\ RequestInv(r)
    BY Typed DEF IInv, Types
  <1> DEFINE c == request[r].challenge
             place == IF request[r].asks = "reset" THEN "setting" ELSE "checked"
             s == [request[r] EXCEPT !.at = place]
  <1>2. At(r, "consuming") /\ c \in Challenges /\ purpose[c] # "ABSENT" /\ ~Passed(r)
    BY <1>1 DEF Consume, RequestInv, Presents, Passed, Trying, At
  <1>3. CASE Unspent(c) /\ spent' = spent \union {c} /\ Goes(r, place)
    <2>1. request' = [request EXCEPT ![r] = s] /\ c \notin spent
      BY <1>3 DEF Goes, Unspent
    <2>2. place \in Places /\ place \in {"setting", "checked"}
          /\ (place = "checked" => request[r].asks \in SignIns)
      BY <1>1, <1>2 DEF Places, Fits, At, SignIns
    <2> HIDE DEF place
    <2>3. /\ s \in RequestStates /\ s.at = place /\ s.asks = request[r].asks /\ s.own = request[r].own
          /\ s.challenge = c /\ s.code = request[r].code /\ s.deletes = request[r].deletes
          /\ s.free = request[r].free
      BY <1>1, <2>2, MovedState
    <2>4. s.code = None /\ s.deletes = {}
      BY <1>1, <1>2, <2>3 DEF Fits, At
    <2> HIDE DEF s
    <2>5. Fits(s) /\ RowsQuiet(r, s) /\ SessionsQuiet(r, s)
      BY <1>1, <1>2, <2>2, <2>3, <2>4
         DEF Fits, RowsQuiet, SessionsQuiet, RequestInv, FreeNow, Running, OwnIsMade, At
    <2>6. Sole(r, s)
      <3>1. \A q \in Requests \ {r} : Passed(q) => request[q].challenge # c
        BY <1>2, <2>1 DEF IInv, RequestInv, UsesSpent, Challenges
      <3>2. s.challenge = c /\ s.code = None /\ c \in spent'
        BY <1>3, <2>3, <2>4
      <3> QED BY <3>1, <3>2 DEF Sole
    <2>7. OthersTyped'
      BY <1>1, <1>2, <1>3 DEF Consume, OthersTyped, credentials
    <2>8. Types'
      BY <1>2, <2>1, <2>3, <2>5, <2>7, <1>1, MoveTyped DEF Consume, At
    <2>9. UNCHANGED <<purpose, password, factor, codes, session, raced>> /\ spent \subseteq spent'
      BY <1>3 DEF Consume, credentials
    <2>10. /\ \A q \in Requests : Presents(q)' /\ UsesSpent(q)' /\ UsedUp(q)' /\ HasSecret(q)'
           /\ \A q \in Requests : FreeNow(q)' /\ FreeToOpen(q)'
           /\ CodesMade' /\ HeldOnce' /\ ActiveSecret' /\ SpentOnce'
      BY <2>1, <2>5, <2>6, <2>9, RowsPart
    <2>11. /\ \A q \in Requests : OwnIsMade(q)' /\ OpenedLast(q)' /\ FirstFactorOnly(q)'
           /\ OwnFollows' /\ SessionsFollow'
      BY <2>1, <2>5, <2>9, MovedAlone, SessionsPart
    <2> QED BY <2>8, <2>10, <2>11, Together
  <1>4. CASE UNCHANGED spent /\ Refused(r)
    <2>1. request' = [request EXCEPT ![r] = [Over(r, "done") EXCEPT !.challenge = 0]]
      BY <1>4 DEF Refused, GoesWith
    <2>2. Quiet(r, [Over(r, "done") EXCEPT !.challenge = 0])
      BY <1>2, EndQuiet DEF At
    <2>3. OthersTyped'
      BY <1>1, <1>4 DEF Consume, OthersTyped, credentials
    <2> QED BY <1>4, <2>1, <2>2, <2>3, MoveStep DEF Consume, credentials
  <1> QED BY <1>3, <1>4 DEF Consume

LEMMA UseRecoveryCodeStep ==
  ASSUME IInv, NEW r \in Requests, UseRecoveryCode(r)
  PROVE  IInv'
  <1>1. Types /\ OthersTyped /\ Fits(request[r]) /\ RequestInv(r) /\ request[r] \in RequestStates
    BY Typed DEF IInv, Types
  <1>2. PICK c \in codes :
          /\ codes' = codes \ {c}
          /\ request' = [request EXCEPT ![r] = [request[r] EXCEPT !.at = "completing", !.code = c]]
    BY DEF UseRecoveryCode, GoesWith
  <1> DEFINE s == [request[r] EXCEPT !.at = "completing", !.code = c]
  <1>3. At(r, "verifying") /\ Passed(r) /\ request[r].asks = "recovery" /\ request[r].deletes = {}
    BY <1>1 DEF UseRecoveryCode, Passed, Trying, At, Fits
  <1>4. c \in Makers /\ c \in Completed
    BY <1>1 DEF IInv, CodesMade, OthersTyped
  <1>5. /\ s \in RequestStates /\ s.at = "completing" /\ s.asks = "recovery" /\ s.own = request[r].own
        /\ s.challenge = request[r].challenge /\ s.code = c /\ s.deletes = {}
        /\ s.free = request[r].free
    BY <1>1, <1>3, <1>4 DEF RequestStates, Places
  <1>6. request' = [request EXCEPT ![r] = s]
    BY <1>2
  <1> HIDE DEF s
  <1>7. Fits(s) /\ RowsQuiet(r, s) /\ SessionsQuiet(r, s)
    <2>1. Fits(s)
      BY <1>5 DEF Fits
    <2>2. RowsQuiet(r, s)
      BY <1>1, <1>3, <1>5 DEF RowsQuiet, RequestInv, FreeNow, Running, At
    <2>3. SessionsQuiet(r, s)
      BY <1>1, <1>3, <1>5 DEF SessionsQuiet, RequestInv, OwnIsMade, At
    <2> QED BY <2>1, <2>2, <2>3
  <1>8. Sole(r, s)
    <2>1. \A q \in Requests \ {r} : request[q].code # c
      BY <1>4, NamesDiffer DEF IInv, RequestInv, UsedUp, Makers
    <2>2. \A q \in Requests \ {r} :
            Passed(q) => request[q].challenge # request[r].challenge \/ request[r].challenge = 0
      BY <1>3 DEF IInv, SpentOnce, Passed, Trying
    <2> QED BY <1>1, <1>2, <1>3, <1>4, <1>5, <2>1, <2>2
            DEF Sole, RequestInv, UsesSpent, UseRecoveryCode, challengeVars
  <1>9. UNCHANGED <<purpose, spent, password, factor, session, raced, awaiting>>
    BY DEF UseRecoveryCode, challengeVars
  <1>10. Types'
    <2>1. OthersTyped'
      BY <1>1, <1>2 DEF UseRecoveryCode, OthersTyped, challengeVars
    <2> QED BY <1>1, <1>3, <1>5, <1>6, <1>7, <1>9, <2>1, MoveTyped DEF At
  <1>11. /\ \A q \in Requests : Presents(q)' /\ UsesSpent(q)' /\ UsedUp(q)' /\ HasSecret(q)'
         /\ \A q \in Requests : FreeNow(q)' /\ FreeToOpen(q)'
         /\ CodesMade' /\ HeldOnce' /\ ActiveSecret' /\ SpentOnce'
    BY <1>2, <1>6, <1>7, <1>8, <1>9, RowsPart
  <1>12. /\ \A q \in Requests : OwnIsMade(q)' /\ OpenedLast(q)' /\ FirstFactorOnly(q)'
         /\ OwnFollows' /\ SessionsFollow'
    BY <1>6, <1>7, <1>9, MovedAlone, SessionsPart
  <1> QED BY <1>10, <1>11, <1>12, Together

\* Nothing of the requests and their rows has changed, but that challenges were issued.
LEMMA RowsStay ==
  ASSUME IInv, UNCHANGED <<request, spent, factor, codes, raced>>
  PROVE  /\ \A q \in Requests : UsesSpent(q)' /\ UsedUp(q)' /\ HasSecret(q)'
         /\ \A q \in Requests : FreeNow(q)' /\ FreeToOpen(q)'
         /\ CodesMade' /\ HeldOnce' /\ ActiveSecret' /\ SpentOnce'
  <1>1. Active' = Active /\ Completed' = Completed
    BY DEF Active, Completed, At
  <1>2. \A q \in Requests : UsesSpent(q)' /\ UsedUp(q)' /\ HasSecret(q)'
    BY <1>1 DEF IInv, RequestInv, UsesSpent, UsedUp, HasSecret, Passed
  <1>3. \A q \in Requests : FreeNow(q)' /\ FreeToOpen(q)'
    BY <1>1 DEF IInv, RequestInv, FreeNow, FreeToOpen, Running, At
  <1>4. CodesMade' /\ ActiveSecret'
    BY <1>1 DEF IInv, CodesMade, ActiveSecret
  <1>5. HeldOnce' /\ SpentOnce'
    BY DEF IInv, HeldOnce, Holding, SpentOnce
  <1> QED BY <1>2, <1>3, <1>4, <1>5

\* Sessions have ended at most, and nothing says otherwise of the requests.
Fewer ==
  \A s \in Makers :
    /\ session'[s].under = session[s].under /\ session'[s].late = session[s].late
    /\ session'[s].status = "NONE" <=> session[s].status = "NONE"
    /\ session'[s].status = "ACTIVE" => session[s].status = "ACTIVE"

LEMMA SessionsKept ==
  ASSUME IInv, Fewer, UNCHANGED password,
         \A q \in Requests :
           /\ request'[q].own \in {request[q].own, None}
           /\ \/ request'[q].asks = request[q].asks /\ (request[q].free => request'[q].free)
              \/ session[q].status = "NONE"
           /\ request[q].at = "done" => request'[q].at = "done"
           /\ request'[q].at = "revoking" => request[q].at = "revoking"
  PROVE  /\ \A q \in Requests : OwnIsMade(q)' /\ OpenedLast(q)' /\ FirstFactorOnly(q)'
         /\ OwnFollows' /\ ((Revokes => Revokes') => SessionsFollow')
  <1>1. \A q \in Requests :
          /\ q \in Makers /\ request[q].own \in Makers \union {None}
          /\ OwnIsMade(q) /\ OpenedLast(q) /\ FirstFactorOnly(q)
    BY Typed DEF IInv, RequestInv, RequestStates, Makers
  <1>2. \A q \in Requests : OwnIsMade(q)' /\ OpenedLast(q)' /\ FirstFactorOnly(q)'
    BY <1>1 DEF Fewer, OwnIsMade, OpenedLast, FirstFactorOnly, At
  <1>3. OwnFollows'
    BY <1>1 DEF IInv, Fewer, OwnFollows, At
  <1>4. SignedIn' \subseteq SignedIn
    BY DEF Fewer, SignedIn
  <1>5. ASSUME Revokes => Revokes'
        PROVE  SessionsFollow'
    BY <1>4, <1>5 DEF IInv, Fewer, SessionsFollow, SignedIn
  <1> QED BY <1>2, <1>3, <1>5

LEMMA IssueStep ==
  ASSUME IInv, NEW p \in Purposes, Issue(p)
  PROVE  IInv'
  <1>1. PICK c \in Challenges : purpose[c] = "ABSENT" /\ purpose' = [purpose EXCEPT ![c] = p]
    BY DEF Issue
  <1>2. UNCHANGED <<password, factor, codes, spent, attempts, awaiting, session, request, raced, faults>>
    BY DEF Issue, credentials
  <1>3. Types /\ OthersTyped
    BY Typed DEF IInv
  <1>4. \A d \in Challenges : purpose[d] # "ABSENT" => purpose'[d] # "ABSENT"
    BY <1>1, <1>3 DEF OthersTyped
  <1>5. OthersTyped'
    <2>1. purpose' \in [Challenges -> Purposes \union {"ABSENT"}]
      BY <1>1, <1>3 DEF OthersTyped
    <2>2. spent' \subseteq {d \in Challenges : purpose'[d] # "ABSENT"}
      BY <1>2, <1>3, <1>4 DEF OthersTyped
    <2> QED BY <1>2, <1>3, <2>1, <2>2 DEF OthersTyped
  <1>6. Types'
    BY <1>2, <1>3, <1>5 DEF Types, TypeOK, OthersTyped, Fits
  <1>7. \A q \in Requests : Presents(q)'
    BY <1>2, <1>4 DEF IInv, RequestInv, Presents, At
  <1>8. Fewer /\ (Revokes => Revokes')
    BY <1>2 DEF Fewer, Revokes
  <1>9. /\ \A q \in Requests : OwnIsMade(q)' /\ OpenedLast(q)' /\ FirstFactorOnly(q)'
        /\ OwnFollows' /\ SessionsFollow'
    BY <1>2, <1>8, SessionsKept
  <1> QED BY <1>2, <1>6, <1>7, <1>9, RowsStay, Together

-----------------------------------------------------------------------------
(* Sessions that are opened and revoked *)

LEMMA RevokedFewer ==
  ASSUME OthersTyped, NEW S, Revoked(S)
  PROVE  /\ Fewer /\ \A s \in Makers : session'[s].status = "ACTIVE" => s \notin S
         /\ session' \in [Makers -> [status : {"NONE", "ACTIVE", "REVOKED"}, level : Levels,
                                     under : Makers, late : Lateness]]
  <1>1. session \in [Makers -> [status : {"NONE", "ACTIVE", "REVOKED"}, level : Levels,
                                under : Makers, late : Lateness]]
    BY DEF OthersTyped
  <1>2. ASSUME NEW s \in Makers
        PROVE  /\ session'[s] \in [status : {"NONE", "ACTIVE", "REVOKED"}, level : Levels,
                                   under : Makers, late : Lateness]
               /\ session'[s].under = session[s].under /\ session'[s].late = session[s].late
               /\ session'[s].status = "NONE" <=> session[s].status = "NONE"
               /\ session'[s].status = "ACTIVE" => session[s].status = "ACTIVE" /\ s \notin S
    <2>1. CASE s \in S /\ session[s].status = "ACTIVE"
      <3>1. session'[s] = [session[s] EXCEPT !.status = "REVOKED"]
        BY <2>1 DEF Revoked
      <3> QED BY <1>1, <2>1, <3>1
    <2>2. CASE ~(s \in S /\ session[s].status = "ACTIVE")
      <3>1. session'[s] = session[s]
        BY <2>2 DEF Revoked
      <3> QED BY <1>1, <2>2, <3>1
    <2> QED BY <2>1, <2>2
  <1>3. session' = [s \in Makers |-> session'[s]]
    BY DEF Revoked
  <1> QED BY <1>2, <1>3 DEF Fewer

LEMMA LogoutStep ==
  ASSUME IInv, NEW s \in Makers, Logout(s)
  PROVE  IInv'
  <1>1. Types /\ OthersTyped /\ Revoked({s})
    BY Typed DEF IInv, Logout
  <1>2. UNCHANGED <<password, factor, codes, purpose, spent, attempts, awaiting, request, raced, faults>>
    BY DEF Logout, credentials, challengeVars
  <1>3. Fewer /\ (Revokes => Revokes')
    BY <1>1, <1>2, RevokedFewer DEF Revokes
  <1>4. OthersTyped'
    BY <1>1, <1>2, RevokedFewer DEF OthersTyped
  <1>5. Types'
    BY <1>1, <1>2, <1>4 DEF Types, TypeOK, OthersTyped, Fits
  <1>6. \A q \in Requests : Presents(q)'
    BY <1>2 DEF IInv, RequestInv, Presents, At
  <1>7. /\ \A q \in Requests : OwnIsMade(q)' /\ OpenedLast(q)' /\ FirstFactorOnly(q)'
        /\ OwnFollows' /\ SessionsFollow'
    BY <1>2, <1>3, SessionsKept
  <1> QED BY <1>2, <1>5, <1>6, <1>7, RowsStay, Together

LEMMA LeaveSessionStep ==
  ASSUME IInv, NEW r \in Requests, LeaveSession(r)
  PROVE  IInv'
  <1> DEFINE s == [request[r] EXCEPT !.at = "opening"]
  <1>1. /\ Types /\ OthersTyped /\ Fits(request[r]) /\ Revoked({request[r].own})
        /\ request' = [request EXCEPT ![r] = s] /\ At(r, "switching")
    BY Typed DEF IInv, Types, LeaveSession, Goes
  <1>2. UNCHANGED <<password, factor, codes, purpose, spent, attempts, awaiting, raced, faults>>
    BY DEF LeaveSession, credentials, challengeVars
  <1>3. Quiet(r, s)
    BY <1>1, GoQuiet DEF Fits, Passed, Trying, Places, SignIns, Asked, At
  <1>4. s.at = "opening" /\ s.own = request[r].own /\ s.asks = request[r].asks /\ s.free = request[r].free
    BY <1>1, MovedState DEF Places
  <1> HIDE DEF s
  <1>5. OthersTyped'
    BY <1>1, <1>2, RevokedFewer DEF OthersTyped
  <1>6. Types'
    BY <1>1, <1>2, <1>3, <1>5, MoveTyped DEF Quiet, At
  <1>7. /\ \A q \in Requests : Presents(q)' /\ UsesSpent(q)' /\ UsedUp(q)' /\ HasSecret(q)'
        /\ \A q \in Requests : FreeNow(q)' /\ FreeToOpen(q)'
        /\ CodesMade' /\ HeldOnce' /\ ActiveSecret' /\ SpentOnce'
    <2>1. Sole(r, s)
      BY <1>2, <1>3, KeptSole DEF Quiet
    <2> QED BY <1>1, <1>2, <1>3, <2>1, RowsPart DEF Quiet
  <1>8. request'[r] = s /\ \A q \in Requests \ {r} : request'[q] = request[q]
    BY <1>1, MovedAlone
  <1>9. Fewer /\ (Revokes => Revokes')
    BY <1>1, <1>2, <1>8, RevokedFewer DEF Revokes, At
  <1>10. /\ \A q \in Requests : OwnIsMade(q)' /\ OpenedLast(q)' /\ FirstFactorOnly(q)'
         /\ OwnFollows' /\ SessionsFollow'
    BY <1>1, <1>2, <1>4, <1>8, <1>9, SessionsKept DEF At
  <1> QED BY <1>6, <1>7, <1>10, Together

LEMMA OverRows ==
  ASSUME IInv, NEW r \in Requests, At(r, "opening") \/ At(r, "revoking"), OthersTyped',
         NEW s \in RequestStates, s.at = "done", s.own = None, s.deletes = {},
         s.challenge = request[r].challenge, s.code = request[r].code,
         request' = [request EXCEPT ![r] = s],
         UNCHANGED <<purpose, factor, codes, spent, awaiting, raced>>
  PROVE  /\ Types'
         /\ \A q \in Requests : Presents(q)' /\ UsesSpent(q)' /\ UsedUp(q)' /\ HasSecret(q)'
         /\ \A q \in Requests : FreeNow(q)' /\ FreeToOpen(q)'
         /\ CodesMade' /\ HeldOnce' /\ ActiveSecret' /\ SpentOnce'
         /\ request'[r] = s /\ \A q \in Requests \ {r} : request'[q] = request[q]
  <1>3. Fits(s) /\ RowsQuiet(r, s)
    BY DEF Fits, RowsQuiet, At
  <1>4. Passed(r)
    BY DEF Passed, Trying, At
  <1>5. Sole(r, s)
    BY <1>4, KeptSole
  <1>6. Types'
    BY <1>3, MoveTyped DEF IInv, At
  <1>7. /\ \A q \in Requests : Presents(q)' /\ UsesSpent(q)' /\ UsedUp(q)' /\ HasSecret(q)'
        /\ \A q \in Requests : FreeNow(q)' /\ FreeToOpen(q)'
        /\ CodesMade' /\ HeldOnce' /\ ActiveSecret' /\ SpentOnce'
    BY <1>3, <1>5, RowsPart
  <1>8. request'[r] = s /\ \A q \in Requests \ {r} : request'[q] = request[q]
    BY MovedAlone
  <1> QED BY <1>6, <1>7, <1>8

LEMMA RevokeAllStep ==
  ASSUME IInv, NEW r \in Requests, RevokeAll(r)
  PROVE  IInv'
  <1> DEFINE own == request[r].own
  <1>1. /\ Types /\ OthersTyped /\ Revoked(Makers \ {own}) /\ Ends(r) /\ At(r, "revoking")
    BY Typed DEF IInv, RevokeAll, Spared
  <1>2. UNCHANGED <<password, factor, codes, purpose, spent, attempts, awaiting, raced, faults>>
    BY DEF RevokeAll, credentials, challengeVars
  <1>3. Fewer /\ (\A s \in Makers : session'[s].status = "ACTIVE" => s = own)
    BY <1>1, RevokedFewer
  <1>4. OthersTyped'
    BY <1>1, <1>2, RevokedFewer DEF OthersTyped
  <1>5. /\ Types'
        /\ \A q \in Requests : Presents(q)' /\ UsesSpent(q)' /\ UsedUp(q)' /\ HasSecret(q)'
        /\ \A q \in Requests : FreeNow(q)' /\ FreeToOpen(q)'
        /\ CodesMade' /\ HeldOnce' /\ ActiveSecret' /\ SpentOnce'
        /\ request'[r].at = "done" /\ request'[r].own = None
        /\ \A q \in Requests \ {r} : request'[q] = request[q]
    <2> DEFINE s == Over(r, "done")
    <2>1. /\ s \in RequestStates /\ s.at = "done" /\ s.own = None /\ s.deletes = {}
          /\ s.challenge = request[r].challenge /\ s.code = request[r].code
      BY <1>1, OverState DEF Places
    <2>2. request' = [request EXCEPT ![r] = s]
      BY <1>1 DEF Ends, GoesWith
    <2> HIDE DEF s
    <2> QED BY <1>1, <1>2, <1>4, <2>1, <2>2, OverRows
  <1>6. /\ \A q \in Requests : OwnIsMade(q)' /\ OpenedLast(q)' /\ FirstFactorOnly(q)'
        /\ OwnFollows' /\ ((Revokes => Revokes') => SessionsFollow')
    <2>1. \A q \in Requests :
            /\ request'[q].own \in {request[q].own, None}
            /\ \/ request'[q].asks = request[q].asks /\ (request[q].free => request'[q].free)
               \/ session[q].status = "NONE"
            /\ request[q].at = "done" => request'[q].at = "done"
            /\ request'[q].at = "revoking" => request[q].at = "revoking"
      <3>1. session[r].status = "NONE"
        BY <1>1 DEF IInv, RequestInv, OpenedLast, At
      <3> QED BY <1>5, <3>1
    <2> QED BY <1>2, <1>3, <2>1, SessionsKept
  <1>7. SessionsFollow'
    <2>1. CASE password = r
      <3>1. own # None => session[own].under = password
        BY <1>1, <2>1 DEF IInv, OwnFollows
      <3>2. \A s \in SignedIn' : s \in Makers /\ s = own /\ s # None
        BY <1>3, NamesDiffer DEF SignedIn, Makers
      <3> HIDE DEF own
      <3> QED BY <1>2, <1>3, <3>1, <3>2 DEF SessionsFollow, Fewer
    <2>2. CASE password # r
      <3>1. Revokes => Revokes'
        BY <1>2, <1>5, <2>2 DEF Revokes
      <3> QED BY <1>6, <3>1
    <2> QED BY <2>1, <2>2
  <1> QED BY <1>5, <1>6, <1>7, Together

LEMMA OpenStep ==
  ASSUME IInv, NEW r \in Requests, Open(r)
  PROVE  IInv'
  <1> DEFINE new == session'[r]
  <1>1. /\ Types /\ OthersTyped /\ At(r, "opening") /\ r \in Makers
        /\ request[r].under \in Makers /\ RequestInv(r) /\ Late(r) \in Lateness
    BY Typed DEF IInv, Open, Makers, RequestStates, Late, Lateness
  <1>2. UNCHANGED <<password, factor, codes, purpose, spent, attempts, awaiting, raced, faults>>
    BY DEF Open, credentials, challengeVars
  <1>3. PICK level \in Levels :
          session' = [session EXCEPT ![r] =
            Session("ACTIVE", level, request[r].under, Late(r))]
    BY DEF Open, Levels
  <1>4. /\ new.status = "ACTIVE" /\ new.under = request[r].under
        /\ new.under = password \/ new.late # "no"
        /\ new \in [status : {"NONE", "ACTIVE", "REVOKED"}, level : Levels, under : Makers, late : Lateness]
    <2>1. new = Session("ACTIVE", level, request[r].under, Late(r))
      BY <1>1, <1>3 DEF OthersTyped
    <2>2. request[r].under = password \/ Late(r) # "no"
      BY DEF Late
    <2> HIDE DEF new
    <2> QED BY <1>1, <2>1, <2>2 DEF Session
  <1>5. \A s \in Makers \ {r} : session'[s] = session[s]
    BY <1>3
  <1>6. OthersTyped'
    <2>1. session' = [session EXCEPT ![r] = new]
      BY <1>1, <1>3 DEF OthersTyped
    <2> HIDE DEF new
    <2>2. session' \in [Makers -> [status : {"NONE", "ACTIVE", "REVOKED"}, level : Levels,
                                   under : Makers, late : Lateness]]
      BY <1>1, <1>4, <2>1 DEF OthersTyped
    <2> QED BY <1>1, <1>2, <2>2 DEF OthersTyped
  <1>7. /\ Types'
        /\ \A q \in Requests : Presents(q)' /\ UsesSpent(q)' /\ UsedUp(q)' /\ HasSecret(q)'
        /\ \A q \in Requests : FreeNow(q)' /\ FreeToOpen(q)'
        /\ CodesMade' /\ HeldOnce' /\ ActiveSecret' /\ SpentOnce'
        /\ request'[r].at = "done" /\ request'[r].own = None
        /\ request'[r].asks = request[r].asks /\ request'[r].free = request[r].free
        /\ \A q \in Requests \ {r} : request'[q] = request[q]
    <2> DEFINE s == [Over(r, "done") EXCEPT !.asks = request[r].asks, !.free = request[r].free]
    <2>1. /\ s \in RequestStates /\ s.at = "done" /\ s.own = None /\ s.deletes = {}
          /\ s.challenge = request[r].challenge /\ s.code = request[r].code
          /\ s.asks = request[r].asks /\ s.free = request[r].free
      BY <1>1, KeptState
    <2>2. request' = [request EXCEPT ![r] = s]
      BY DEF Open, GoesWith
    <2> HIDE DEF s
    <2> QED BY <1>1, <1>2, <1>6, <2>1, <2>2, OverRows
  <1>8. session[r].status = "NONE"
    BY <1>1 DEF RequestInv, OpenedLast, At
  <1>9. \A q \in Requests :
          /\ q \in Makers /\ request[q].own \in Makers \union {None}
          /\ OwnIsMade(q) /\ OpenedLast(q) /\ FirstFactorOnly(q)
    BY Typed DEF IInv, RequestInv, RequestStates, Makers
  <1>10. \A q \in Requests : OwnIsMade(q)' /\ OpenedLast(q)' /\ FirstFactorOnly(q)'
    <2>1. OwnIsMade(r)' /\ OpenedLast(r)' /\ FirstFactorOnly(r)'
      BY <1>1, <1>7 DEF OwnIsMade, OpenedLast, FirstFactorOnly, RequestInv, FreeToOpen, At
    <2>2. \A q \in Requests \ {r} : OwnIsMade(q)' /\ OpenedLast(q)' /\ FirstFactorOnly(q)'
      BY <1>4, <1>5, <1>7, <1>9 DEF OwnIsMade, OpenedLast, FirstFactorOnly, At
    <2> QED BY <2>1, <2>2
  <1>11. OwnFollows'
    BY <1>2, <1>5, <1>7, <1>8, <1>9 DEF IInv, OwnFollows, OwnIsMade, At
  <1>12. SessionsFollow'
    <2>1. Revokes => Revokes'
      BY <1>1, <1>2, <1>7 DEF Revokes, At
    <2> SUFFICES ASSUME NEW s \in SignedIn'
                 PROVE  session'[s].under = password' \/ session'[s].late # "no" \/ Revokes'
      BY DEF SessionsFollow
    <2>2. CASE s = r
      BY <1>2, <1>4, <2>2
    <2>3. CASE s # r
      BY <1>2, <1>5, <2>1, <2>3 DEF IInv, SessionsFollow, SignedIn
    <2> QED BY <2>2, <2>3
  <1> QED BY <1>7, <1>10, <1>11, <1>12, Together

LEMMA SetPasswordStep ==
  ASSUME IInv, NEW r \in Requests, SetPassword(r)
  PROVE  IInv'
  <1> DEFINE s == [request[r] EXCEPT !.at = "revoking"]
             own == request[r].own
  <1>1. /\ Types /\ OthersTyped /\ Fits(request[r]) /\ RequestInv(r) /\ At(r, "setting") /\ Passed(r)
        /\ request' = [request EXCEPT ![r] = s] /\ password' = r /\ r \in Makers
    BY Typed DEF IInv, Types, SetPassword, Goes, Makers, Passed, Trying, At
  <1>2. UNCHANGED <<factor, codes, purpose, spent, attempts, awaiting, raced, faults>>
    BY DEF SetPassword, challengeVars
  <1>3. /\ s \in RequestStates /\ s.at = "revoking" /\ s.own = own /\ s.asks = request[r].asks
        /\ s.challenge = request[r].challenge /\ s.code = request[r].code
        /\ s.deletes = request[r].deletes /\ s.free = request[r].free
    <2>1. "revoking" \in Places
      BY DEF Places
    <2> QED BY <1>1, <2>1, MovedState
  <1> HIDE DEF s
  <1>4. Fits(s) /\ RowsQuiet(r, s)
    BY <1>1, <1>3 DEF Fits, RowsQuiet, RequestInv, FreeNow, Running, At
  <1>5. ASSUME NEW t \in Makers
        PROVE  /\ session'[t] \in [status : {"NONE", "ACTIVE", "REVOKED"}, level : Levels,
                                   under : Makers, late : Lateness]
               /\ session'[t].status = session[t].status /\ (t = own => session'[t].under = r)
    <2>1. session[t] \in [status : {"NONE", "ACTIVE", "REVOKED"}, level : Levels,
                          under : Makers, late : Lateness]
      BY <1>1 DEF OthersTyped
    <2>2. CASE t = own
      <3>1. session'[t] = [session[t] EXCEPT !.under = r]
        BY <2>2 DEF SetPassword
      <3> QED BY <1>1, <2>1, <3>1
    <2>3. CASE t # own
      <3>1. session'[t] = session[t]
        BY <2>3 DEF SetPassword
      <3> QED BY <2>1, <2>3, <3>1
    <2> QED BY <2>2, <2>3
  <1>6. OthersTyped'
    <2>1. session' = [t \in Makers |-> session'[t]]
      BY DEF SetPassword
    <2>2. session' \in [Makers -> [status : {"NONE", "ACTIVE", "REVOKED"}, level : Levels,
                                   under : Makers, late : Lateness]]
      BY <1>5, <2>1
    <2> QED BY <1>1, <1>2, <2>2 DEF OthersTyped
  <1>7. Types'
    BY <1>1, <1>2, <1>3, <1>4, <1>6, MoveTyped DEF At
  <1>8. /\ \A q \in Requests : Presents(q)' /\ UsesSpent(q)' /\ UsedUp(q)' /\ HasSecret(q)'
        /\ \A q \in Requests : FreeNow(q)' /\ FreeToOpen(q)'
        /\ CodesMade' /\ HeldOnce' /\ ActiveSecret' /\ SpentOnce'
    <2>1. Sole(r, s)
      BY <1>1, <1>2, <1>3, KeptSole
    <2> QED BY <1>1, <1>2, <1>4, <2>1, RowsPart
  <1>9. request'[r] = s /\ \A q \in Requests \ {r} : request'[q] = request[q]
    BY <1>1, MovedAlone
  <1>10. \A q \in Requests : OwnIsMade(q)' /\ OpenedLast(q)' /\ FirstFactorOnly(q)'
    <2>1. \A q \in Requests :
            /\ q \in Makers /\ request[q].own \in Makers \union {None}
            /\ OwnIsMade(q) /\ OpenedLast(q) /\ FirstFactorOnly(q)
      BY Typed DEF IInv, RequestInv, RequestStates, Makers
    <2>2. \A q \in Requests :
            /\ request'[q].own = request[q].own /\ request'[q].asks = request[q].asks
            /\ request'[q].free = request[q].free /\ (At(q, "done") => request'[q].at = "done")
      BY <1>1, <1>3, <1>9 DEF At
    <2> QED BY <1>5, <2>1, <2>2 DEF OwnIsMade, OpenedLast, FirstFactorOnly, At
  <1>11. OwnFollows'
    <2>1. own \in Makers \union {None}
      BY <1>1, Typed DEF RequestStates
    <2>2. request'[r].own = own
      BY <1>3, <1>9
    <2>3. own # None => session'[own].under = r
      BY <1>5, <2>1
    <2> HIDE DEF own
    <2> QED BY <1>1, <2>2, <2>3 DEF OwnFollows
  <1>12. SessionsFollow'
    <2>1. Revokes'
      BY <1>1, <1>3, <1>9 DEF Revokes
    <2> QED BY <2>1 DEF SessionsFollow
  <1> QED BY <1>7, <1>8, <1>10, <1>11, <1>12, Together

-----------------------------------------------------------------------------
(* Factors and recovery codes that are replaced *)

\* A transaction that has written at most new codes commits.
LEMMA CommitRows ==
  ASSUME IInv, NEW r \in Requests, At(r, "committing"), request'[r] = Over(r, "done"),
         \A q \in Requests \ {r} :
           /\ request'[q].at = request[q].at /\ request'[q].challenge = request[q].challenge
           /\ request'[q].code = request[q].code /\ request'[q].factor = request[q].factor,
         UNCHANGED <<purpose, spent>>, codes' \subseteq codes \union {r}
  PROVE  /\ \A q \in Requests : Presents(q)' /\ UsesSpent(q)' /\ UsedUp(q)'
         /\ CodesMade' /\ HeldOnce' /\ SpentOnce'
  <1>1. /\ request'[r].at = "done" /\ request'[r].challenge = request[r].challenge
        /\ request'[r].code = request[r].code
    BY OverState DEF IInv, Places
  <1>2. Completed \subseteq Completed' /\ r \in Completed' /\ r \notin Completed
    BY <1>1, NamesDiffer DEF Completed, At
  <1>3. \A q \in Requests :
          /\ request'[q].challenge = request[q].challenge /\ request'[q].code = request[q].code
          /\ Passed(q)' <=> Passed(q)
    BY <1>1 DEF Passed, Trying, At
  <1>4. \A q \in Requests : Presents(q) /\ UsesSpent(q) /\ UsedUp(q)
    BY DEF IInv, RequestInv
  <1>5. \A q \in Requests : Presents(q)' /\ UsesSpent(q)'
    BY <1>1, <1>3, <1>4 DEF Presents, UsesSpent, At
  <1>6. \A q \in Requests : UsedUp(q)'
    BY <1>2, <1>3, <1>4 DEF UsedUp
  <1>7. CodesMade'
    BY <1>2 DEF IInv, CodesMade
  <1>8. HeldOnce'
    <2>1. \A q \in Requests : Holding(q)' => Holding(q) /\ request'[q].factor = request[q].factor
      BY <1>1 DEF Holding
    <2> QED BY <2>1 DEF IInv, HeldOnce
  <1>9. SpentOnce'
    <2> SUFFICES ASSUME NEW p \in Requests, NEW q \in Requests, p # q,
                        request'[p].at \notin Trying, request'[q].at \notin Trying
                 PROVE  /\ request'[p].challenge # request'[q].challenge \/ request'[p].challenge = 0
                        /\ request'[p].code # request'[q].code \/ request'[p].code = None
      BY DEF SpentOnce, Trying
    <2>1. request[p].at \notin Trying /\ request[q].at \notin Trying
      BY <1>3 DEF Passed
    <2> QED BY <1>3, <2>1 DEF IInv, SpentOnce, Trying
  <1> QED BY <1>5, <1>6, <1>7, <1>8, <1>9

\* It releases what it has, and the sessions stay.
LEMMA CommitSessions ==
  ASSUME IInv, NEW r \in Requests, At(r, "committing"), request'[r] = Over(r, "done"),
         \A q \in Requests \ {r} :
           /\ request'[q].at = request[q].at /\ request'[q].own = request[q].own
           /\ request'[q].asks = request[q].asks /\ (request[q].free => request'[q].free),
         UNCHANGED <<password, session>>
  PROVE  /\ \A q \in Requests : OwnIsMade(q)' /\ OpenedLast(q)' /\ FirstFactorOnly(q)'
         /\ OwnFollows' /\ SessionsFollow'
  <1>1. Over(r, "done").at = "done" /\ Over(r, "done").own = None
    BY OverState DEF IInv, Places
  <1>2. SessionsQuiet(r, request'[r])
    BY <1>1 DEF SessionsQuiet, At
  <1> QED BY <1>2, SessionsPart

LEMMA CommitTypes ==
  ASSUME IInv, NEW r \in Requests, At(r, "committing"), Ends(r), OthersTyped', UNCHANGED awaiting
  PROVE  Types' /\ request'[r] = Over(r, "done") /\ \A q \in Requests \ {r} : request'[q] = request[q]
  <1> DEFINE s == Over(r, "done")
  <1>1. /\ s \in RequestStates /\ s.at = "done" /\ s.deletes = {}
    BY OverState DEF IInv, Places
  <1>2. request' = [request EXCEPT ![r] = s]
    BY DEF Ends, GoesWith
  <1>3. request'[r] = s /\ \A q \in Requests \ {r} : request'[q] = request[q]
    BY <1>2, MovedAlone
  <1> HIDE DEF s
  <1>4. Fits(s)
    BY <1>1 DEF Fits
  <1>5. Types'
    BY <1>1, <1>2, <1>4, MoveTyped DEF IInv, At
  <1> QED BY <1>3, <1>5 DEF s

LEMMA CommitConfirmStep ==
  ASSUME IInv, NEW r \in Requests, CommitConfirm(r)
  PROVE  IInv'
  <1> DEFINE f == request[r].factor
  <1>1. /\ Types /\ OthersTyped /\ Ends(r) /\ At(r, "committing") /\ request[r].asks = "confirm"
        /\ f \in Factors /\ r \in Makers
    BY Typed DEF IInv, Types, CommitConfirm, Fits, At, Makers
  <1>2. UNCHANGED <<password, purpose, spent, attempts, awaiting, session, raced, faults>>
    BY DEF CommitConfirm, challengeVars
  <1>3. factor' = [factor EXCEPT ![f].status = "ACTIVE"] /\ codes' \subseteq codes \union {r}
    BY DEF CommitConfirm
  <1>4. factor \in [Factors -> [status : {"PENDING", "ACTIVE", "DISABLED"}, secret : BOOLEAN]]
    BY <1>1 DEF OthersTyped
  <1> HIDE DEF f
  <1>5. /\ factor'[f].status = "ACTIVE" /\ factor'[f].secret = factor[f].secret
        /\ \A g \in Factors \ {f} : factor'[g] = factor[g]
    BY <1>1, <1>3, <1>4
  <1>6. OthersTyped'
    <2>1. factor' \in [Factors -> [status : {"PENDING", "ACTIVE", "DISABLED"}, secret : BOOLEAN]]
      BY <1>1, <1>3, <1>4
    <2> QED BY <1>1, <1>2, <1>3, <2>1 DEF OthersTyped
  <1>7. Types' /\ request'[r] = Over(r, "done") /\ \A q \in Requests \ {r} : request'[q] = request[q]
    BY <1>1, <1>2, <1>6, CommitTypes
  <1>8. /\ \A q \in Requests : Presents(q)' /\ UsesSpent(q)' /\ UsedUp(q)'
        /\ CodesMade' /\ HeldOnce' /\ SpentOnce'
    BY <1>1, <1>2, <1>3, <1>7, CommitRows
  <1>9. /\ \A q \in Requests : OwnIsMade(q)' /\ OpenedLast(q)' /\ FirstFactorOnly(q)'
        /\ OwnFollows' /\ SessionsFollow'
    BY <1>1, <1>2, <1>7, CommitSessions
  <1>10. request'[r].at = "done"
    BY <1>1, <1>7, OverState DEF Places
  <1>11. \A q \in Requests : HasSecret(q)'
    <2> TAKE q \in Requests
    <2>1. CASE q = r
      BY <1>10, <2>1 DEF HasSecret
    <2>2. CASE q # r
      <3>1. HasSecret(q) /\ request'[q] = request[q] /\ Fits(request[q])
        BY <1>7, <2>2 DEF IInv, RequestInv, Types
      <3>2. \A g \in Factors : factor'[g].secret = factor[g].secret
        BY <1>5
      <3> QED BY <1>2, <3>1, <3>2 DEF HasSecret, Fits
    <2> QED BY <2>1, <2>2
  <1>12. \A q \in Requests : FreeNow(q)' /\ FreeToOpen(q)'
    <2>1. Active' # {}
      BY <1>1, <1>5 DEF Active
    <2> QED BY <1>7, <1>10, <2>1 DEF IInv, RequestInv, FreeNow, FreeToOpen, Running, At
  <1>13. ActiveSecret'
    <2>1. factor[f].secret \/ f \in raced
      BY <1>1 DEF IInv, RequestInv, HasSecret, At, f
    <2> QED BY <1>2, <1>5, <2>1 DEF IInv, ActiveSecret, Active
  <1> QED BY <1>7, <1>8, <1>9, <1>11, <1>12, <1>13, Together

LEMMA CommitRegenerateStep ==
  ASSUME IInv, NEW r \in Requests, CommitRegenerate(r)
  PROVE  IInv'
  <1>1. /\ Types /\ OthersTyped /\ Ends(r) /\ At(r, "committing") /\ r \in Makers
        /\ codes' \subseteq codes \union {r}
    BY Typed DEF IInv, CommitRegenerate, Makers
  <1>2. UNCHANGED <<password, factor, purpose, spent, attempts, awaiting, session, raced, faults>>
    BY DEF CommitRegenerate, challengeVars
  <1>3. OthersTyped'
    BY <1>1, <1>2 DEF OthersTyped
  <1>4. Types' /\ request'[r] = Over(r, "done") /\ \A q \in Requests \ {r} : request'[q] = request[q]
    BY <1>1, <1>2, <1>3, CommitTypes
  <1>5. /\ \A q \in Requests : Presents(q)' /\ UsesSpent(q)' /\ UsedUp(q)'
        /\ CodesMade' /\ HeldOnce' /\ SpentOnce'
    BY <1>1, <1>2, <1>4, CommitRows
  <1>6. /\ \A q \in Requests : OwnIsMade(q)' /\ OpenedLast(q)' /\ FirstFactorOnly(q)'
        /\ OwnFollows' /\ SessionsFollow'
    BY <1>1, <1>2, <1>4, CommitSessions
  <1>7. request'[r].at = "done" /\ Active' = Active
    BY <1>1, <1>2, <1>4, OverState DEF Places, Active
  <1>8. \A q \in Requests : HasSecret(q)' /\ FreeNow(q)' /\ FreeToOpen(q)'
    BY <1>2, <1>4, <1>7 DEF IInv, RequestInv, HasSecret, FreeNow, FreeToOpen, Running, At
  <1>9. ActiveSecret'
    BY <1>2, <1>7 DEF IInv, ActiveSecret
  <1> QED BY <1>4, <1>5, <1>6, <1>8, <1>9, Together

LEMMA CommitDisableStep ==
  ASSUME IInv, NEW r \in Requests, CommitDisable(r)
  PROVE  IInv'
  <1> DEFINE f == request[r].factor
             none == (Active \ {f} = {})
  <1>1. /\ Types /\ OthersTyped /\ At(r, "committing") /\ request[r].asks = "disable"
        /\ f \in Factors /\ f # None
    BY Typed, NamesDiffer DEF IInv, Types, CommitDisable, Fits, At
  <1>2. UNCHANGED <<password, purpose, spent, attempts, awaiting, session, faults>>
    BY DEF CommitDisable, challengeVars
  <1>3. /\ factor' = [factor EXCEPT ![f] = [status |-> "DISABLED", secret |-> FALSE]]
        /\ codes' \subseteq codes
        /\ request' = [q \in Requests |->
             IF q = r THEN Over(r, "done")
             ELSE [request[q] EXCEPT !.free = (@ \/ (Running(q) /\ none))]]
        /\ raced' = raced \union {g \in {f} : \E q \in Requests :
                                                At(q, "confirming") /\ request[q].factor = f}
    BY DEF CommitDisable, NoSecret
  <1>4. factor \in [Factors -> [status : {"PENDING", "ACTIVE", "DISABLED"}, secret : BOOLEAN]]
        /\ none \in BOOLEAN
    BY <1>1 DEF OthersTyped
  <1>5. Active' = Active \ {f} /\ (Active' = {} => none)
    BY <1>1, <1>3, <1>4 DEF Active
  <1> HIDE DEF f, none
  <1>6. \A g \in Factors \ {f} : factor'[g] = factor[g]
    BY <1>1, <1>3, <1>4
  <1>7. OthersTyped'
    <2>1. factor' \in [Factors -> [status : {"PENDING", "ACTIVE", "DISABLED"}, secret : BOOLEAN]]
      BY <1>1, <1>3, <1>4
    <2>2. raced' \subseteq Factors /\ raced \subseteq raced'
      BY <1>1, <1>3 DEF OthersTyped
    <2> QED BY <1>1, <1>2, <1>3, <2>1, <2>2 DEF OthersTyped
  <1>8. request'[r] = Over(r, "done")
    BY <1>3
  <1>9. /\ request'[r] \in RequestStates /\ request'[r].at = "done" /\ request'[r].deletes = {}
    BY <1>1, <1>8, OverState DEF Places
  <1>10. ASSUME NEW q \in Requests \ {r}
         PROVE  /\ request'[q] \in RequestStates
                /\ request'[q].at = request[q].at /\ request'[q].asks = request[q].asks
                /\ request'[q].own = request[q].own /\ request'[q].challenge = request[q].challenge
                /\ request'[q].code = request[q].code /\ request'[q].factor = request[q].factor
                /\ request'[q].deletes = request[q].deletes
                /\ request[q].free \/ (Running(q) /\ none) => request'[q].free
    <2>1. request[q] \in RequestStates
      BY <1>1, Typed
    <2> DEFINE b == request[q].free \/ (Running(q) /\ none)
    <2>2. b \in BOOLEAN
      OBVIOUS
    <2>3. request'[q] = [request[q] EXCEPT !.free = b]
      BY <1>3
    <2>4. \A state \in RequestStates, x \in BOOLEAN :
            LET s == [state EXCEPT !.free = x]
            IN /\ s \in RequestStates /\ s.at = state.at /\ s.asks = state.asks /\ s.own = state.own
               /\ s.challenge = state.challenge /\ s.code = state.code /\ s.factor = state.factor
               /\ s.deletes = state.deletes /\ s.free = x
      BY DEF RequestStates
    <2>5. /\ request'[q] \in RequestStates
          /\ request'[q].at = request[q].at /\ request'[q].asks = request[q].asks
          /\ request'[q].own = request[q].own /\ request'[q].challenge = request[q].challenge
          /\ request'[q].code = request[q].code /\ request'[q].factor = request[q].factor
          /\ request'[q].deletes = request[q].deletes /\ request'[q].free = b
      <3> HIDE DEF b
      <3> QED BY <2>1, <2>2, <2>3, <2>4
    <2> QED BY <2>5
  <1>11. Types'
    <2>1. request' \in [Requests -> RequestStates]
      <3>1. \A q \in Requests : request'[q] \in RequestStates
        BY <1>9, <1>10
      <3>2. request' = [q \in Requests |-> request'[q]]
        BY <1>3
      <3> QED BY <3>1, <3>2
    <2>2. \A q \in Requests : Fits(request[q])'
      <3> TAKE q \in Requests
      <3>1. CASE q = r
        BY <1>9, <3>1 DEF Fits
      <3>2. CASE q # r
        <4>1. Fits(request[q])
          BY DEF IInv, Types
        <4> QED BY <1>10, <3>2, <4>1 DEF Fits
      <3> QED BY <3>1, <3>2
    <2>3. awaiting' \subseteq {q \in Requests : request'[q].at = "done" /\ request'[q].asks \in SignIns}
      <3>1. \A q \in awaiting : q \in Requests /\ request[q].at = "done" /\ request[q].asks \in SignIns
        BY <1>1 DEF Types, TypeOK
      <3>2. r \notin awaiting
        BY <1>1, <3>1 DEF At
      <3> QED BY <1>2, <1>10, <3>1, <3>2
    <2>4. \A q \in Requests : request'[q].deletes # {} => request'[q].at = "committing"
      BY <2>2 DEF Fits
    <2> QED BY <1>7, <2>1, <2>2, <2>3, <2>4 DEF Types, TypeOK, OthersTyped, RequestStates
  <1>12. /\ \A q \in Requests : Presents(q)' /\ UsesSpent(q)' /\ UsedUp(q)'
         /\ CodesMade' /\ HeldOnce' /\ SpentOnce'
    BY <1>1, <1>2, <1>3, <1>8, <1>10, CommitRows
  <1>13. /\ \A q \in Requests : OwnIsMade(q)' /\ OpenedLast(q)' /\ FirstFactorOnly(q)'
         /\ OwnFollows' /\ SessionsFollow'
    BY <1>1, <1>2, <1>8, <1>10, CommitSessions
  <1>14. \A q \in Requests : HasSecret(q)'
    <2> TAKE q \in Requests
    <2>1. CASE q = r
      BY <1>9, <2>1 DEF HasSecret
    <2>2. CASE q # r /\ request[q].factor # f
      <3>1. HasSecret(q) /\ Fits(request[q])
        BY DEF IInv, RequestInv, Types
      <3>2. request[q].factor \in Factors => factor'[request[q].factor] = factor[request[q].factor]
        BY <1>6, <2>2
      <3>3. raced \subseteq raced'
        BY <1>3
      <3> QED BY <1>10, <2>2, <3>1, <3>2, <3>3 DEF HasSecret, Fits
    <2>3. CASE q # r /\ request[q].factor = f
      <3>1. ~At(q, "committing")
        BY <1>1, <2>3 DEF IInv, HeldOnce, Holding, At, f
      <3>2. At(q, "confirming") => f \in raced'
        BY <1>3, <2>3
      <3> QED BY <1>10, <2>3, <3>1, <3>2 DEF HasSecret, At
    <2> QED BY <2>1, <2>2, <2>3
  <1>15. \A q \in Requests : FreeNow(q)' /\ FreeToOpen(q)'
    <2> TAKE q \in Requests
    <2>1. CASE q = r
      BY <1>9, <2>1 DEF FreeNow, FreeToOpen, Running, At
    <2>2. CASE q # r
      <3>1. FreeToOpen(q)
        BY DEF IInv, RequestInv
      <3> QED BY <1>5, <1>10, <2>2, <3>1 DEF FreeNow, FreeToOpen, Running, At
    <2> QED BY <2>1, <2>2
  <1>16. ActiveSecret'
    <2>1. Active \subseteq Factors
      BY DEF Active
    <2> QED BY <1>3, <1>5, <1>6, <2>1 DEF IInv, ActiveSecret
  <1> QED BY <1>11, <1>12, <1>13, <1>14, <1>15, <1>16, Together

-----------------------------------------------------------------------------
(* The invariant, and what follows from it *)

LEMMA IInvInit == Init => IInv
  <1> SUFFICES ASSUME Init
               PROVE  IInv
    OBVIOUS
  <1>1. 0 \in 0..MaxChallenges /\ 0 \in 0..MaxAttempts /\ 0 \in 0..MaxFaults
    BY MaxChallengesNat, MaxAttemptsPositive, MaxFaultsNat
  <1>2. /\ Fresh \in RequestStates /\ Fresh.at = "new" /\ Fresh.own = None /\ Fresh.code = None
        /\ Fresh.deletes = {} /\ Fresh.factor = None /\ Fresh.challenge = 0
    BY FreshState DEF Fresh
  <1>3. Fits(Fresh)
    BY <1>2 DEF Fits
  <1> HIDE DEF Fresh
  <1>4. request \in [Requests -> RequestStates] /\ \A r \in Requests : request[r] = Fresh
    BY <1>2 DEF Init
  <1>5. /\ factor \in [Factors -> [status : {"PENDING", "ACTIVE", "DISABLED"}, secret : BOOLEAN]]
        /\ \A f \in Factors : factor[f].secret = TRUE
    BY DEF Init
  <1>6. /\ \A s \in Makers : /\ session[s].under = Initial
                             /\ s # Initial => session[s].status = "NONE"
        /\ session \in [Makers -> [status : {"NONE", "ACTIVE", "REVOKED"}, level : Levels,
                                   under : Makers, late : Lateness]]
    BY DEF Init, Session, Makers, Levels, Lateness
  <1>7. OthersTyped
    BY <1>1, <1>5, <1>6 DEF Init, OthersTyped, Makers
  <1>8. Types
    BY <1>2, <1>3, <1>4, <1>7 DEF Types, TypeOK, OthersTyped, RequestStates, Init
  <1>9. \A r \in Requests : RequestInv(r)
    <2> TAKE r \in Requests
    <2>1. session[r].status = "NONE"
      BY <1>6, NamesDiffer DEF Makers
    <2>2. request[r].at = "new" /\ request[r].own = None /\ request[r].code = None
      BY <1>2, <1>4
    <2> QED BY <2>1, <2>2 DEF RequestInv, Presents, UsesSpent, UsedUp, HasSecret, FreeNow, Running,
                               FreeToOpen, OwnIsMade, OpenedLast, FirstFactorOnly, Passed, Trying, At
  <1>10. CodesMade /\ ActiveSecret
    BY <1>5 DEF Init, CodesMade, Completed, ActiveSecret, Active
  <1>11. HeldOnce /\ SpentOnce
    BY <1>2, <1>4 DEF HeldOnce, Holding, SpentOnce
  <1>12. OwnFollows /\ SessionsFollow
    BY <1>6, NamesDiffer DEF Init, OwnFollows, SessionsFollow, SignedIn
  <1> QED BY <1>8, <1>9, <1>10, <1>11, <1>12 DEF IInv

LEMMA StutterStep ==
  ASSUME IInv, UNCHANGED vars
  PROVE  IInv'
  <1> USE DEF vars, credentials, challengeVars
  <1>1. OthersTyped'
    BY Typed DEF IInv, OthersTyped
  <1>2. Types'
    BY <1>1 DEF IInv, Types, TypeOK, OthersTyped, Fits
  <1>3. \A q \in Requests : Presents(q)'
    BY DEF IInv, RequestInv, Presents, At
  <1>4. Fewer /\ (Revokes => Revokes')
    BY DEF Fewer, Revokes
  <1>5. /\ \A q \in Requests : OwnIsMade(q)' /\ OpenedLast(q)' /\ FirstFactorOnly(q)'
        /\ OwnFollows' /\ SessionsFollow'
    BY <1>4, SessionsKept
  <1> QED BY <1>2, <1>3, <1>5, RowsStay, Together

LEMMA IInvStep == IInv /\ [Next]_vars => IInv'
  <1> SUFFICES ASSUME IInv, [Next]_vars
               PROVE  IInv'
    OBVIOUS
  <1>1. ASSUME NEW p \in Purposes, Issue(p)
        PROVE  IInv'
    BY <1>1, IssueStep
  <1>2. ASSUME NEW s \in Makers, Logout(s)
        PROVE  IInv'
    BY <1>2, LogoutStep
  <1>3. ASSUME NEW r \in Requests,
               \/ \E c \in Challenges : FindByToken(r, c) \/ FindByIdentifier(r, c)
               \/ \E f \in Factors : FindPending(r, f) \/ FindFactor(r, f)
               \/ Identify(r) \/ AcceptInvitation(r) \/ ReadMfaChallenge(r) \/ Switch(r)
               \/ Change(r) \/ Regenerate(r)
        PROVE  IInv'
    BY <1>3, BeginSteps
  <1>4. ASSUME NEW r \in Requests,
               \/ CountAttempt(r) \/ VerifyTotp(r) \/ CompleteChallenge(r) \/ Confirm(r)
               \/ DeleteCodes(r) \/ Disable(r) \/ DeleteLast(r) \/ Abort(r)
        PROVE  IInv'
    BY <1>4, GoSteps
  <1>5. ASSUME NEW r \in Requests, Establish(r) \/ Consume(r) \/ UseRecoveryCode(r)
        PROVE  IInv'
    BY <1>5, EstablishStep, ConsumeStep, UseRecoveryCodeStep
  <1>6. ASSUME NEW r \in Requests, Open(r) \/ LeaveSession(r) \/ SetPassword(r) \/ RevokeAll(r)
        PROVE  IInv'
    BY <1>6, OpenStep, LeaveSessionStep, SetPasswordStep, RevokeAllStep
  <1>7. ASSUME NEW r \in Requests, CommitConfirm(r) \/ CommitRegenerate(r) \/ CommitDisable(r)
        PROVE  IInv'
    BY <1>7, CommitConfirmStep, CommitRegenerateStep, CommitDisableStep
  <1>8. CASE UNCHANGED vars
    BY <1>8, StutterStep
  <1> QED BY <1>1, <1>2, <1>3, <1>4, <1>5, <1>6, <1>7, <1>8 DEF Next

LEMMA Always == Spec => []IInv
  BY IInvInit, IInvStep, PTL DEF Spec

LEMMA RevokedOrToCome == IInv => SessionsEndWithPassword
  <1> SUFFICES ASSUME IInv, NEW s \in SignedIn
               PROVE  \/ session[s].under = password
                      \/ session[s].late \in {"overlap", "revived"}
                      \/ \E r \in Requests : request[r].at \in {"revoking", "unrevoked"}
    BY DEF SessionsEndWithPassword
  <1>1. session[s].late \in Lateness
    BY Typed DEF IInv, OthersTyped, SignedIn
  <1> QED BY <1>1 DEF IInv, SessionsFollow, Revokes, Lateness

(* The state of the accounts keeps its type, and a request that waits for *)
(* a second factor is a sign-in that is over.                              *)
THEOREM TypeCorrect == Spec => []TypeOK
  <1>1. IInv => TypeOK
    BY DEF IInv, Types
  <1> QED BY <1>1, Always, PTL

(* A link, a one-time code and a recovery code admit one request at most,  *)
(* whatever requests replace and delete the codes at the same time         *)
(* (consumeByToken, consume, consumeRecoveryCode).                         *)
THEOREM SecretsSpentOnce == Spec => []SpentOnce
  <1>1. IInv => SpentOnce
    BY DEF IInv
  <1> QED BY <1>1, Always, PTL

(* No session outlives the password that it goes back to, but the one of   *)
(* the user who changed it, those that a revocation is still to end or     *)
(* never will, and those of the two ways around it: a sign-in that         *)
(* overlapped the change, and a switch with the token of a session that    *)
(* was over (resetPassword, changePassword, switchTenant).                 *)
THEOREM SessionsFollowPassword == Spec => []SessionsEndWithPassword
  BY Always, RevokedOrToCome, PTL

(* While a factor is active no sign-in but the acceptance of an invitation *)
(* opens a session without its second step, and a factor that was not      *)
(* disabled during its confirmation has the secret that this step needs    *)
(* (establishSession, accept, confirmTotp, disableFactor).                 *)
THEOREM SecondFactorHolds == Spec => []SecondFactor
  <1>1. IInv => SecondFactor
    BY DEF IInv, RequestInv, FirstFactorOnly, Asked, ActiveSecret, SecondFactor
  <1> QED BY <1>1, Always, PTL

=============================================================================
