------------------------- MODULE AuthSessionsProofs -------------------------
(* Proofs about AuthSessions for every value of its constants.               *)
EXTENDS AuthSessions, FiniteSetTheorems, TLAPS

USE NoneAssumption, TokensAssumption

Bearing == Steps \ {"idle", "login", "cleared"}
AtUser == {"access.user", "refresh.user", "logout.user"}
AtToken == {"access.token", "refresh.token", "logout.token"}
Inside == {"access", "refresh", "logout"}

(* A call under way has a browser, and one that has logged out has none.     *)
CallsStand ==
  \A c \in Calls :
    /\ step[c] # "idle" => browser[c] \in Browsers
    /\ step[c] = "login" => pair[c].user \in Users
    /\ step[c] \in Bearing => pair[c] \in Pairs

(* Every pair that is handed out or comes back names a token its user owns.  *)
PairsOwned ==
  /\ \A b \in Browsers : jar[b] # None => owner[jar[b].token] = jar[b].user
  /\ \A c \in Calls : step[c] \in Bearing => owner[pair[c].token] = pair[c].user
  /\ \A t \in stored : owner[t] # None

(* A pair revoked before its request came stays revoked: at the token's      *)
(* lookup the user was found, so it is the token that is gone.               *)
StaleStaysRevoked ==
  \A c \in Calls : stale[c] =>
    /\ step[c] \in AtUser \cup AtToken
    /\ step[c] \in AtUser => Revoked(pair[c])
    /\ step[c] \in AtToken => pair[c].token \notin stored

(* No call of a browser is under way that has logged out.                    *)
ClosedAreQuiet ==
  /\ LogoutEndsSession
  /\ \A c \in Calls : step[c] # "idle" => browser[c] \notin closed

AuthInv == TypeOK /\ CallsStand /\ PairsOwned /\ StaleStaysRevoked /\ ClosedAreQuiet

(* The sets of steps.                                                        *)
LEMMA StepSets ==
  /\ AtUser \subseteq Bearing /\ AtToken \subseteq Bearing /\ Inside \subseteq Bearing
  /\ Bearing \subseteq Steps /\ "idle" \notin Bearing
  /\ AtUser \cap AtToken = {} /\ Inside \cap (AtUser \cup AtToken) = {}
  BY DEF AtUser, AtToken, Inside, Bearing, Steps

(* A pair is what a call may hold.                                           *)
LEMMA PairType == Pairs \subseteq [user: Users, token: Tokens \cup {None}]
  BY DEF Pairs

(* A call that ends leaves nothing behind.                                   *)
LEMMA EndType ==
  ASSUME TypeOK, NEW c \in Calls, End(c)
  PROVE  /\ step' \in [Calls -> Steps]
         /\ browser' \in [Calls -> Browsers \cup {None}]
         /\ pair' \in [Calls -> [user: Users, token: Tokens \cup {None}] \cup {None}]
         /\ stale' \in [Calls -> BOOLEAN]
         /\ list' \in [Calls -> SUBSET Tokens]
         /\ seen' \in [Calls -> SUBSET Tokens]
  BY DEF TypeOK, End, Steps

(* What a new token changes.                                                 *)
LEMMA CreateEffect ==
  ASSUME AuthInv, NEW c \in Calls, NEW u \in Users, generateAndCreateOne(c, u)
  PROVE  \E t \in Tokens :
           /\ owner[t] = None /\ t \notin stored
           /\ stored' = stored \cup {t}
           /\ owner' = [owner EXCEPT ![t] = u]
           /\ createdAt' \in [Tokens -> Nat]
           /\ pair' = [pair EXCEPT ![c] = [user |-> u, token |-> t]]
           /\ unpruned' = unpruned \cup {t}
  <1>1. Cardinality(Tokens \ Fresh) + 1 \in Nat
    BY FS_Subset, FS_CardinalityType DEF Fresh
  <1>2. PICK t \in Fresh :
          /\ stored' = stored \cup {t}
          /\ owner' = [owner EXCEPT ![t] = u]
          /\ createdAt' = [createdAt EXCEPT ![t] = Cardinality(Tokens \ Fresh) + 1]
          /\ pair' = [pair EXCEPT ![c] = Entity(u, t)]
          /\ unpruned' = unpruned \cup {t}
    BY DEF generateAndCreateOne
  <1>3. t \in Tokens /\ owner[t] = None /\ t \notin stored
    BY <1>2 DEF Fresh, AuthInv, PairsOwned
  <1>4. createdAt' \in [Tokens -> Nat]
    BY <1>1, <1>2 DEF AuthInv, TypeOK
  <1> QED BY <1>2, <1>3, <1>4 DEF Entity
-----------------------------------------------------------------------------
(* A login starts: its browser is no longer logged out.                      *)
LEMMA LoginInv ==
  ASSUME AuthInv, NEW c \in Calls, NEW b \in Browsers, Login(c, b)
  PROVE  AuthInv'
  <1> USE DEF AuthInv
  <1>1. TypeOK'
    BY DEF TypeOK, Login, Goto, Steps, Pairs, storeVars, pruneVars, callVars
  <1>2. CallsStand'
    BY DEF TypeOK, CallsStand, Login, Goto, Steps, Bearing, Pairs, storeVars, pruneVars, callVars
  <1>3. PairsOwned'
    BY DEF TypeOK, CallsStand, PairsOwned, Login, Goto, Steps, Bearing, Pairs, storeVars, pruneVars, callVars
  <1>4. StaleStaysRevoked'
    BY DEF TypeOK, StaleStaysRevoked, Revoked, Login, Goto, AtUser, AtToken, storeVars, pruneVars, callVars
  <1>5. ClosedAreQuiet'
    BY DEF TypeOK, ClosedAreQuiet, LogoutEndsSession, CallsStand, Login, Goto, storeVars, pruneVars, callVars
  <1> QED BY <1>1, <1>2, <1>3, <1>4, <1>5

(* deleteOldRefreshTokens selects what is there.                             *)
LEMMA LoginListInv ==
  ASSUME AuthInv, NEW c \in Calls, LoginList(c)
  PROVE  AuthInv'
  <1> USE DEF AuthInv
  <1>1. TypeOK'
    BY DEF TypeOK, LoginList, Skip, TokensOf, Goto, Steps, Pairs, storeVars, pruneVars, callVars
  <1>2. CallsStand'
    BY DEF TypeOK, CallsStand, LoginList, Skip, TokensOf, Goto, Steps, Bearing, Pairs, storeVars, pruneVars, callVars
  <1>3. PairsOwned'
    BY DEF TypeOK, CallsStand, PairsOwned, LoginList, Skip, TokensOf, Goto, Steps, Bearing, Pairs, storeVars, pruneVars, callVars
  <1>4. StaleStaysRevoked'
    BY DEF TypeOK, StaleStaysRevoked, Revoked, LoginList, Skip, TokensOf, Goto, AtUser, AtToken, storeVars, pruneVars, callVars
  <1>5. ClosedAreQuiet'
    BY DEF TypeOK, ClosedAreQuiet, LogoutEndsSession, CallsStand, LoginList, Skip, TokensOf, Goto, storeVars, pruneVars, callVars
  <1> QED BY <1>1, <1>2, <1>3, <1>4, <1>5

(* deleteOldRefreshTokens removes tokens, so a revoked pair stays revoked.   *)
LEMMA LoginPruneInv ==
  ASSUME AuthInv, NEW c \in Calls, LoginPrune(c)
  PROVE  AuthInv'
  <1> USE DEF AuthInv
  <1>1. TypeOK'
    BY DEF TypeOK, LoginPrune, Goto, Steps, Pairs, storeVars, pruneVars, callVars
  <1>2. CallsStand'
    BY DEF TypeOK, CallsStand, LoginPrune, Goto, Steps, Bearing, Pairs, storeVars, pruneVars, callVars
  <1>3. PairsOwned'
    BY DEF TypeOK, CallsStand, PairsOwned, LoginPrune, Goto, Steps, Bearing, Pairs, storeVars, pruneVars, callVars
  <1>4. StaleStaysRevoked'
    BY DEF TypeOK, StaleStaysRevoked, Revoked, LoginPrune, Goto, AtUser, AtToken, storeVars, pruneVars, callVars
  <1>5. ClosedAreQuiet'
    BY DEF TypeOK, ClosedAreQuiet, LogoutEndsSession, CallsStand, LoginPrune, Goto, storeVars, pruneVars, callVars
  <1> QED BY <1>1, <1>2, <1>3, <1>4, <1>5

(* A request comes with the pair of its browser, revoked or not.             *)
LEMMA ArriveInv ==
  ASSUME AuthInv, NEW c \in Calls, NEW b \in Browsers, NEW first \in AtUser, Arrive(c, b, first)
  PROVE  AuthInv'
  <1> USE DEF AuthInv
  <1>1. TypeOK'
    <2>1. jar[b] \in [user: Users, token: Tokens \cup {None}]
      BY PairType DEF Arrive, TypeOK
    <2>2. stale' \in [Calls -> BOOLEAN]
      BY DEF Arrive, Revoked, TypeOK
    <2> QED
      BY <2>1, <2>2 DEF TypeOK, Arrive, AtUser, Goto, Steps, storeVars, pruneVars
  <1>2. CallsStand'
    BY DEF TypeOK, CallsStand, Arrive, AtUser, Goto, Steps, Bearing, Pairs, storeVars, pruneVars, callVars
  <1>3. PairsOwned'
    BY DEF TypeOK, CallsStand, PairsOwned, Arrive, AtUser, Goto, Steps, Bearing, Pairs, storeVars, pruneVars, callVars
  <1>4. StaleStaysRevoked'
    BY DEF TypeOK, StaleStaysRevoked, Revoked, Arrive, AtUser, Goto, AtUser, AtToken, storeVars, pruneVars, callVars
  <1>5. ClosedAreQuiet'
    BY DEF TypeOK, ClosedAreQuiet, LogoutEndsSession, CallsStand, Arrive, AtUser, Goto, storeVars, pruneVars, callVars
  <1> QED BY <1>1, <1>2, <1>3, <1>4, <1>5

(* A logout removes a token.                                                 *)
LEMMA LogoutDeleteInv ==
  ASSUME AuthInv, NEW c \in Calls, LogoutDelete(c)
  PROVE  AuthInv'
  <1> USE DEF AuthInv
  <1>1. TypeOK'
    BY DEF TypeOK, LogoutDelete, Goto, Steps, Pairs, storeVars, pruneVars, callVars
  <1>2. CallsStand'
    BY DEF TypeOK, CallsStand, LogoutDelete, Goto, Steps, Bearing, Pairs, storeVars, pruneVars, callVars
  <1>3. PairsOwned'
    BY DEF TypeOK, CallsStand, PairsOwned, LogoutDelete, Goto, Steps, Bearing, Pairs, storeVars, pruneVars, callVars
  <1>4. StaleStaysRevoked'
    BY DEF TypeOK, StaleStaysRevoked, Revoked, LogoutDelete, Goto, AtUser, AtToken, storeVars, pruneVars, callVars
  <1>5. ClosedAreQuiet'
    BY DEF TypeOK, ClosedAreQuiet, LogoutEndsSession, CallsStand, LogoutDelete, Goto, storeVars, pruneVars, callVars
  <1> QED BY <1>1, <1>2, <1>3, <1>4, <1>5

(* The answer of a login or refresh gives its browser an owned pair.         *)
LEMMA AnswerInv ==
  ASSUME AuthInv, NEW c \in Calls, Answer(c)
  PROVE  AuthInv'
  <1> USE DEF AuthInv
  <1>1. TypeOK'
    <2>1. pair[c] \in Pairs /\ browser[c] \in Browsers
      BY DEF Answer, CallsStand, Bearing, Steps
    <2>2. jar' \in [Browsers -> Pairs \cup {None}]
      BY <2>1 DEF Answer, TypeOK
    <2>3. End(c)
      BY DEF Answer
    <2> QED
      BY <2>2, <2>3, EndType DEF TypeOK, Answer, storeVars
  <1>2. CallsStand'
    BY DEF TypeOK, CallsStand, Answer, End, Goto, Steps, Bearing, Pairs, storeVars, pruneVars, callVars
  <1>3. PairsOwned'
    BY DEF TypeOK, CallsStand, PairsOwned, Answer, End, Goto, Steps, Bearing, Pairs, storeVars, pruneVars, callVars
  <1>4. StaleStaysRevoked'
    BY DEF TypeOK, StaleStaysRevoked, Revoked, Answer, End, Goto, AtUser, AtToken, storeVars, pruneVars, callVars
  <1>5. ClosedAreQuiet'
    BY DEF TypeOK, ClosedAreQuiet, LogoutEndsSession, CallsStand, Answer, End, Goto, storeVars, pruneVars, callVars
  <1> QED BY <1>1, <1>2, <1>3, <1>4, <1>5

(* The answer of a logout leaves its browser without cookies.                *)
LEMMA ClearedInv ==
  ASSUME AuthInv, NEW c \in Calls, AnswerCleared(c)
  PROVE  AuthInv'
  <1> USE DEF AuthInv
  <1>1. TypeOK'
    <2>1. browser[c] \in Browsers
      BY DEF AnswerCleared, CallsStand
    <2>2. jar' \in [Browsers -> Pairs \cup {None}]
      BY <2>1 DEF AnswerCleared, ClearCookies, TypeOK
    <2>3. closed' \subseteq Browsers
      BY <2>1 DEF AnswerCleared, TypeOK
    <2>4. End(c)
      BY DEF AnswerCleared
    <2> QED
      BY <2>2, <2>3, <2>4, EndType DEF TypeOK, AnswerCleared, storeVars
  <1>2. CallsStand'
    BY DEF TypeOK, CallsStand, AnswerCleared, ClearCookies, End, Goto, Steps, Bearing, Pairs, storeVars, pruneVars, callVars
  <1>3. PairsOwned'
    BY DEF TypeOK, CallsStand, PairsOwned, AnswerCleared, ClearCookies, End, Goto, Steps, Bearing, Pairs, storeVars, pruneVars, callVars
  <1>4. StaleStaysRevoked'
    BY DEF TypeOK, StaleStaysRevoked, Revoked, AnswerCleared, ClearCookies, End, Goto, AtUser, AtToken, storeVars, pruneVars, callVars
  <1>5. ClosedAreQuiet'
    BY DEF TypeOK, ClosedAreQuiet, LogoutEndsSession, CallsStand, AnswerCleared, ClearCookies, End, Goto, storeVars, pruneVars, callVars
  <1> QED BY <1>1, <1>2, <1>3, <1>4, <1>5

(* A call that fails ends.                                                   *)
LEMMA FailInv ==
  ASSUME AuthInv, NEW c \in Calls, Fail(c)
  PROVE  AuthInv'
  <1> USE DEF AuthInv
  <1>1. TypeOK'
    BY DEF TypeOK, Fail, End, Goto, Steps, Pairs, storeVars, pruneVars, callVars
  <1>2. CallsStand'
    BY DEF TypeOK, CallsStand, Fail, End, Goto, Steps, Bearing, Pairs, storeVars, pruneVars, callVars
  <1>3. PairsOwned'
    BY DEF TypeOK, CallsStand, PairsOwned, Fail, End, Goto, Steps, Bearing, Pairs, storeVars, pruneVars, callVars
  <1>4. StaleStaysRevoked'
    BY DEF TypeOK, StaleStaysRevoked, Revoked, Fail, End, Goto, AtUser, AtToken, storeVars, pruneVars, callVars
  <1>5. ClosedAreQuiet'
    BY DEF TypeOK, ClosedAreQuiet, LogoutEndsSession, CallsStand, Fail, End, Goto, storeVars, pruneVars, callVars
  <1> QED BY <1>1, <1>2, <1>3, <1>4, <1>5

(* Removing a user revokes pairs and renews none.                            *)
LEMMA DeleteUserInv ==
  ASSUME AuthInv, NEW u \in Users, DeleteUser(u)
  PROVE  AuthInv'
  <1> USE DEF AuthInv
  <1>1. TypeOK'
    BY DEF TypeOK, DeleteUser, Goto, Steps, Pairs, storeVars, pruneVars, callVars
  <1>2. CallsStand'
    BY DEF TypeOK, CallsStand, DeleteUser, Goto, Steps, Bearing, Pairs, storeVars, pruneVars, callVars
  <1>3. PairsOwned'
    BY DEF TypeOK, CallsStand, PairsOwned, DeleteUser, Goto, Steps, Bearing, Pairs, storeVars, pruneVars, callVars
  <1>4. StaleStaysRevoked'
    BY DEF TypeOK, StaleStaysRevoked, Revoked, DeleteUser, Goto, AtUser, AtToken, storeVars, pruneVars, callVars
  <1>5. ClosedAreQuiet'
    BY DEF TypeOK, ClosedAreQuiet, LogoutEndsSession, CallsStand, DeleteUser, Goto, storeVars, pruneVars, callVars
  <1> QED BY <1>1, <1>2, <1>3, <1>4, <1>5

(* A new token: its owner is the user of the login or of the checked pair,   *)
(* and no revoked pair names it.                                             *)
LEMMA CreateInv ==
  ASSUME AuthInv, NEW c \in Calls, NEW at \in {"created", "answer"},
         step[c] \in {"login", "refresh"},
         generateAndCreateOne(c, pair[c].user), Goto(c, at),
         UNCHANGED <<users, jar, browser, stale, list, seen, closed>>
  PROVE  AuthInv'
  <1> USE DEF AuthInv
  <1>1. pair[c].user \in Users
    BY DEF CallsStand, Bearing, Steps, Pairs
  <1>2. PICK t \in Tokens :
          /\ owner[t] = None /\ t \notin stored
          /\ stored' = stored \cup {t}
          /\ owner' = [owner EXCEPT ![t] = pair[c].user]
          /\ createdAt' \in [Tokens -> Nat]
          /\ pair' = [pair EXCEPT ![c] = [user |-> pair[c].user, token |-> t]]
          /\ unpruned' = unpruned \cup {t}
    BY <1>1, CreateEffect
  <1>3. step' = [step EXCEPT ![c] = at] /\ at \in Bearing
    BY DEF Goto, Bearing, Steps
  <1>4. [user |-> pair[c].user, token |-> t] \in Pairs
    BY <1>1 DEF Pairs
  <1>5. TypeOK'
    <2>1. pair' \in [Calls -> [user: Users, token: Tokens \cup {None}] \cup {None}]
      BY <1>2, <1>4, PairType DEF TypeOK
    <2>2. owner' \in [Tokens -> Users \cup {None}]
      BY <1>1, <1>2 DEF TypeOK
    <2> QED BY <1>2, <1>3, <2>1, <2>2 DEF TypeOK, Bearing
  <1>6. CallsStand'
    <2> SUFFICES ASSUME NEW d \in Calls
                 PROVE  /\ step'[d] # "idle" => browser[d] \in Browsers
                        /\ step'[d] = "login" => pair'[d].user \in Users
                        /\ step'[d] \in Bearing => pair'[d] \in Pairs
      BY DEF CallsStand
    <2>1. CASE d = c
      BY <1>2, <1>3, <1>4, <2>1 DEF TypeOK, CallsStand, Bearing
    <2>2. CASE d # c
      BY <1>2, <1>3, <2>2 DEF TypeOK, CallsStand
    <2> QED BY <2>1, <2>2
  <1>7. PairsOwned'
    <2>1. \A r \in Tokens : owner[r] # None => owner'[r] = owner[r]
      BY <1>2 DEF TypeOK
    <2>2. ASSUME NEW b \in Browsers, jar[b] # None
          PROVE  owner'[jar[b].token] = jar[b].user
      <3>1. jar[b] \in Pairs /\ owner[jar[b].token] = jar[b].user
        BY <2>2 DEF TypeOK, PairsOwned
      <3> QED BY <2>1, <3>1 DEF Pairs
    <2>3. ASSUME NEW d \in Calls, step'[d] \in Bearing
          PROVE  owner'[pair'[d].token] = pair'[d].user
      <3>1. CASE d = c
        BY <1>1, <1>2, <3>1 DEF TypeOK
      <3>2. CASE d # c
        <4>1. pair'[d] = pair[d] /\ step[d] \in Bearing
          BY <1>2, <1>3, <2>3, <3>2 DEF TypeOK
        <4>2. pair[d] \in Pairs /\ owner[pair[d].token] = pair[d].user
          BY <4>1 DEF CallsStand, PairsOwned
        <4> QED BY <2>1, <4>1, <4>2 DEF Pairs
      <3> QED BY <3>1, <3>2
    <2>4. \A r \in stored' : owner'[r] # None
      BY <1>1, <1>2 DEF TypeOK, PairsOwned
    <2> QED BY <2>2, <2>3, <2>4 DEF PairsOwned
  <1>8. StaleStaysRevoked'
    <2> SUFFICES ASSUME NEW d \in Calls, stale[d]
                 PROVE  /\ step'[d] \in AtUser \cup AtToken
                        /\ step'[d] \in AtUser => Revoked(pair[d])'
                        /\ step'[d] \in AtToken => pair'[d].token \notin stored'
      BY DEF StaleStaysRevoked
    <2>1. step[d] \in AtUser \cup AtToken
      BY DEF StaleStaysRevoked
    <2>2. d # c
      BY <2>1 DEF AtUser, AtToken
    <2>3. step'[d] = step[d] /\ pair'[d] = pair[d]
      BY <1>2, <1>3, <2>2 DEF TypeOK
    <2>4. pair[d] \in Pairs /\ owner[pair[d].token] = pair[d].user
      BY <2>1, StepSets DEF CallsStand, PairsOwned
    <2>5. pair[d].token # t
      BY <1>2, <2>4 DEF Pairs
    <2> QED BY <1>2, <2>1, <2>3, <2>5 DEF StaleStaysRevoked, Revoked
  <1>9. ClosedAreQuiet'
    BY <1>3 DEF TypeOK, ClosedAreQuiet, LogoutEndsSession
  <1> QED BY <1>5, <1>6, <1>7, <1>8, <1>9

(* A guard's first lookup: the user of a revoked pair that gets further is   *)
(* there, so its token is gone.                                              *)
LEMMA GuardUserInv ==
  ASSUME AuthInv, NEW c \in Calls, NEW at \in AtUser, NEW next \in AtToken,
         GuardUser(c, at, next)
  PROVE  AuthInv'
  <1> USE DEF AuthInv
  <1>1. step[c] = at /\ step' = [step EXCEPT ![c] = next]
    BY DEF GuardUser, Goto
  <1>2. UNCHANGED <<storeVars, jar, browser, pair, stale, pruneVars, closed>>
    BY DEF GuardUser
  <1>3. TypeOK'
    BY <1>1, <1>2, StepSets DEF TypeOK, storeVars, pruneVars
  <1>4. CallsStand' /\ PairsOwned'
    BY <1>1, <1>2, StepSets DEF TypeOK, CallsStand, PairsOwned, storeVars, AtToken
  <1>5. StaleStaysRevoked'
    BY <1>1, <1>2, StepSets DEF TypeOK, StaleStaysRevoked, Revoked, storeVars, GuardUser
  <1>6. ClosedAreQuiet'
    BY <1>1, <1>2 DEF TypeOK, ClosedAreQuiet, LogoutEndsSession, AtUser
  <1> QED BY <1>3, <1>4, <1>5, <1>6

(* A guard's second lookup: no revoked pair gets past it.                    *)
LEMMA GuardTokenInv ==
  ASSUME AuthInv, NEW c \in Calls, NEW at \in AtToken, NEW next \in Inside,
         GuardToken(c, at, next)
  PROVE  AuthInv'
  <1> USE DEF AuthInv
  <1>1. step[c] = at /\ step' = [step EXCEPT ![c] = next]
    BY DEF GuardToken, Goto
  <1>2. UNCHANGED <<storeVars, jar, browser, pair, stale, pruneVars, closed>>
    BY DEF GuardToken
  <1>3. TypeOK'
    BY <1>1, <1>2, StepSets DEF TypeOK, storeVars, pruneVars
  <1>4. CallsStand' /\ PairsOwned'
    BY <1>1, <1>2, StepSets DEF TypeOK, CallsStand, PairsOwned, storeVars, Inside
  <1>5. ~stale[c]
    BY <1>1 DEF GuardToken, TokenFound, StaleStaysRevoked
  <1>6. StaleStaysRevoked'
    BY <1>1, <1>2, <1>5 DEF TypeOK, StaleStaysRevoked, Revoked, storeVars
  <1>7. ClosedAreQuiet'
    BY <1>1, <1>2 DEF TypeOK, ClosedAreQuiet, LogoutEndsSession, AtToken
  <1> QED BY <1>3, <1>4, <1>6, <1>7
-----------------------------------------------------------------------------
LEMMA AuthInit == Init => AuthInv
  BY DEF Init, AuthInv, TypeOK, Steps, CallsStand, Bearing, PairsOwned,
     StaleStaysRevoked, ClosedAreQuiet, LogoutEndsSession

LEMMA AuthStep ==
  ASSUME AuthInv, [Next]_vars
  PROVE  AuthInv'
  <1>1. ASSUME NEW c \in Calls, LoginStep(c)
        PROVE  AuthInv'
    <2>1. CASE LoginCreate(c)
      BY <2>1, CreateInv DEF LoginCreate
    <2> QED BY <1>1, <2>1, LoginInv, LoginListInv, LoginPruneInv DEF LoginStep
  <1>2. ASSUME NEW c \in Calls, Access(c)
        PROVE  AuthInv'
    BY <1>2, ArriveInv, GuardUserInv, GuardTokenInv DEF Access, AtUser, AtToken, Inside
  <1>3. ASSUME NEW c \in Calls, Refresh(c)
        PROVE  AuthInv'
    <2>1. CASE RefreshCreate(c)
      BY <2>1, CreateInv DEF RefreshCreate
    <2> QED
      BY <1>3, <2>1, ArriveInv, GuardUserInv, GuardTokenInv
      DEF Refresh, AtUser, AtToken, Inside
  <1>4. ASSUME NEW c \in Calls, Logout(c)
        PROVE  AuthInv'
    BY <1>4, ArriveInv, GuardUserInv, GuardTokenInv, LogoutDeleteInv
    DEF Logout, AtUser, AtToken, Inside
  <1>5. ASSUME NEW c \in Calls, Answer(c) \/ AnswerCleared(c) \/ Fail(c)
        PROVE  AuthInv'
    BY <1>5, AnswerInv, ClearedInv, FailInv
  <1>6. CASE UNCHANGED vars
    BY <1>6 DEF vars, storeVars, callVars, pruneVars, AuthInv, TypeOK, CallsStand,
       PairsOwned, StaleStaysRevoked, Revoked, ClosedAreQuiet, LogoutEndsSession
  <1> QED
    BY <1>1, <1>2, <1>3, <1>4, <1>5, <1>6, DeleteUserInv DEF Next

LEMMA AuthInvariant == Spec => []AuthInv
  BY AuthInit, AuthStep, PTL DEF Spec

(* The types of the variables, whatever the constants.                       *)
THEOREM AuthTypeCorrect == Spec => []TypeOK
  BY AuthInvariant, PTL DEF AuthInv

(* Nobody gets past a guard with a pair that was revoked before the request  *)
(* came, for any number of users, browsers, tokens and concurrent requests   *)
(* (JwtStrategy.validate, JwtRefreshTokenStrategy.validate).                 *)
THEOREM RevokedRefused == Spec => []RevokedMeansRefused
  <1>1. AuthInv => RevokedMeansRefused
    BY StepSets DEF AuthInv, StaleStaysRevoked, RevokedMeansRefused, Inside
  <1> QED BY <1>1, AuthInvariant, PTL

(* A logout that overlaps no other request of its browser leaves the browser *)
(* without cookies until it logs in again (logOut).                          *)
THEOREM LogoutEnds == Spec => []LogoutEndsSession
  <1>1. AuthInv => LogoutEndsSession
    BY DEF AuthInv, ClosedAreQuiet
  <1> QED BY <1>1, AuthInvariant, PTL
-----------------------------------------------------------------------------
(* Pruning: what a prune leaves and what a login answers, for any number of  *)
(* tokens and of overlapping logins.                                         *)
USE MaxTokensAssumption

(* Tokens are told apart by when they were created.                          *)
Created == Tokens \ Fresh
InOrder ==
  /\ \A t \in Created : createdAt[t] <= Cardinality(Created)
  /\ \A s, t \in Created : createdAt[s] = createdAt[t] => s = t

(* The tokens of t's user that are newer than t; their number only grows.    *)
Later(t) == {s \in Tokens : owner[s] = owner[t] /\ createdAt[s] > createdAt[t]}

(* What a login has listed for its prune: all but MaxTokens of the tokens of *)
(* its user, each with MaxTokens newer ones.                                 *)
Listed == {c \in Calls : step[c] = "listed"}
ListsAreRight ==
  \A c \in Listed :
    /\ \A t \in seen[c] : owner[t] = pair[c].user
    /\ list[c] \subseteq seen[c]
    /\ Cardinality(seen[c] \ list[c]) <= MaxTokens
    /\ \A t \in list[c] : Cardinality(Later(t)) >= MaxTokens

(* Of two logins of a user that have listed, the later one has seen all that *)
(* the earlier one saw and that is still stored; a login that has pruned has *)
(* looked at all that a login before it saw, or at nothing else.             *)
Looked(u) == TokensOf(u) \ unpruned
ListsAreNested ==
  /\ \A c, d \in Listed : pair[c].user = pair[d].user =>
       seen[c] \cap stored \subseteq seen[d] \/ seen[d] \cap stored \subseteq seen[c]
  /\ \A c \in Listed :
       \/ Looked(pair[c].user) \subseteq seen[c]
       \/ seen[c] \cap stored \subseteq Looked(pair[c].user)

(* Until a token is answered nobody else names it.                           *)
Pending == {c \in Calls : step[c] \in {"created", "listed", "answer"}}
PendingAreUnknown ==
  \A c \in Pending :
    /\ \A b \in Browsers : jar[b] # None => jar[b].token # pair[c].token
    /\ \A d \in Calls \ {c} : step[d] \in Bearing => pair[d].token # pair[c].token
AnswersStand ==
  \A c \in Pending :
    pair[c].token \in stored \/ Cardinality(Later(pair[c].token)) >= MaxTokens

PruneInv ==
  /\ InOrder
  /\ ListsAreRight
  /\ ListsAreNested
  /\ PruneBounds
  /\ PendingAreUnknown
  /\ AnswersStand

(* Sets of tokens are finite.                                                *)
LEMMA TokenSets ==
  ASSUME NEW T \in SUBSET Tokens
  PROVE  /\ IsFiniteSet(T) /\ Cardinality(T) \in Nat
         /\ \A S \in SUBSET T : Cardinality(S) \in Nat /\ Cardinality(S) <= Cardinality(T)
<1>1. IsFiniteSet(T) /\ Cardinality(T) \in Nat
  BY FS_Subset, FS_CardinalityType
<1>2. ASSUME NEW S \in SUBSET T
      PROVE  Cardinality(S) \in Nat /\ Cardinality(S) <= Cardinality(T)
  BY <1>1, FS_Subset, FS_CardinalityType
<1> QED BY <1>1, <1>2

(* Without those that have n newer ones, n are left at most: the others      *)
(* differ in how many newer ones they have.                                  *)
LEMMA SkipKeepsFew ==
  ASSUME NEW S \in SUBSET Tokens, createdAt \in [Tokens -> Nat], NEW n \in Nat,
         \A s, t \in S : createdAt[s] = createdAt[t] => s = t
  PROVE  Cardinality(S \ Skip(S, n)) <= n
<1> DEFINE T == S \ Skip(S, n)
           f == [t \in T |-> Cardinality(Newer(S, t))]
<1>1. \A t \in S : Newer(S, t) \in SUBSET Tokens /\ Cardinality(Newer(S, t)) \in Nat
  BY TokenSets DEF Newer
<1>2. f \in [T -> 0..(n - 1)]
  BY <1>1 DEF Skip
<1>3. IsFiniteSet(0..(n - 1)) /\ Cardinality(0..(n - 1)) = n
  BY FS_Interval
<1>4. IsFiniteSet(T) /\ Cardinality(T) \in Nat
  BY TokenSets
<1>5. ASSUME NEW s \in T, NEW t \in T, createdAt[s] < createdAt[t]
      PROVE  f[s] # f[t]
  <2>1. Newer(S, t) \cup {t} \subseteq Newer(S, s) /\ t \notin Newer(S, t)
    BY <1>5 DEF Newer
  <2>2. IsFiniteSet(Newer(S, t)) /\ Newer(S, s) \in SUBSET Tokens
    BY <1>1, TokenSets
  <2>3. Cardinality(Newer(S, t) \cup {t}) = Cardinality(Newer(S, t)) + 1
    BY <2>1, <2>2, FS_AddElement
  <2>4. Cardinality(Newer(S, t) \cup {t}) <= Cardinality(Newer(S, s))
    BY <2>1, <2>2, TokenSets
  <2> QED BY <1>1, <2>3, <2>4
<1>6. ASSUME NEW s \in T, NEW t \in T, s # t
      PROVE  f[s] # f[t]
  <2>1. createdAt[s] \in Nat /\ createdAt[t] \in Nat /\ createdAt[s] # createdAt[t]
    BY <1>6
  <2>2. createdAt[s] < createdAt[t] \/ createdAt[t] < createdAt[s]
    BY <2>1
  <2> HIDE DEF f, T
  <2> QED BY <1>5, <2>2
<1>7. ~(Cardinality(0..(n - 1)) < Cardinality(T))
  <2> HIDE DEF f, T
  <2> QED BY <1>2, <1>3, <1>4, <1>6, FS_PigeonHole
<1> QED BY <1>3, <1>4, <1>7
-----------------------------------------------------------------------------
(* The steps as they bear on the tokens.  A step of no token leaves each     *)
(* call that waits to answer or to prune as it is, gives a call no pair but  *)
(* that of a browser, and a browser none but the one a call answers with.    *)
SameCall(d) ==
  /\ step'[d] = step[d] /\ pair'[d] = pair[d]
  /\ list'[d] = list[d] /\ seen'[d] = seen[d]
SameTokens == UNCHANGED <<stored, owner, createdAt, unpruned>>
OtherStep(c) ==
  /\ SameTokens
  /\ \A d \in Calls \ {c} : SameCall(d)
  /\ step'[c] \notin {"created", "listed", "answer"}
  /\ step'[c] \in Bearing =>
       \/ step[c] \in Bearing \ {"created", "listed", "answer"} /\ pair'[c] = pair[c]
       \/ \E b \in Browsers : jar[b] # None /\ pair'[c] = jar[b]
  /\ \A b \in Browsers : jar'[b] # None =>
       jar'[b] = jar[b] \/ (step[c] = "answer" /\ jar'[b] = pair[c])

LEMMA OtherSteps ==
  ASSUME AuthInv, NEW c \in Calls,
         \/ \E b \in Browsers : Login(c, b)
         \/ \E b \in Browsers, first \in AtUser : Arrive(c, b, first)
         \/ \E at \in AtUser, next \in AtToken : GuardUser(c, at, next)
         \/ \E at \in AtToken, next \in Inside : GuardToken(c, at, next)
         \/ Answer(c) \/ AnswerCleared(c) \/ Fail(c)
  PROVE  OtherStep(c)
<1> USE DEF AuthInv, TypeOK, OtherStep, SameCall, SameTokens, storeVars, pruneVars,
            Bearing, Steps
<1>1. ASSUME NEW b \in Browsers, Login(c, b)
      PROVE  OtherStep(c)
  BY <1>1 DEF Login, Goto
<1>2. ASSUME NEW b \in Browsers, NEW first \in AtUser, Arrive(c, b, first)
      PROVE  OtherStep(c)
  BY <1>2 DEF Arrive, Goto, AtUser
<1>3. ASSUME NEW at \in AtUser, NEW next \in AtToken, GuardUser(c, at, next)
      PROVE  OtherStep(c)
  BY <1>3 DEF GuardUser, Goto, AtUser, AtToken
<1>4. ASSUME NEW at \in AtToken, NEW next \in Inside, GuardToken(c, at, next)
      PROVE  OtherStep(c)
  BY <1>4 DEF GuardToken, Goto, AtToken, Inside
<1>5. CASE Answer(c)
  BY <1>5 DEF Answer, End, CallsStand
<1>6. CASE AnswerCleared(c)
  BY <1>6 DEF AnswerCleared, ClearCookies, End, CallsStand
<1>7. CASE Fail(c)
  BY <1>7 DEF Fail, End
<1> HIDE DEF OtherStep
<1> QED BY <1>1, <1>2, <1>3, <1>4, <1>5, <1>6, <1>7

LEMMA OtherPruneInv ==
  ASSUME AuthInv, PruneInv, NEW c \in Calls, OtherStep(c)
  PROVE  PruneInv'
<1> USE DEF PruneInv
<1>1. Listed' \subseteq Listed /\ Pending' \subseteq Pending /\ c \notin Listed' /\ c \notin Pending'
      /\ \A d \in Listed' \cup Pending' : SameCall(d)
  BY DEF OtherStep, SameCall, Listed, Pending
<1>2. InOrder' /\ PruneBounds'
  BY DEF OtherStep, SameTokens, InOrder, Created, Fresh, PruneBounds, TokensOf
<1>3. \A t : Later(t)' = Later(t)
  BY DEF OtherStep, SameTokens, Later
<1>4. ListsAreRight'
  BY <1>1, <1>3 DEF OtherStep, SameTokens, SameCall, ListsAreRight
<1>5. ListsAreNested'
  BY <1>1 DEF OtherStep, SameTokens, SameCall, ListsAreNested, Looked, TokensOf
<1>6. AnswersStand'
  BY <1>1, <1>3 DEF OtherStep, SameTokens, SameCall, AnswersStand
<1>7. PendingAreUnknown'
  <2> SUFFICES ASSUME NEW d \in Pending'
               PROVE  /\ \A b \in Browsers : jar'[b] # None => jar'[b].token # pair'[d].token
                      /\ \A e \in Calls \ {d} :
                           step'[e] \in Bearing => pair'[e].token # pair'[d].token
    BY DEF PendingAreUnknown
  <2>1. d \in Pending /\ pair'[d] = pair[d] /\ d # c /\ d \in Calls
    BY <1>1 DEF SameCall, Pending
  <2>2. \A b \in Browsers : jar'[b] # None => jar'[b].token # pair'[d].token
    BY <2>1 DEF OtherStep, PendingAreUnknown, Bearing, Steps
  <2>3. \A e \in Calls \ {d} : step'[e] \in Bearing => pair'[e].token # pair'[d].token
    BY <2>1 DEF OtherStep, SameCall, PendingAreUnknown
  <2> QED BY <2>2, <2>3
<1> QED BY <1>2, <1>4, <1>5, <1>6, <1>7

(* A new token is the newest and known to nobody; it is looked at by no      *)
(* login that has listed.                                                    *)
LEMMA CreatePruneInv ==
  ASSUME AuthInv, PruneInv, NEW c \in Calls, NEW at \in {"created", "answer"},
         step[c] \in {"login", "refresh"},
         generateAndCreateOne(c, pair[c].user), Goto(c, at),
         UNCHANGED <<users, jar, browser, stale, list, seen, closed>>
  PROVE  PruneInv'
<1> USE DEF PruneInv
<1> DEFINE u == pair[c].user
<1>1. u \in Users
  BY DEF AuthInv, CallsStand, Bearing, Steps, Pairs
<1>2. PICK t \in Fresh :
        /\ stored' = stored \cup {t}
        /\ owner' = [owner EXCEPT ![t] = u]
        /\ createdAt' = [createdAt EXCEPT ![t] = Cardinality(Created) + 1]
        /\ pair' = [pair EXCEPT ![c] = [user |-> u, token |-> t]]
        /\ unpruned' = unpruned \cup {t}
  BY DEF generateAndCreateOne, Entity, Created
<1> HIDE DEF u
<1>3. t \in Tokens /\ owner[t] = None /\ t \notin stored /\ t \notin Created
  BY <1>2 DEF Fresh, Created, AuthInv, PairsOwned
<1>4. step' = [step EXCEPT ![c] = at]
  BY DEF Goto
<1>5. /\ owner'[t] = u /\ pair'[c].token = t /\ pair'[c].user = u
      /\ \A s \in Tokens \ {t} : owner'[s] = owner[s] /\ createdAt'[s] = createdAt[s]
      /\ \A d \in Calls \ {c} : step'[d] = step[d] /\ pair'[d] = pair[d]
  BY <1>2, <1>3, <1>4 DEF AuthInv, TypeOK
<1>6. Created' = Created \cup {t}
  BY <1>1, <1>3, <1>5 DEF Created, Fresh
<1>7. /\ IsFiniteSet(Created) /\ Cardinality(Created) \in Nat
      /\ Cardinality(Created') = Cardinality(Created) + 1
  BY <1>3, <1>6, TokenSets, FS_AddElement DEF Created
<1>8. InOrder'
  <2>1. createdAt'[t] = Cardinality(Created) + 1
    BY <1>2, <1>3 DEF AuthInv, TypeOK
  <2>2. \A s \in Created :
          s # t /\ createdAt'[s] = createdAt[s] /\ createdAt[s] <= Cardinality(Created) /\ createdAt[s] \in Nat
    BY <1>3, <1>5 DEF InOrder, Created, AuthInv, TypeOK
  <2>3. \A s \in Created' : createdAt'[s] <= Cardinality(Created')
    BY <1>6, <1>7, <2>1, <2>2
  <2>4. ASSUME NEW r \in Created', NEW s \in Created', createdAt'[r] = createdAt'[s]
        PROVE  r = s
    BY <1>6, <1>7, <2>1, <2>2, <2>4 DEF InOrder
  <2> QED BY <2>3, <2>4 DEF InOrder
<1>9. \A s \in Created : Later(s) \subseteq Later(s)' /\ Later(s)' \subseteq Tokens
  BY <1>3, <1>5 DEF Later, Created, Fresh
<1>10. \A s \in Created : Cardinality(Later(s)) >= MaxTokens => Cardinality(Later(s)') >= MaxTokens
  <2> SUFFICES ASSUME NEW s \in Created, Cardinality(Later(s)) >= MaxTokens
               PROVE  Cardinality(Later(s)') >= MaxTokens
    OBVIOUS
  <2>1. Later(s)' \in SUBSET Tokens /\ Later(s) \in SUBSET (Later(s)')
    BY <1>9
  <2>2. Cardinality(Later(s)) \in Nat /\ Cardinality(Later(s)') \in Nat
        /\ Cardinality(Later(s)) <= Cardinality(Later(s)')
    BY <2>1, TokenSets
  <2> QED BY <2>2
<1>11. Listed' = Listed /\ Pending' \subseteq Pending \cup {c} /\ c \notin Listed
       /\ \A d \in Listed : pair'[d] = pair[d]
  BY <1>4, <1>5 DEF Listed, Pending, AuthInv, TypeOK
<1>12. ListsAreRight'
  <2> SUFFICES ASSUME NEW d \in Listed
               PROVE  /\ \A s \in seen[d] : owner'[s] = pair[d].user
                      /\ list[d] \subseteq seen[d]
                      /\ Cardinality(seen[d] \ list[d]) <= MaxTokens
                      /\ \A s \in list[d] : Cardinality(Later(s)') >= MaxTokens
    BY <1>11 DEF ListsAreRight
  <2>1. d \in Calls /\ seen[d] \subseteq Tokens /\ pair[d] \in Pairs
    BY DEF Listed, AuthInv, TypeOK, CallsStand, Bearing, Steps
  <2>2. /\ \A s \in seen[d] : owner[s] = pair[d].user
        /\ list[d] \subseteq seen[d]
        /\ Cardinality(seen[d] \ list[d]) <= MaxTokens
        /\ \A s \in list[d] : Cardinality(Later(s)) >= MaxTokens
    BY DEF ListsAreRight
  <2>3. \A s \in seen[d] : s \in Created /\ s # t
    BY <1>3, <2>1, <2>2 DEF Created, Fresh, Pairs
  <2> QED BY <1>5, <1>10, <2>1, <2>2, <2>3
<1>13. \A v \in Users : Looked(v)' = Looked(v)
  BY <1>2, <1>3, <1>5 DEF Looked, TokensOf, AuthInv, TypeOK
<1>14. ListsAreNested'
  <2>1. \A d \in Listed : /\ d \in Calls /\ pair[d].user \in Users
                          /\ seen[d] \cap stored' = seen[d] \cap stored
    <3> SUFFICES ASSUME NEW d \in Listed
                 PROVE  /\ d \in Calls /\ pair[d].user \in Users
                        /\ seen[d] \cap stored' = seen[d] \cap stored
      OBVIOUS
    <3>1. d \in Calls /\ pair[d] \in Pairs /\ pair[d].user \in Users
      BY DEF Listed, AuthInv, CallsStand, Bearing, Steps, Pairs
    <3>2. t \notin seen[d]
      BY <1>3, <3>1 DEF ListsAreRight
    <3> QED BY <1>2, <3>1, <3>2
  <2> QED BY <1>11, <1>13, <2>1 DEF ListsAreNested
<1>15. PruneBounds'
  BY <1>13 DEF PruneBounds, Looked
<1>16. \A d \in Calls : step[d] \in Bearing => pair[d].token # t /\ pair[d].token \in Created
  <2> SUFFICES ASSUME NEW d \in Calls, step[d] \in Bearing
               PROVE  pair[d].token # t /\ pair[d].token \in Created
    OBVIOUS
  <2>1. pair[d] \in Pairs /\ owner[pair[d].token] = pair[d].user
    BY DEF AuthInv, CallsStand, PairsOwned
  <2> QED BY <1>3, <2>1 DEF Pairs, Created, Fresh
<1>17. \A b \in Browsers : jar[b] # None => jar[b].token # t
  <2> SUFFICES ASSUME NEW b \in Browsers, jar[b] # None
               PROVE  jar[b].token # t
    OBVIOUS
  <2>1. jar[b] \in Pairs /\ owner[jar[b].token] = jar[b].user
    BY DEF AuthInv, TypeOK, PairsOwned
  <2> QED BY <1>3, <2>1 DEF Pairs
<1>18. \A d \in Pending : d \in Calls /\ step[d] \in Bearing
  BY DEF Pending, Bearing, Steps
<1>19. PendingAreUnknown'
  <2> SUFFICES ASSUME NEW d \in Pending'
               PROVE  /\ \A b \in Browsers : jar[b] # None => jar[b].token # pair'[d].token
                      /\ \A e \in Calls \ {d} :
                           step'[e] \in Bearing => pair'[e].token # pair'[d].token
    BY DEF PendingAreUnknown
  <2>1. CASE d = c
    BY <1>5, <1>16, <1>17, <2>1
  <2>2. CASE d # c
    <3>1. d \in Pending /\ pair'[d] = pair[d] /\ pair[d].token # t
      BY <1>5, <1>11, <1>16, <1>18, <2>2
    <3> QED BY <1>5, <1>18, <3>1 DEF PendingAreUnknown
  <2> QED BY <2>1, <2>2
<1>20. AnswersStand'
  <2> SUFFICES ASSUME NEW d \in Pending'
               PROVE  (pair[d].token \in stored \/ Cardinality(Later(pair[d].token)) >= MaxTokens)'
    BY DEF AnswersStand
  <2>1. CASE d = c
    BY <1>2, <1>5, <2>1
  <2>2. CASE d # c
    <3>1. d \in Pending /\ pair'[d] = pair[d] /\ pair[d].token \in Created
      BY <1>5, <1>11, <1>16, <1>18, <2>2
    <3>2. PICK s \in Created : s = pair[d].token
      BY <3>1
    <3>3. s \in stored' \/ Cardinality(Later(s)') >= MaxTokens
      BY <1>2, <1>10, <3>1, <3>2 DEF AnswersStand
    <3>4. Later(pair[d].token)' = Later(s)'
      BY <3>1, <3>2 DEF Later
    <3> QED BY <3>1, <3>2, <3>3, <3>4
  <2> QED BY <2>1, <2>2
<1> QED BY <1>8, <1>12, <1>14, <1>15, <1>19, <1>20

(* The list of a login: all tokens of its user, of which MaxTokens are kept. *)
LEMMA ListPruneInv ==
  ASSUME AuthInv, PruneInv, NEW c \in Calls, LoginList(c)
  PROVE  PruneInv'
<1> USE DEF PruneInv
<1> DEFINE u == pair[c].user
           mine == TokensOf(u)
<1>1. /\ step[c] = "created"
      /\ step' = [step EXCEPT ![c] = "listed"]
      /\ list' = [list EXCEPT ![c] = Skip(mine, MaxTokens)]
      /\ seen' = [seen EXCEPT ![c] = mine]
      /\ UNCHANGED <<stored, owner, createdAt, jar, pair, unpruned>>
  BY DEF LoginList, Goto, storeVars
<1>2. mine \subseteq stored /\ stored \subseteq Tokens /\ \A t \in mine : owner[t] = u
  BY DEF TokensOf, AuthInv, TypeOK
<1>3. u \in Users
  BY <1>1 DEF AuthInv, CallsStand, Bearing, Steps, Pairs
<1>4. mine \subseteq Created
  BY <1>2, <1>3 DEF Created, Fresh
<1>5. InOrder' /\ PruneBounds' /\ \A t : Later(t)' = Later(t)
  BY <1>1 DEF InOrder, Created, Fresh, PruneBounds, TokensOf, Later
<1>6. /\ Listed' = Listed \cup {c} /\ c \notin Listed
      /\ seen'[c] = mine /\ list'[c] = Skip(mine, MaxTokens)
      /\ \A d \in Listed : seen'[d] = seen[d] /\ list'[d] = list[d]
      /\ Pending' = Pending
      /\ \A d \in Calls : step'[d] \in Bearing => step[d] \in Bearing
  BY <1>1 DEF Listed, Pending, Bearing, Steps, AuthInv, TypeOK
<1>7. Cardinality(mine \ Skip(mine, MaxTokens)) <= MaxTokens
  <2>1. mine \in SUBSET Tokens /\ createdAt \in [Tokens -> Nat]
        /\ \A s, t \in mine : createdAt[s] = createdAt[t] => s = t
    BY <1>2, <1>4 DEF InOrder, AuthInv, TypeOK
  <2> HIDE DEF mine
  <2> QED BY <2>1, SkipKeepsFew
<1>8. ASSUME NEW t \in Skip(mine, MaxTokens)
      PROVE  t \in mine /\ Cardinality(Later(t)) >= MaxTokens
  <2>1. t \in mine /\ Cardinality(Newer(mine, t)) >= MaxTokens
    BY <1>8 DEF Skip
  <2>2. Newer(mine, t) \in SUBSET Later(t) /\ Later(t) \in SUBSET Tokens
    BY <1>2, <2>1 DEF Newer, Later
  <2>3. /\ Cardinality(Newer(mine, t)) \in Nat /\ Cardinality(Later(t)) \in Nat
        /\ Cardinality(Newer(mine, t)) <= Cardinality(Later(t))
    BY <2>2, TokenSets
  <2> QED BY <2>1, <2>3
<1>9. ListsAreRight'
  <2>1. /\ \A t \in mine : owner[t] = pair[c].user
        /\ Skip(mine, MaxTokens) \subseteq mine
    BY <1>2 DEF Skip
  <2> HIDE DEF mine, u
  <2> SUFFICES ASSUME NEW d \in Listed'
               PROVE  /\ \A t \in seen'[d] : owner[t] = pair[d].user
                      /\ list'[d] \subseteq seen'[d]
                      /\ Cardinality(seen'[d] \ list'[d]) <= MaxTokens
                      /\ \A t \in list'[d] : Cardinality(Later(t)) >= MaxTokens
    BY <1>1, <1>5 DEF ListsAreRight
  <2>2. CASE d = c
    BY <1>6, <1>7, <1>8, <2>1, <2>2
  <2>3. CASE d # c
    <3>1. d \in Listed /\ seen'[d] = seen[d] /\ list'[d] = list[d]
      BY <1>6, <2>3
    <3> QED BY <3>1 DEF ListsAreRight
  <2> QED BY <2>2, <2>3
<1>10. ListsAreNested'
  <2>1. \A d \in Listed : pair[d].user = u => seen[d] \cap stored \subseteq mine
    BY DEF ListsAreRight, TokensOf
  <2>2. Looked(u) \subseteq mine
    BY DEF Looked
  <2>3. \A v : Looked(v)' = Looked(v)
    BY <1>1 DEF Looked, TokensOf
  <2> HIDE DEF mine, u
  <2>4. \A d, e \in Listed' : pair[d].user = pair[e].user =>
          seen'[d] \cap stored \subseteq seen'[e] \/ seen'[e] \cap stored \subseteq seen'[d]
    BY <1>6, <2>1 DEF ListsAreNested, u
  <2>5. \A d \in Listed' :
          \/ Looked(pair[d].user) \subseteq seen'[d]
          \/ seen'[d] \cap stored \subseteq Looked(pair[d].user)
    BY <1>6, <2>2 DEF ListsAreNested, u
  <2> QED BY <1>1, <2>3, <2>4, <2>5 DEF ListsAreNested
<1>11. PendingAreUnknown' /\ AnswersStand'
  BY <1>1, <1>5, <1>6 DEF PendingAreUnknown, AnswersStand
<1> QED BY <1>5, <1>9, <1>10, <1>11

(* The prune of a login: what it drops has MaxTokens newer ones, and what it *)
(* has looked at then is what it keeps, or what was looked at before.        *)
LEMMA PruningInv ==
  ASSUME AuthInv, PruneInv, NEW c \in Calls, LoginPrune(c)
  PROVE  PruneInv'
<1> USE DEF PruneInv
<1> DEFINE u == pair[c].user
<1>1. /\ step[c] = "listed" /\ c \in Listed
      /\ step' = [step EXCEPT ![c] = "answer"]
      /\ stored' = stored \ list[c]
      /\ unpruned' = unpruned \ seen[c]
      /\ UNCHANGED <<owner, createdAt, jar, pair, list, seen>>
  BY DEF LoginPrune, Goto, Listed
<1>2. /\ list[c] \subseteq seen[c] /\ seen[c] \subseteq Tokens
      /\ \A t \in seen[c] : owner[t] = u
      /\ Cardinality(seen[c] \ list[c]) <= MaxTokens
  BY <1>1 DEF ListsAreRight, AuthInv, TypeOK
<1>3. InOrder' /\ \A t : Later(t)' = Later(t)
  BY <1>1 DEF InOrder, Created, Fresh, Later
<1>4. Listed' = Listed \ {c} /\ Pending' = Pending
      /\ \A d \in Calls : step'[d] \in Bearing => step[d] \in Bearing
  BY <1>1 DEF Listed, Pending, Bearing, Steps, AuthInv, TypeOK
<1>5. ListsAreRight'
  BY <1>1, <1>3, <1>4 DEF ListsAreRight
<1>6. Looked(u)' = (Looked(u) \cup (seen[c] \cap stored)) \ list[c]
  BY <1>1, <1>2 DEF Looked, TokensOf
<1>7. \A v : v # u => Looked(v)' = Looked(v)
  BY <1>1, <1>2 DEF Looked, TokensOf
<1> HIDE DEF u
<1>8. Looked(u)' \subseteq seen[c] \ list[c] \/ Looked(u)' \subseteq Looked(u)
  BY <1>1, <1>6 DEF ListsAreNested, u
<1>9. PruneBounds'
  <2> SUFFICES ASSUME NEW v \in Users
               PROVE  Cardinality(Looked(v)') <= MaxTokens
    BY DEF PruneBounds, Looked
  <2>1. Cardinality(Looked(v)) <= MaxTokens /\ Looked(v) \in SUBSET Tokens
        /\ seen[c] \ list[c] \in SUBSET Tokens
    BY <1>2 DEF PruneBounds, Looked, TokensOf, AuthInv, TypeOK
  <2>2. CASE v = u
    <3>1. Looked(v)' = Looked(u)' /\ Looked(v) = Looked(u)
      BY <1>1, <2>2 DEF Looked, TokensOf, u
    <3>2. \A S, T \in SUBSET Tokens :
            S \subseteq T /\ Cardinality(T) <= MaxTokens => Cardinality(S) <= MaxTokens
      BY TokenSets
    <3>3. Looked(u)' \in SUBSET Tokens
      BY <1>2, <1>6, <2>1, <3>1
    <3> QED BY <1>2, <1>8, <2>1, <3>1, <3>2, <3>3
  <2>3. CASE v # u
    BY <1>1, <1>2, <2>1, <2>3 DEF Looked, TokensOf, u
  <2> QED BY <2>2, <2>3
<1>10. ListsAreNested'
  <2>1. \A d, e \in Listed' : pair[d].user = pair[e].user =>
          seen[d] \cap stored' \subseteq seen[e] \/ seen[e] \cap stored' \subseteq seen[d]
    BY <1>1, <1>4 DEF ListsAreNested
  <2>2. ASSUME NEW d \in Listed'
        PROVE  \/ Looked(pair[d].user)' \subseteq seen[d]
               \/ seen[d] \cap stored' \subseteq Looked(pair[d].user)'
    <3>1. d \in Listed
      BY <1>4
    <3>2. CASE pair[d].user = u
      <4>1. \/ seen[c] \cap stored \subseteq seen[d]
            \/ seen[d] \cap stored \subseteq seen[c]
        BY <1>1, <3>1, <3>2 DEF ListsAreNested, u
      <4>2. Looked(u) \subseteq seen[d] \/ seen[d] \cap stored \subseteq Looked(u)
        BY <3>1, <3>2 DEF ListsAreNested
      <4>3. Looked(u)' \subseteq seen[d] \/ seen[d] \cap stored' \subseteq Looked(u)'
        BY <1>1, <1>6, <4>1, <4>2
      <4>4. Looked(pair[d].user)' = Looked(u)'
        BY <1>1, <3>2 DEF Looked, TokensOf, u
      <4> QED BY <4>3, <4>4
    <3>3. CASE pair[d].user # u
      <4>1. Looked(pair[d].user)' = Looked(pair[d].user)
        BY <1>1, <1>2, <3>3 DEF Looked, TokensOf, u
      <4> QED BY <1>1, <3>1, <4>1 DEF ListsAreNested
    <3> QED BY <3>2, <3>3
  <2> QED BY <1>1, <2>1, <2>2 DEF ListsAreNested
<1>11. PendingAreUnknown'
  BY <1>1, <1>4 DEF PendingAreUnknown
<1>12. AnswersStand'
  BY <1>1, <1>3, <1>4 DEF AnswersStand, ListsAreRight
<1> QED BY <1>3, <1>5, <1>9, <1>10, <1>11, <1>12

(* A logout drops a token no call waits to answer with.                      *)
LEMMA LogoutPruneInv ==
  ASSUME AuthInv, PruneInv, NEW c \in Calls, LogoutDelete(c)
  PROVE  PruneInv'
<1> USE DEF PruneInv
<1>1. /\ step[c] = "logout"
      /\ step' = [step EXCEPT ![c] = "cleared"]
      /\ stored' \in {stored, stored \ {pair[c].token}}
      /\ UNCHANGED <<owner, createdAt, jar, pair, list, seen, unpruned>>
  BY DEF LogoutDelete, Goto, pruneVars
<1>2. InOrder' /\ \A t : Later(t)' = Later(t)
  BY <1>1 DEF InOrder, Created, Fresh, Later
<1>3. /\ Listed' = Listed /\ Pending' = Pending /\ c \notin Pending
      /\ \A d \in Calls : step'[d] \in Bearing => step[d] \in Bearing
  BY <1>1 DEF Listed, Pending, Bearing, Steps, AuthInv, TypeOK
<1>4. ListsAreRight'
  BY <1>1, <1>2, <1>3 DEF ListsAreRight
<1>5. stored' \subseteq stored
  BY <1>1
<1>6. \A v : Looked(v)' = Looked(v) \cap stored'
  BY <1>1, <1>5 DEF Looked, TokensOf
<1>7. PruneBounds'
  <2> SUFFICES ASSUME NEW v \in Users
               PROVE  Cardinality(Looked(v)') <= MaxTokens
    BY DEF PruneBounds, Looked
  <2>1. Cardinality(Looked(v)) <= MaxTokens /\ Looked(v) \in SUBSET Tokens
    BY DEF PruneBounds, Looked, TokensOf, AuthInv, TypeOK
  <2>2. Looked(v)' \in SUBSET Looked(v)
    BY <1>1, <1>5 DEF Looked, TokensOf
  <2> QED BY <2>1, <2>2, TokenSets
<1>8. ListsAreNested'
  <2>1. \A d, e \in Listed : pair[d].user = pair[e].user =>
          seen[d] \cap stored' \subseteq seen[e] \/ seen[e] \cap stored' \subseteq seen[d]
    BY <1>5 DEF ListsAreNested
  <2>2. ASSUME NEW d \in Listed
        PROVE  \/ Looked(pair[d].user)' \subseteq seen[d]
               \/ seen[d] \cap stored' \subseteq Looked(pair[d].user)'
    <3>1. \/ Looked(pair[d].user) \subseteq seen[d]
          \/ seen[d] \cap stored \subseteq Looked(pair[d].user)
      BY DEF ListsAreNested
    <3>2. Looked(pair[d].user)' = Looked(pair[d].user) \cap stored'
      BY <1>1, <1>5 DEF Looked, TokensOf
    <3> QED BY <1>5, <3>1, <3>2
  <2> QED BY <1>1, <1>3, <2>1, <2>2 DEF ListsAreNested
<1>9. PendingAreUnknown'
  BY <1>1, <1>3 DEF PendingAreUnknown
<1>10. AnswersStand'
  <2> SUFFICES ASSUME NEW d \in Pending
               PROVE  pair[d].token \in stored' \/ Cardinality(Later(pair[d].token)) >= MaxTokens
    BY <1>1, <1>2, <1>3 DEF AnswersStand
  <2>1. d \in Calls /\ c # d /\ step[c] \in Bearing
    BY <1>1, <1>3 DEF Pending, Bearing, Steps
  <2>2. pair[c].token # pair[d].token
    BY <2>1 DEF PendingAreUnknown
  <2> QED BY <1>1, <2>2 DEF AnswersStand
<1> QED BY <1>2, <1>4, <1>7, <1>8, <1>9, <1>10

(* A step that leaves the tokens, the cookies and the calls alone.           *)
LEMMA UntouchedPruneInv ==
  ASSUME PruneInv, UNCHANGED <<stored, owner, createdAt, jar, callVars, pruneVars>>
  PROVE  PruneInv'
<1> USE DEF callVars, pruneVars
<1>1. Listed' = Listed /\ Pending' = Pending /\ \A t : Later(t)' = Later(t)
  BY DEF Listed, Pending, Later
<1> QED BY <1>1 DEF PruneInv, InOrder, Created, Fresh, ListsAreRight, ListsAreNested, Looked,
        PruneBounds, TokensOf, PendingAreUnknown, AnswersStand
-----------------------------------------------------------------------------
LEMMA PruneInit == Init => PruneInv
<1> SUFFICES ASSUME Init
             PROVE  PruneInv
  OBVIOUS
<1>1. Created = {} /\ Listed = {} /\ Pending = {}
  BY DEF Init, Created, Fresh, Listed, Pending
<1>2. PruneBounds
  <2> SUFFICES ASSUME NEW u \in Users
               PROVE  Cardinality(TokensOf(u) \ unpruned) <= MaxTokens
    BY DEF PruneBounds
  <2>1. TokensOf(u) \ unpruned = {} /\ Cardinality({}) = 0
    BY FS_EmptySet DEF Init, TokensOf
  <2> QED BY <2>1
<1> QED BY <1>1, <1>2 DEF PruneInv, InOrder, ListsAreRight, ListsAreNested,
        PendingAreUnknown, AnswersStand

LEMMA PruneStep ==
  ASSUME AuthInv, PruneInv, [Next]_vars
  PROVE  PruneInv'
<1>1. ASSUME NEW c \in Calls, LoginStep(c)
      PROVE  PruneInv'
  <2>1. CASE \E b \in Browsers : Login(c, b)
    BY <2>1, OtherSteps, OtherPruneInv
  <2>2. CASE LoginCreate(c)
    BY <2>2, CreatePruneInv DEF LoginCreate
  <2>3. CASE LoginList(c)
    BY <2>3, ListPruneInv
  <2>4. CASE LoginPrune(c)
    BY <2>4, PruningInv
  <2> QED BY <1>1, <2>1, <2>2, <2>3, <2>4 DEF LoginStep
<1>2. ASSUME NEW c \in Calls, NEW first \in AtUser, \E b \in Browsers : Arrive(c, b, first)
      PROVE  PruneInv'
  BY <1>2, OtherSteps, OtherPruneInv
<1>3. ASSUME NEW c \in Calls, NEW at \in AtUser, NEW next \in AtToken, GuardUser(c, at, next)
      PROVE  PruneInv'
  BY <1>3, OtherSteps, OtherPruneInv
<1>4. ASSUME NEW c \in Calls, NEW at \in AtToken, NEW next \in Inside, GuardToken(c, at, next)
      PROVE  PruneInv'
  BY <1>4, OtherSteps, OtherPruneInv
<1>5. ASSUME NEW c \in Calls, Access(c)
      PROVE  PruneInv'
  BY <1>2, <1>3, <1>4, <1>5 DEF Access, AtUser, AtToken, Inside
<1>6. ASSUME NEW c \in Calls, Refresh(c)
      PROVE  PruneInv'
  <2>1. CASE RefreshCreate(c)
    BY <2>1, CreatePruneInv DEF RefreshCreate
  <2> QED BY <1>2, <1>3, <1>4, <1>6, <2>1 DEF Refresh, AtUser, AtToken, Inside
<1>7. ASSUME NEW c \in Calls, Logout(c)
      PROVE  PruneInv'
  <2>1. CASE LogoutDelete(c)
    BY <2>1, LogoutPruneInv
  <2> QED BY <1>2, <1>3, <1>4, <1>7, <2>1 DEF Logout, AtUser, AtToken, Inside
<1>8. ASSUME NEW c \in Calls, Answer(c) \/ AnswerCleared(c) \/ Fail(c)
      PROVE  PruneInv'
  BY <1>8, OtherSteps, OtherPruneInv
<1>9. ASSUME NEW u \in Users, DeleteUser(u)
      PROVE  PruneInv'
  BY <1>9, UntouchedPruneInv DEF DeleteUser
<1>10. CASE UNCHANGED vars
  BY <1>10, UntouchedPruneInv DEF vars, storeVars
<1> QED BY <1>1, <1>5, <1>6, <1>7, <1>8, <1>9, <1>10 DEF Next

LEMMA PruneInvariant == Spec => []PruneInv
<1>1. Spec => []AuthInv
  BY AuthInvariant
<1>2. AuthInv /\ PruneInv /\ [Next]_vars => PruneInv'
  BY PruneStep
<1> QED BY <1>1, <1>2, PruneInit, PTL DEF Spec

(* Of the tokens a finished login has looked at no user keeps more than      *)
(* MaxTokens, however many logins list and prune across each other           *)
(* (deleteOldRefreshTokens).                                                 *)
THEOREM PruningBounds == Spec => []PruneBounds
<1>1. PruneInv => PruneBounds
  BY DEF PruneInv
<1> QED BY <1>1, PruneInvariant, PTL

(* A login or refresh answers with a stored token, or MaxTokens newer ones   *)
(* of the same user came before the answer (generateAndCreateOne, then       *)
(* deleteOldRefreshTokens).                                                  *)
THEOREM AnswersAreLive == Spec => []AnswersLiveToken
<1>1. PruneInv => AnswersLiveToken
  BY DEF PruneInv, AnswersStand, AnswersLiveToken, Pending, Later
<1> QED BY <1>1, PruneInvariant, PTL
=============================================================================
