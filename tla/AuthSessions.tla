---------------------------- MODULE AuthSessions ----------------------------
(* Login sessions: the user_refresh_tokens collection, the cookies of the    *)
(* browsers, and the requests that create, check and remove tokens (login,   *)
(* refresh-tokens, logout, and any request behind JwtAuthGuard).  An access  *)
(* and a refresh token name the same user and the same stored token, so one  *)
(* pair stands for both.  Requests of one or of several browsers interleave  *)
(* at every await; a crash of the process is the failure of all of them.     *)
EXTENDS Naturals, FiniteSets

CONSTANTS
  Users,      \* user ids, never reused
  Browsers,   \* cookie jars
  Tokens,     \* ids of refresh-token documents, never reused
  Calls,      \* slots for concurrent requests
  MaxTokens,  \* maxCountOfRefreshTokens
  None        \* no user, token or pair

Pairs == [user: Users, token: Tokens]

ASSUME NoneAssumption == None \notin Users \cup Tokens \cup Pairs
ASSUME TokensAssumption == IsFiniteSet(Tokens)
ASSUME MaxTokensAssumption == MaxTokens \in Nat \ {0}

VARIABLES
  users,      \* users in the collection
  stored,     \* the refresh tokens in the collection
  owner,      \* the user each token was created for, None if not yet
  createdAt,  \* the order in which tokens were created, 0 if not yet
  jar,        \* the pair in each browser's cookies
  step,       \* where each request stands
  browser,    \* the browser it came from
  pair,       \* the pair it carries, then the pair it answers
  list,       \* the tokens deleteOldRefreshTokens has selected
  seen,       \* the tokens of the user that were stored then
  stale,      \* was its pair revoked, or its user gone, when it arrived?
  unpruned,   \* tokens no finished pruning has looked at yet
  closed      \* browsers whose last request to be answered was a logout that
              \* overlapped no other request of theirs

storeVars == <<users, stored, owner, createdAt>>
pruneVars == <<list, seen, unpruned>>
callVars == <<step, browser, pair, stale>>
vars == <<storeVars, jar, callVars, pruneVars, closed>>

Steps == {"idle", "login", "created", "listed", "answer",
          "access.user", "access.token", "access",
          "refresh.user", "refresh.token", "refresh",
          "logout.user", "logout.token", "logout", "cleared"}

TypeOK ==
  /\ users \subseteq Users
  /\ stored \subseteq Tokens
  /\ owner \in [Tokens -> Users \cup {None}]
  /\ createdAt \in [Tokens -> Nat]
  /\ jar \in [Browsers -> Pairs \cup {None}]
  /\ step \in [Calls -> Steps]
  /\ browser \in [Calls -> Browsers \cup {None}]
  /\ pair \in [Calls -> [user: Users, token: Tokens \cup {None}] \cup {None}]
  /\ list \in [Calls -> SUBSET Tokens]
  /\ seen \in [Calls -> SUBSET Tokens]
  /\ stale \in [Calls -> BOOLEAN]
  /\ unpruned \subseteq Tokens
  /\ closed \subseteq Browsers
-----------------------------------------------------------------------------
(* The collection of refresh tokens.                                         *)

TokensOf(u) == {t \in stored : owner[t] = u}
Fresh == {t \in Tokens : owner[t] = None}
Newer(S, t) == {s \in S : createdAt[s] > createdAt[t]}

\* Sorted by createdAt, newest first, without the first n.
OldestFirst(S, n) ==
  {t \in S : Cardinality({s \in S : createdAt[s] < createdAt[t]}) >= n}
SkipOneMore(S, n) == {t \in S : Cardinality(Newer(S, t)) > n}
Skip(S, n) == {t \in S : Cardinality(Newer(S, t)) >= n}

\* generateAndCreateOne for user u: the identifier is random, the id new; the
\* answer names both.
NoEntity(u, t) == [user |-> u, token |-> None]
Entity(u, t) == [user |-> u, token |-> t]
generateAndCreateOne(c, u) ==
  \E t \in Fresh :
    /\ stored' = stored \cup {t}
    /\ owner' = [owner EXCEPT ![t] = u]
    /\ createdAt' = [createdAt EXCEPT ![t] = Cardinality(Tokens \ Fresh) + 1]
    /\ pair' = [pair EXCEPT ![c] = Entity(u, t)]
    /\ unpruned' = unpruned \cup {t}

\* A request ends.
End(c) ==
  /\ step' = [step EXCEPT ![c] = "idle"]
  /\ browser' = [browser EXCEPT ![c] = None]
  /\ pair' = [pair EXCEPT ![c] = None]
  /\ stale' = [stale EXCEPT ![c] = FALSE]
  /\ list' = [list EXCEPT ![c] = {}]
  /\ seen' = [seen EXCEPT ![c] = {}]

Goto(c, s) == step' = [step EXCEPT ![c] = s]
-----------------------------------------------------------------------------
(* login.                                                                    *)

\* validateUser and validatePassword succeed; a login they refuse leaves no
\* trace.
Login(c, b) ==
  /\ step[c] = "idle"
  /\ \E u \in users : pair' = [pair EXCEPT ![c] = [user |-> u, token |-> None]]
  /\ Goto(c, "login")
  /\ browser' = [browser EXCEPT ![c] = b]
  /\ closed' = closed \ {b}
  /\ UNCHANGED <<storeVars, jar, stale, pruneVars>>

LoginCreate(c) ==
  /\ step[c] = "login"
  /\ generateAndCreateOne(c, pair[c].user)
  /\ Goto(c, "created")
  /\ UNCHANGED <<users, jar, browser, stale, list, seen, closed>>

\* deleteOldRefreshTokens reads which tokens to drop.
LoginList(c) ==
  /\ step[c] = "created"
  /\ LET mine == TokensOf(pair[c].user) IN
     /\ list' = [list EXCEPT ![c] = Skip(mine, MaxTokens)]
     /\ seen' = [seen EXCEPT ![c] = mine]
  /\ Goto(c, "listed")
  /\ UNCHANGED <<storeVars, jar, browser, pair, stale, unpruned, closed>>

\* deleteOldRefreshTokens drops them.
LoginPrune(c) ==
  /\ step[c] = "listed"
  /\ stored' = stored \ list[c]
  /\ unpruned' = unpruned \ seen[c]
  /\ Goto(c, "answer")
  /\ UNCHANGED <<users, owner, createdAt, jar, browser, pair, stale, list, seen,
                 closed>>
-----------------------------------------------------------------------------
(* Requests behind a guard.                                                  *)

Revoked(p) == p.user \notin users \/ p.token \notin stored

\* The cookies come with the request; a pair that has expired or is not valid
\* is refused at once and leaves no trace.
Arrive(c, b, first) ==
  /\ step[c] = "idle"
  /\ jar[b] # None
  /\ Goto(c, first)
  /\ browser' = [browser EXCEPT ![c] = b]
  /\ pair' = [pair EXCEPT ![c] = jar[b]]
  /\ stale' = [stale EXCEPT ![c] = Revoked(jar[b])]
  /\ UNCHANGED <<storeVars, jar, pruneVars, closed>>

\* validate: validateUser finds the user.
GuardUser(c, at, next) ==
  /\ step[c] = at
  /\ pair[c].user \in users
  /\ Goto(c, next)
  /\ UNCHANGED <<storeVars, jar, browser, pair, stale, pruneVars, closed>>

\* validate: selectOne finds the token of that user.
TokenIgnored(p) == TRUE
TokenFound(p) == p.token \in stored /\ owner[p.token] = p.user
GuardToken(c, at, next) ==
  /\ step[c] = at
  /\ TokenFound(pair[c])
  /\ Goto(c, next)
  /\ UNCHANGED <<storeVars, jar, browser, pair, stale, pruneVars, closed>>

\* Behind JwtAuthGuard.  A token marked isDev would skip the second look-up;
\* nothing in the repository issues one.
Access(c) ==
  \/ \E b \in Browsers : Arrive(c, b, "access.user")
  \/ GuardUser(c, "access.user", "access.token")
  \/ GuardToken(c, "access.token", "access")

\* refresh-tokens, behind JwtRefreshGuard: a new token, the old one stays.
RefreshCreate(c) ==
  /\ step[c] = "refresh"
  /\ generateAndCreateOne(c, pair[c].user)
  /\ Goto(c, "answer")
  /\ UNCHANGED <<users, jar, browser, stale, list, seen, closed>>

Refresh(c) ==
  \/ \E b \in Browsers : Arrive(c, b, "refresh.user")
  \/ GuardUser(c, "refresh.user", "refresh.token")
  \/ GuardToken(c, "refresh.token", "refresh")
  \/ RefreshCreate(c)

\* logOut, behind JwtRefreshGuard: the token goes, unless it is gone already
\* or the store fails; the cookies are cleared either way.
LogoutDelete(c) ==
  /\ step[c] = "logout"
  /\ stored' \in {stored, stored \ {pair[c].token}}
  /\ Goto(c, "cleared")
  /\ UNCHANGED <<users, owner, createdAt, jar, browser, pair, stale, pruneVars,
                 closed>>

Logout(c) ==
  \/ \E b \in Browsers : Arrive(c, b, "logout.user")
  \/ GuardUser(c, "logout.user", "logout.token")
  \/ GuardToken(c, "logout.token", "logout")
  \/ LogoutDelete(c)
-----------------------------------------------------------------------------
(* Answers.                                                                  *)

\* setCookieTokens
Answer(c) ==
  /\ step[c] = "answer"
  /\ jar' = [jar EXCEPT ![browser[c]] = pair[c]]
  /\ End(c)
  /\ UNCHANGED <<storeVars, unpruned, closed>>

\* clearCookie, twice.
ClearNothing(b) == jar
ClearCookies(b) == [jar EXCEPT ![b] = None]
AnswerCleared(c) ==
  /\ step[c] = "cleared"
  /\ jar' = ClearCookies(browser[c])
  /\ closed' = IF \E d \in Calls \ {c} : browser[d] = browser[c]
                 THEN closed ELSE closed \cup {browser[c]}
  /\ End(c)
  /\ UNCHANGED <<storeVars, unpruned>>

\* A refusal, a failing store, a lost answer or a crash: no cookie changes.
Fail(c) ==
  /\ step[c] # "idle"
  /\ End(c)
  /\ UNCHANGED <<storeVars, jar, unpruned, closed>>

\* The administrator removes a user; the tokens stay.
DeleteUser(u) ==
  /\ u \in users
  /\ users' = users \ {u}
  /\ UNCHANGED <<stored, owner, createdAt, jar, callVars, pruneVars, closed>>
-----------------------------------------------------------------------------
Init ==
  /\ users = Users
  /\ stored = {}
  /\ owner = [t \in Tokens |-> None]
  /\ createdAt = [t \in Tokens |-> 0]
  /\ jar = [b \in Browsers |-> None]
  /\ step = [c \in Calls |-> "idle"]
  /\ browser = [c \in Calls |-> None]
  /\ pair = [c \in Calls |-> None]
  /\ list = [c \in Calls |-> {}]
  /\ seen = [c \in Calls |-> {}]
  /\ stale = [c \in Calls |-> FALSE]
  /\ unpruned = {}
  /\ closed = {}

LoginStep(c) ==
  \/ \E b \in Browsers : Login(c, b)
  \/ LoginCreate(c) \/ LoginList(c) \/ LoginPrune(c)

Next ==
  \/ \E c \in Calls :
       \/ LoginStep(c) \/ Access(c) \/ Refresh(c) \/ Logout(c)
       \/ Answer(c) \/ AnswerCleared(c) \/ Fail(c)
  \/ \E u \in Users : DeleteUser(u)

Spec == Init /\ [][Next]_vars
-----------------------------------------------------------------------------
(* Properties.                                                               *)

(* Nobody gets past a guard with a pair whose token had been logged out or   *)
(* pruned, or whose user had been removed, before the request arrived, and   *)
(* so neither reads with it nor renews it (JwtStrategy.validate,             *)
(* JwtRefreshTokenStrategy.validate).                                        *)
RevokedMeansRefused ==
  \A c \in Calls : step[c] \in {"access", "refresh", "logout"} => ~stale[c]

(* Of the tokens a finished login has looked at, no user keeps more than     *)
(* MaxTokens: what exceeds it was created by logins not finished yet, or by  *)
(* refreshes since, which prune nothing.                                     *)
PruneBounds ==
  \A u \in Users : Cardinality(TokensOf(u) \ unpruned) <= MaxTokens

(* A login or refresh answers with a token that is stored, unless MaxTokens  *)
(* newer ones of the same user were created before it answered: pruning      *)
(* drops the oldest, whichever logins its two operations overlap.            *)
AnswersLiveToken ==
  \A c \in Calls : step[c] \in {"created", "listed", "answer"} =>
    LET t == pair[c].token
        newer == {s \in Tokens : owner[s] = owner[t] /\ createdAt[s] > createdAt[t]}
    IN t \in stored \/ Cardinality(newer) >= MaxTokens

(* A browser that has logged out, with nothing else of its own under way,    *)
(* stays without cookies until it logs in again.                             *)
LogoutEndsSession == \A b \in closed : jar[b] = None
=============================================================================
