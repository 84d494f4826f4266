---------------------------- MODULE LimitAttempts ----------------------------
(* The attempt limit of a login (LimitAttemptsGuard): a counter per          *)
(* identifier in the cache, read in one await and written in another.  The   *)
(* cache is in memory, so its answers come before the event loop turns to    *)
(* anything else: attempts that arrive together take their steps in turn,    *)
(* all read before the first one writes, and nothing else arrives and no     *)
(* time passes until they are done.  An attempt without an identifier is not *)
(* counted and does not appear here.                                         *)
EXTENDS Naturals, FiniteSets

CONSTANTS
  Identifiers,  \* what attempts are counted by: the email of the body
  Attempts,     \* slots for attempts that arrive together
  maxAttempts,  \* the limit
  ttlSeconds,   \* how long the cache keeps a counter
  None          \* no identifier, or no counter

ASSUME LimitAssumption == maxAttempts \in Nat \ {0} /\ ttlSeconds \in Nat \ {0}
ASSUME NoneAssumption == None \notin Identifiers \cup Nat
ASSUME AttemptsAssumption == IsFiniteSet(Attempts)

VARIABLES
  counter,     \* the cached count of each identifier, None if there is none
  left,        \* the seconds it still stands
  identifier,  \* whose attempt each slot holds
  attempts,    \* the count it has read
  alone,       \* has it overlapped no other attempt of its identifier?
  deciding,    \* has one of those that arrived together decided already?
  recent,      \* the ages in seconds of the last attempts granted alone, newest first
  chain        \* attempts granted without a pause longer than ttlSeconds

cacheVars == <<counter, left>>
attemptVars == <<identifier, attempts, alone, deciding>>
vars == <<cacheVars, attemptVars, recent, chain>>

Ages == 0 .. ttlSeconds
Positions == 1 .. maxAttempts + 1

TypeOK ==
  /\ counter \in [Identifiers -> Nat \cup {None}]
  /\ left \in [Identifiers -> Ages]
  /\ identifier \in [Attempts -> Identifiers \cup {None}]
  /\ attempts \in [Attempts -> Nat]
  /\ alone \in [Attempts -> BOOLEAN]
  /\ deciding \in BOOLEAN
  /\ recent \in [Identifiers -> [Positions -> Ages \cup {None}]]
  /\ chain \in [Identifiers -> Nat]

Together(a, i) == {b \in Attempts \ {a} : identifier[b] = i}
-----------------------------------------------------------------------------
(* The guard.                                                                *)

\* canActivate: the count is read, 0 if there is none.
Get(a, i) ==
  /\ ~deciding
  /\ identifier[a] = None
  /\ identifier' = [identifier EXCEPT ![a] = i]
  /\ attempts' = [attempts EXCEPT ![a] = IF counter[i] = None THEN 0 ELSE counter[i]]
  /\ alone' = [b \in Attempts |-> IF b = a THEN Together(a, i) = {}
                                           ELSE alone[b] /\ identifier[b] # i]
  /\ UNCHANGED <<deciding, cacheVars, recent, chain>>

Leave(a) ==
  /\ deciding' = (\E b \in Attempts \ {a} : identifier[b] # None)
  /\ identifier' = [identifier EXCEPT ![a] = None]
  /\ attempts' = [attempts EXCEPT ![a] = 0]
  /\ alone' = [alone EXCEPT ![a] = FALSE]

\* canActivate: too many; the counter is left alone.
CountRefused(i) == counter' = [counter EXCEPT ![i] = @ + 1] /\ UNCHANGED left
Renew(i) == left' = [left EXCEPT ![i] = ttlSeconds] /\ UNCHANGED counter
LeaveAlone(i) == UNCHANGED cacheVars
OverLimit(n) == n > maxAttempts
AtLimit(n) == n >= maxAttempts
Refuse(a) ==
  /\ identifier[a] # None
  /\ AtLimit(attempts[a])
  /\ LeaveAlone(identifier[a])
  /\ Leave(a)
  /\ UNCHANGED <<recent, chain>>

\* canActivate: the count that was read, and one more, stands for ttlSeconds.
SetOnce(i, n) ==
  /\ counter' = [counter EXCEPT ![i] = n]
  /\ left' = [left EXCEPT ![i] = IF counter[i] = None THEN ttlSeconds ELSE @]
set(i, n) ==
  /\ counter' = [counter EXCEPT ![i] = n]
  /\ left' = [left EXCEPT ![i] = ttlSeconds]
Newest(ages) == [n \in Positions |-> IF n = 1 THEN 0 ELSE ages[n - 1]]
Grant(a) ==
  /\ identifier[a] # None
  /\ ~AtLimit(attempts[a])
  /\ LET i == identifier[a] IN
     /\ set(i, attempts[a] + 1)
     /\ recent' = [recent EXCEPT ![i] = IF alone[a] THEN Newest(@) ELSE @]
     /\ chain' = [chain EXCEPT ![i] = @ + 1]
  /\ Leave(a)
-----------------------------------------------------------------------------
\* What is older than ttlSeconds is forgotten.
Older(age) == IF age \in {None, ttlSeconds} THEN None ELSE age + 1

\* A second passes; the cache drops a counter that has stood for longer than
\* its time.
Expired(i) == counter[i] # None /\ left[i] = 0
Second ==
  /\ \A a \in Attempts : identifier[a] = None
  /\ counter' = [i \in Identifiers |-> IF Expired(i) THEN None ELSE counter[i]]
  /\ left' = [i \in Identifiers |-> IF left[i] = 0 THEN 0 ELSE left[i] - 1]
  /\ recent' = [i \in Identifiers |-> [n \in Positions |-> Older(recent[i][n])]]
  /\ chain' = [i \in Identifiers |-> IF left[i] = 0 THEN 0 ELSE chain[i]]
  /\ UNCHANGED attemptVars

Init ==
  /\ counter = [i \in Identifiers |-> None]
  /\ left = [i \in Identifiers |-> 0]
  /\ identifier = [a \in Attempts |-> None]
  /\ attempts = [a \in Attempts |-> 0]
  /\ alone = [a \in Attempts |-> FALSE]
  /\ deciding = FALSE
  /\ recent = [i \in Identifiers |-> [n \in Positions |-> None]]
  /\ chain = [i \in Identifiers |-> 0]

Decide(a) == Refuse(a) \/ Grant(a)
Next ==
  \/ \E a \in Attempts : Decide(a) \/ \E i \in Identifiers : Get(a, i)
  \/ Second

Spec == Init /\ [][Next]_vars

(* Every attempt is decided, for the cache always answers, and time passes   *)
(* although attempts keep coming: it waits for their decisions only.         *)
FairSpec ==
  /\ Spec
  /\ \A a \in Attempts : WF_vars(Decide(a))
  /\ SF_vars(Second)
-----------------------------------------------------------------------------
(* Properties.                                                               *)

(* "Max maxAttempts attempts per ttlSeconds seconds": in no stretch of so    *)
(* many seconds are more attempts of an identifier granted that overlapped   *)
(* no other, although every one of them starts the time anew.                *)
WindowBound == \A i \in Identifiers : recent[i][maxAttempts + 1] = None

(* Nobody is locked out early: the counter is at most the number of attempts *)
(* granted without a longer pause, overlapping or not, and refused ones are  *)
(* not counted.                                                              *)
LockIsEarned ==
  \A i \in Identifiers : counter[i] # None => counter[i] <= chain[i]

(* Attempts that arrive together count once, so more than maxAttempts may    *)
(* get through, but never more than as many times maxAttempts as can arrive  *)
(* together, without a pause longer than ttlSeconds.                         *)
OverlapsAreBounded ==
  \A i \in Identifiers : chain[i] <= maxAttempts * Cardinality(Attempts)

(* A lock opens again, however often the locked identifier is tried.         *)
Locked(i) == counter[i] # None /\ AtLimit(counter[i])
LockOpens == \A i \in Identifiers : Locked(i) ~> ~Locked(i)
=============================================================================
