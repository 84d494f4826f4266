------------------------- MODULE LimitAttemptsProofs -------------------------
(* Proofs about LimitAttempts, for any number of identifiers and attempts,   *)
(* any limit and any time to live.                                           *)
EXTENDS LimitAttempts, FiniteSetTheorems, TLAPS

(* What an attempt has read is a count of attempts granted without a longer  *)
(* pause: none passes while it waits.                                        *)
ReadsAreEarned ==
  \A a \in Attempts :
    identifier[a] # None => attempts[a] <= chain[identifier[a]]

LimitInv == TypeOK /\ LockIsEarned /\ ReadsAreEarned

(* A counter is a number, and its age one of Ages.                           *)
LEMMA LimitTypes ==
  /\ None \notin Identifiers /\ None \notin Nat
  /\ 0 \in Ages /\ ttlSeconds \in Ages
  /\ \A n \in Ages : n \in Nat /\ (n # 0 => n - 1 \in Ages)
  BY LimitAssumption, NoneAssumption DEF Ages

LEMMA LimitInit == Init => LimitInv
<1> SUFFICES ASSUME Init PROVE LimitInv
  OBVIOUS
<1>1. TypeOK
  <2>1. recent \in [Identifiers -> [Positions -> Ages \cup {None}]]
    BY DEF Init
  <2> QED BY <2>1, LimitTypes DEF Init, TypeOK
<1>2. LockIsEarned /\ ReadsAreEarned
  BY LimitTypes DEF Init, LockIsEarned, ReadsAreEarned
<1> QED BY <1>1, <1>2 DEF LimitInv

LEMMA LimitStep == LimitInv /\ [Next]_vars => LimitInv'
<1> SUFFICES ASSUME LimitInv, [Next]_vars PROVE LimitInv'
  OBVIOUS
<1> USE LimitTypes DEF LimitInv
<1>1. ASSUME NEW a \in Attempts, NEW i \in Identifiers, Get(a, i)
      PROVE  LimitInv'
  <2>1. TypeOK'
    BY <1>1 DEF TypeOK, Get, cacheVars
  <2>2. LockIsEarned'
    BY <1>1 DEF TypeOK, LockIsEarned, Get, cacheVars
  <2>3. ReadsAreEarned'
    BY <1>1 DEF TypeOK, LockIsEarned, ReadsAreEarned, Get, cacheVars
  <2> QED BY <2>1, <2>2, <2>3
<1>2. ASSUME NEW a \in Attempts, Refuse(a)
      PROVE  LimitInv'
  <2>1. TypeOK'
    BY <1>2 DEF TypeOK, Refuse, LeaveAlone, Leave, cacheVars
  <2>2. LockIsEarned'
    BY <1>2 DEF LockIsEarned, Refuse, LeaveAlone, cacheVars
  <2>3. ReadsAreEarned'
    BY <1>2 DEF TypeOK, ReadsAreEarned, Refuse, Leave
  <2> QED BY <2>1, <2>2, <2>3
<1>3. ASSUME NEW a \in Attempts, Grant(a)
      PROVE  LimitInv'
  <2> DEFINE i == identifier[a]
  <2>1. i \in Identifiers /\ attempts[a] \in Nat /\ attempts[a] <= chain[i]
    BY <1>3 DEF TypeOK, ReadsAreEarned, Grant
  <2>2. /\ counter' = [counter EXCEPT ![i] = attempts[a] + 1]
        /\ left' = [left EXCEPT ![i] = ttlSeconds]
        /\ chain' = [chain EXCEPT ![i] = @ + 1]
    BY <1>3 DEF Grant, set
  <2>3. TypeOK'
    <3>1. \A ages \in [Positions -> Ages \cup {None}] :
            Newest(ages) \in [Positions -> Ages \cup {None}]
      BY LimitAssumption DEF Newest, Positions
    <3>2. recent' = [recent EXCEPT ![i] = IF alone[a] THEN Newest(@) ELSE @]
      BY <1>3 DEF Grant
    <3>3. recent' \in [Identifiers -> [Positions -> Ages \cup {None}]]
      BY <2>1, <3>1, <3>2 DEF TypeOK
    <3> QED BY <1>3, <2>1, <2>2, <3>3 DEF TypeOK, Grant, Leave
  <2>4. LockIsEarned'
    BY <2>1, <2>2 DEF TypeOK, LockIsEarned
  <2>5. ReadsAreEarned'
    BY <1>3, <2>1, <2>2 DEF TypeOK, ReadsAreEarned, Grant, Leave
  <2> QED BY <2>3, <2>4, <2>5
<1>4. CASE Second
  <2>1. TypeOK'
    <3>1. \A age \in Ages \cup {None} : Older(age) \in Ages \cup {None}
      BY LimitAssumption DEF Older, Ages
    <3>2. recent' \in [Identifiers -> [Positions -> Ages \cup {None}]]
      BY <1>4, <3>1 DEF TypeOK, Second
    <3> QED BY <1>4, <3>2 DEF TypeOK, Second, attemptVars
  <2>2. LockIsEarned'
    BY <1>4 DEF TypeOK, LockIsEarned, Second, Expired
  <2>3. ReadsAreEarned'
    BY <1>4 DEF ReadsAreEarned, Second, attemptVars
  <2> QED BY <2>1, <2>2, <2>3
<1>5. CASE UNCHANGED vars
  BY <1>5 DEF TypeOK, LockIsEarned, ReadsAreEarned, vars, cacheVars, attemptVars
<1> QED BY <1>1, <1>2, <1>3, <1>4, <1>5 DEF Next, Decide

LEMMA LimitInvariant == Spec => []LimitInv
  BY LimitInit, LimitStep, PTL DEF Spec

(* Types of the attempt limit.                                               *)
THEOREM LimitTypeCorrect == Spec => []TypeOK
<1>1. LimitInv => TypeOK
  BY DEF LimitInv
<1> QED BY LimitInvariant, <1>1, PTL

(* No counter ever exceeds the attempts granted without a longer pause, so   *)
(* nobody is refused who has not been granted maxAttempts (canActivate).     *)
THEOREM LocksAreEarned == Spec => []LockIsEarned
<1>1. LimitInv => LockIsEarned
  BY DEF LimitInv
<1> QED BY LimitInvariant, <1>1, PTL
-----------------------------------------------------------------------------
(* How many get through.  Attempts that wait have all read the same count,   *)
(* and each of them that is decided has made room for itself: a count of n   *)
(* stands for as many attempts as can wait together, n times.                *)
Slots == Cardinality(Attempts)
Count(i) == IF counter[i] = None THEN 0 ELSE counter[i]
Waiting == {a \in Attempts : identifier[a] # None}
CountsStayLow == \A i \in Identifiers : Count(i) <= maxAttempts
ReadsAreFresh ==
  ~deciding => \A a \in Waiting : attempts[a] = Count(identifier[a])
CountsCover == \A i \in Identifiers : chain[i] <= Slots * Count(i)
ReadsCover ==
  \A a \in Waiting :
    chain[identifier[a]] <= Slots * attempts[a] + (Slots - Cardinality(Waiting))

OverlapInv == CountsStayLow /\ ReadsAreFresh /\ CountsCover /\ ReadsCover

(* Those who wait fit in the slots, with one less when one is decided.       *)
LEMMA WaitingFits ==
  /\ Slots \in Nat
  /\ \A S \in SUBSET Attempts :
       /\ Cardinality(S) \in Nat /\ Cardinality(S) <= Slots
       /\ \A a \in S : Cardinality(S \ {a}) = Cardinality(S) - 1 /\ Cardinality(S) > 0
<1>1. Slots \in Nat
  BY AttemptsAssumption, FS_CardinalityType DEF Slots
<1>2. ASSUME NEW S \in SUBSET Attempts
      PROVE  IsFiniteSet(S) /\ Cardinality(S) \in Nat /\ Cardinality(S) <= Slots
  BY AttemptsAssumption, FS_Subset, FS_CardinalityType DEF Slots
<1>3. ASSUME NEW S \in SUBSET Attempts, NEW a \in S
      PROVE  Cardinality(S \ {a}) = Cardinality(S) - 1 /\ Cardinality(S) > 0
  <2>1. Cardinality(S \ {a}) = Cardinality(S) - 1
    BY <1>2, <1>3, FS_RemoveElement
  <2>2. Cardinality(S \ {a}) \in Nat /\ Cardinality(S) \in Nat
    BY <1>2
  <2> QED BY <2>1, <2>2
<1> QED BY <1>1, <1>2, <1>3

(* A count of one more stands for one more of each slot.                     *)
LEMMA SlotsTimes ==
  ASSUME NEW s \in Nat, NEW n \in Nat
  PROVE  /\ s * n \in Nat /\ s * (n + 1) = s * n + s
         /\ \A m \in Nat : n <= m => s * n <= s * m
  OBVIOUS

LEMMA OverlapInit == Init => OverlapInv
<1> SUFFICES ASSUME Init PROVE OverlapInv
  OBVIOUS
<1>1. Waiting = {} /\ \A i \in Identifiers : Count(i) = 0 /\ chain[i] = 0
  BY DEF Init, Waiting, Count
<1> QED BY <1>1, LimitAssumption, WaitingFits, SlotsTimes
        DEF OverlapInv, CountsStayLow, ReadsAreFresh, CountsCover, ReadsCover

LEMMA OverlapStep ==
  ASSUME LimitInv, OverlapInv, [Next]_vars
  PROVE  OverlapInv'
<1> USE LimitTypes DEF LimitInv, OverlapInv
<1>1. /\ Waiting \in SUBSET Attempts /\ Slots \in Nat /\ maxAttempts \in Nat
      /\ \A a \in Waiting : identifier[a] \in Identifiers /\ attempts[a] \in Nat
      /\ \A i \in Identifiers : Count(i) \in Nat /\ chain[i] \in Nat
  BY WaitingFits, LimitAssumption DEF Waiting, Count, TypeOK
<1>2. ASSUME NEW a \in Attempts, NEW i \in Identifiers, Get(a, i)
      PROVE  OverlapInv'
  <2>1. /\ ~deciding /\ identifier[a] = None
        /\ identifier' = [identifier EXCEPT ![a] = i]
        /\ attempts' = [attempts EXCEPT ![a] = Count(i)]
        /\ UNCHANGED <<counter, chain, deciding>>
    BY <1>2 DEF Get, Count, cacheVars
  <2>2. \A j : Count(j)' = Count(j)
    BY <2>1 DEF Count
  <2>3. /\ Waiting' \in SUBSET Attempts
        /\ \A b \in Waiting' : /\ attempts'[b] = Count(identifier'[b])
                               /\ identifier'[b] \in Identifiers
    BY <1>1, <2>1 DEF Waiting, ReadsAreFresh, TypeOK
  <2>4. CountsStayLow' /\ CountsCover'
    BY <2>1, <2>2 DEF CountsStayLow, CountsCover, Slots
  <2>5. ReadsAreFresh'
    BY <2>1, <2>3 DEF ReadsAreFresh, Count
  <2>6. ReadsCover'
    <3> SUFFICES ASSUME NEW b \in Waiting'
                 PROVE  chain[identifier'[b]]
                          <= Slots * attempts'[b] + (Slots - Cardinality(Waiting'))
      BY <2>1 DEF ReadsCover, Slots
    <3>1. chain[identifier'[b]] <= Slots * attempts'[b]
      BY <2>3 DEF CountsCover
    <3>2. Cardinality(Waiting') \in Nat /\ Cardinality(Waiting') <= Slots
      BY <2>3, WaitingFits
    <3>3. chain[identifier'[b]] \in Nat /\ Slots * attempts'[b] \in Nat
      BY <1>1, <2>3, SlotsTimes
    <3> QED BY <1>1, <3>1, <3>2, <3>3
  <2> QED BY <2>4, <2>5, <2>6
<1>3. ASSUME NEW a \in Attempts, identifier[a] # None, Leave(a)
      PROVE  /\ a \in Waiting /\ Waiting' = Waiting \ {a}
             /\ \A b \in Waiting' : identifier'[b] = identifier[b] /\ attempts'[b] = attempts[b]
             /\ ~deciding' => Waiting' = {}
             /\ Cardinality(Waiting') = Cardinality(Waiting) - 1
             /\ Cardinality(Waiting) \in Nat \ {0} /\ Cardinality(Waiting) <= Slots
  <2>1. a \in Waiting /\ Waiting' = Waiting \ {a}
        /\ \A b \in Waiting' : identifier'[b] = identifier[b] /\ attempts'[b] = attempts[b]
        /\ (~deciding' => Waiting' = {})
    BY <1>3 DEF Leave, Waiting, TypeOK
  <2> QED BY <1>1, <2>1, WaitingFits
<1>4. ASSUME NEW a \in Attempts, Refuse(a)
      PROVE  OverlapInv'
  <2>1. identifier[a] # None /\ Leave(a) /\ UNCHANGED <<counter, chain>>
    BY <1>4 DEF Refuse, LeaveAlone, cacheVars
  <2>2. \A j : Count(j)' = Count(j)
    BY <2>1 DEF Count
  <2>3. CountsStayLow' /\ CountsCover' /\ ReadsAreFresh'
    BY <1>3, <2>1, <2>2 DEF CountsStayLow, CountsCover, ReadsAreFresh, Slots
  <2>4. ReadsCover'
    <3> SUFFICES ASSUME NEW b \in Waiting'
                 PROVE  chain[identifier[b]]
                          <= Slots * attempts[b] + (Slots - Cardinality(Waiting'))
      BY <1>3, <2>1 DEF ReadsCover, Slots
    <3>1. b \in Waiting
          /\ chain[identifier[b]] <= Slots * attempts[b] + (Slots - Cardinality(Waiting))
      BY <1>3, <2>1 DEF ReadsCover
    <3>2. chain[identifier[b]] \in Nat /\ Slots * attempts[b] \in Nat
      BY <1>1, <3>1, SlotsTimes
    <3>3. Cardinality(Waiting') = Cardinality(Waiting) - 1 /\ Cardinality(Waiting) \in Nat
      BY <1>3, <2>1
    <3> QED BY <1>1, <3>1, <3>2, <3>3
  <2> QED BY <2>3, <2>4
<1>5. ASSUME NEW a \in Attempts, Grant(a)
      PROVE  OverlapInv'
  <2>0. PICK i \in Identifiers : i = identifier[a]
    BY <1>1, <1>5 DEF Grant, Waiting
  <2>1. /\ identifier[a] # None /\ Leave(a)
        /\ attempts[a] < maxAttempts
        /\ counter' = [counter EXCEPT ![i] = attempts[a] + 1]
        /\ chain' = [chain EXCEPT ![i] = @ + 1]
    BY <1>1, <1>5, <2>0 DEF Grant, set, AtLimit, TypeOK
  <2>2. a \in Waiting /\ i \in Identifiers /\ attempts[a] \in Nat /\ chain[i] \in Nat
    BY <1>1, <1>3, <2>1
  <2>3. /\ Count(i)' = attempts[a] + 1 /\ chain'[i] = chain[i] + 1
        /\ \A j \in Identifiers \ {i} : Count(j)' = Count(j) /\ chain'[j] = chain[j]
    BY <2>1, <2>2 DEF Count, TypeOK
  <2>4. chain[i] <= Slots * attempts[a] + (Slots - Cardinality(Waiting))
    BY <2>0, <2>2 DEF ReadsCover
  <2>5. CountsStayLow'
    BY <1>1, <2>1, <2>2, <2>3 DEF CountsStayLow
  <2>6. CountsCover'
    <3>1. Slots * (attempts[a] + 1) = Slots * attempts[a] + Slots
          /\ Slots * attempts[a] \in Nat
      BY <1>1, <2>2, SlotsTimes
    <3>2. Cardinality(Waiting) \in Nat \ {0}
      BY <1>3, <2>1
    <3>3. chain[i] + 1 <= Slots * (attempts[a] + 1)
      BY <1>1, <2>2, <2>4, <3>1, <3>2
    <3> QED BY <2>2, <2>3, <3>3 DEF CountsCover, Slots
  <2>7. ReadsAreFresh'
    BY <1>3, <2>1 DEF ReadsAreFresh
  <2>8. ReadsCover'
    <3> SUFFICES ASSUME NEW b \in Waiting'
                 PROVE  chain'[identifier[b]]
                          <= Slots * attempts[b] + (Slots - Cardinality(Waiting'))
      BY <1>3, <2>1 DEF ReadsCover, Slots
    <3>1. b \in Waiting
          /\ chain[identifier[b]] <= Slots * attempts[b] + (Slots - Cardinality(Waiting))
      BY <1>3, <2>1 DEF ReadsCover
    <3>2. chain[identifier[b]] \in Nat /\ Slots * attempts[b] \in Nat
      BY <1>1, <3>1, SlotsTimes
    <3>3. Cardinality(Waiting') = Cardinality(Waiting) - 1 /\ Cardinality(Waiting) \in Nat
      BY <1>3, <2>1
    <3>4. chain'[identifier[b]] <= chain[identifier[b]] + 1
      BY <1>1, <2>3, <3>1, <3>2
    <3>5. chain'[identifier[b]] \in Nat
      BY <1>1, <2>2, <2>3, <3>1
    <3> QED BY <1>1, <3>1, <3>2, <3>3, <3>4, <3>5
  <2> QED BY <2>5, <2>6, <2>7, <2>8
<1>6. CASE Second
  <2>1. Waiting' = {} /\ Waiting = {}
    BY <1>6 DEF Second, attemptVars, Waiting
  <2>2. ASSUME NEW i \in Identifiers
        PROVE  \/ Count(i)' = Count(i) /\ chain'[i] = chain[i]
               \/ Count(i)' \in {0, Count(i)} /\ chain'[i] = 0
    BY <1>6 DEF Second, Expired, Count, TypeOK
  <2>3. CountsStayLow'
    BY <1>1, <2>2 DEF CountsStayLow
  <2>4. CountsCover'
    <3> SUFFICES ASSUME NEW i \in Identifiers
                 PROVE  chain'[i] <= Slots * Count(i)'
      BY DEF CountsCover, Slots
    <3>1. CASE chain'[i] = 0
      <4>1. Count(i)' \in Nat
        BY <1>1, <2>2
      <4>2. Slots * Count(i)' \in Nat
        BY <1>1, <4>1, SlotsTimes
      <4> QED BY <3>1, <4>2
    <3>2. CASE Count(i)' = Count(i) /\ chain'[i] = chain[i]
      BY <3>2 DEF CountsCover
    <3> QED BY <2>2, <3>1, <3>2
  <2> QED BY <2>1, <2>3, <2>4 DEF ReadsAreFresh, ReadsCover
<1>7. CASE UNCHANGED vars
  BY <1>7 DEF vars, cacheVars, attemptVars, CountsStayLow, ReadsAreFresh, CountsCover,
     ReadsCover, Count, Waiting, Slots
<1> QED BY <1>2, <1>4, <1>5, <1>6, <1>7 DEF Next, Decide

LEMMA OverlapInvariant == Spec => []OverlapInv
<1>1. LimitInv /\ OverlapInv /\ [Next]_vars => OverlapInv'
  BY OverlapStep
<1> QED BY <1>1, OverlapInit, LimitInvariant, PTL DEF Spec

(* However attempts overlap, no more than maxAttempts times as many as can   *)
(* wait together get through without a pause longer than ttlSeconds, for     *)
(* every limit and every number of them (canActivate).                       *)
THEOREM OverlapsBounded == Spec => []OverlapsAreBounded
<1>1. LimitInv /\ OverlapInv => OverlapsAreBounded
  <2> SUFFICES ASSUME LimitInv, OverlapInv, NEW i \in Identifiers
               PROVE  chain[i] <= maxAttempts * Slots
    BY DEF OverlapsAreBounded, Slots
  <2>1. Count(i) \in Nat /\ Count(i) <= maxAttempts /\ chain[i] <= Slots * Count(i)
        /\ chain[i] \in Nat
    BY DEF LimitInv, OverlapInv, CountsStayLow, CountsCover, Count, TypeOK
  <2>2. Slots \in Nat /\ maxAttempts \in Nat
    BY WaitingFits, LimitAssumption
  <2>3. Slots * Count(i) <= Slots * maxAttempts /\ Slots * Count(i) \in Nat
        /\ Slots * maxAttempts = maxAttempts * Slots /\ Slots * maxAttempts \in Nat
    BY <2>1, <2>2, SlotsTimes
  <2> QED BY <2>1, <2>3
<1> QED BY <1>1, LimitInvariant, OverlapInvariant, PTL
-----------------------------------------------------------------------------
(* The window.  Attempts of an identifier that wait have read the same       *)
(* count, and it is the count still, or one less once another was granted;   *)
(* an attempt that overlaps no other writes one more than the count.  So     *)
(* each attempt granted alone in the last ttlSeconds is counted, and the     *)
(* counter stands at least until it is forgotten.                            *)
ReadsStand ==
  \A a \in Waiting :
    /\ Count(identifier[a]) <= attempts[a] + 1
    /\ alone[a] => attempts[a] = Count(identifier[a])
ReadsAgree ==
  \A a, b \in Waiting : identifier[a] = identifier[b] =>
    attempts[a] = attempts[b] /\ (alone[a] => a = b)
RecentIsCounted ==
  \A i \in Identifiers : \A n \in Positions : recent[i][n] # None =>
    n <= Count(i) /\ ttlSeconds <= recent[i][n] + left[i]

WindowInv == ReadsStand /\ ReadsAgree /\ RecentIsCounted

LEMMA WindowInit == Init => WindowInv
  BY DEF Init, WindowInv, ReadsStand, ReadsAgree, RecentIsCounted, Waiting

(* The attempts that wait, after a step that lets one more wait.             *)
LEMMA GetWindow ==
  ASSUME LimitInv, OverlapInv, WindowInv, NEW a \in Attempts, NEW i \in Identifiers, Get(a, i)
  PROVE  WindowInv'
<1> USE LimitTypes DEF LimitInv, OverlapInv, WindowInv
<1>1. /\ ~deciding /\ identifier[a] = None
      /\ identifier' = [identifier EXCEPT ![a] = i]
      /\ attempts' = [attempts EXCEPT ![a] = Count(i)]
      /\ alone' = [b \in Attempts |-> IF b = a THEN Together(a, i) = {}
                                               ELSE alone[b] /\ identifier[b] # i]
      /\ UNCHANGED <<counter, left, recent>>
  BY DEF Get, Count, cacheVars
<1>2. \A j : Count(j)' = Count(j)
  BY <1>1 DEF Count
<1>3. \A b \in Waiting' : /\ b = a \/ (b # a /\ b \in Waiting)
                          /\ b # a => identifier'[b] = identifier[b]
                          /\ b = a => identifier'[b] = i
                          /\ b \in Attempts /\ identifier'[b] \in Identifiers
  BY <1>1 DEF Waiting, TypeOK
<1>4. \A b \in Waiting' : \A j \in Identifiers : identifier'[b] = j => attempts'[b] = Count(j)
  BY <1>1, <1>3 DEF ReadsAreFresh, TypeOK
<1>5. \A j \in Identifiers : Count(j) \in Nat
  BY DEF Count, TypeOK
<1>6. ReadsStand'
  <2> SUFFICES ASSUME NEW b \in Waiting', NEW j \in Identifiers, j = identifier'[b]
               PROVE  Count(j)' <= attempts'[b] + 1 /\ attempts'[b] = Count(j)'
    BY <1>3 DEF ReadsStand, Count
  <2> QED BY <1>2, <1>4, <1>5
<1>7. ReadsAgree'
  <2> SUFFICES ASSUME NEW b \in Waiting', NEW c \in Waiting', identifier'[b] = identifier'[c]
               PROVE  attempts'[b] = attempts'[c] /\ (alone'[b] => b = c)
    BY DEF ReadsAgree
  <2>1. attempts'[b] = attempts'[c]
    <3>1. PICK j \in Identifiers : j = identifier'[b]
      BY <1>3
    <3> QED BY <1>4, <3>1
  <2>2. ASSUME b # c, alone'[b]
        PROVE  FALSE
    <3>1. CASE b = a
      <4>1. c \in Together(a, i)
        <5>1. c # a /\ c \in Attempts /\ identifier[c] = i
          BY <1>3, <2>2, <3>1
        <5> QED BY <5>1 DEF Together
      <4>2. Together(a, i) = {}
        BY <1>1, <2>2, <3>1
      <4> QED BY <4>1, <4>2
    <3>2. CASE b # a
      <4>1. b \in Waiting /\ identifier[b] = identifier'[b]
        BY <1>3, <3>2
      <4>2. b \in Attempts
        BY <4>1 DEF Waiting
      <4>3. alone[b] /\ identifier[b] # i
        BY <1>1, <2>2, <3>2, <4>2
      <4>4. c # a /\ c \in Waiting /\ identifier[c] = identifier[b]
        BY <1>3, <4>1, <4>3
      <4> QED BY <2>2, <4>1, <4>3, <4>4 DEF ReadsAgree
    <3> QED BY <3>1, <3>2
  <2> QED BY <2>1, <2>2
<1>8. RecentIsCounted'
  BY <1>1, <1>2 DEF RecentIsCounted
<1> QED BY <1>6, <1>7, <1>8

(* An attempt that is decided waits no longer, and the others as before.     *)
LEMMA LeaveWindow ==
  ASSUME TypeOK, NEW a \in Waiting, Leave(a)
  PROVE  /\ Waiting' = Waiting \ {a}
         /\ \A b \in Waiting' : /\ identifier'[b] = identifier[b] /\ attempts'[b] = attempts[b]
                                /\ alone'[b] = alone[b]
         /\ ReadsAgree => ReadsAgree'
<1>1. Waiting' = Waiting \ {a}
  BY DEF Leave, Waiting, TypeOK
<1>2. \A b \in Waiting' : /\ identifier'[b] = identifier[b] /\ attempts'[b] = attempts[b]
                          /\ alone'[b] = alone[b]
  BY <1>1 DEF Leave, Waiting, TypeOK
<1>3. ReadsAgree => ReadsAgree'
  BY <1>1, <1>2 DEF ReadsAgree
<1> QED BY <1>1, <1>2, <1>3

LEMMA GrantWindow ==
  ASSUME LimitInv, OverlapInv, WindowInv, NEW a \in Attempts, Grant(a)
  PROVE  WindowInv'
<1> USE LimitTypes DEF LimitInv, OverlapInv, WindowInv
<1>1. a \in Waiting /\ identifier[a] \in Identifiers /\ attempts[a] \in Nat /\ Leave(a)
  BY DEF Grant, Waiting, TypeOK
<1>2. PICK i \in Identifiers : i = identifier[a]
  BY <1>1
<1>3. /\ counter' = [counter EXCEPT ![i] = attempts[a] + 1]
      /\ left' = [left EXCEPT ![i] = ttlSeconds]
      /\ recent' = [recent EXCEPT ![i] = IF alone[a] THEN Newest(@) ELSE @]
  BY <1>2 DEF Grant, set
<1>4. /\ counter \in [Identifiers -> Nat \cup {None}] /\ left \in [Identifiers -> Ages]
      /\ recent \in [Identifiers -> [Positions -> Ages \cup {None}]]
  BY DEF TypeOK
<1>5. /\ Count(i)' = attempts[a] + 1
      /\ \A j \in Identifiers \ {i} : Count(j)' = Count(j)
  BY <1>1, <1>3, <1>4 DEF Count
<1>6. /\ Waiting' = Waiting \ {a}
      /\ \A b \in Waiting' : /\ identifier'[b] = identifier[b] /\ attempts'[b] = attempts[b]
                             /\ alone'[b] = alone[b]
      /\ ReadsAgree'
  BY <1>1, LeaveWindow
<1>7. ReadsStand'
  <2> SUFFICES ASSUME NEW b \in Waiting', NEW j \in Identifiers, j = identifier'[b]
               PROVE  /\ Count(j)' <= attempts'[b] + 1
                      /\ alone'[b] => attempts'[b] = Count(j)'
    <3>1. \A b \in Waiting' : identifier'[b] \in Identifiers
      BY <1>6 DEF Waiting, TypeOK
    <3> QED BY <3>1 DEF ReadsStand, Count
  <2>1. b \in Waiting /\ b # a /\ identifier[b] = j /\ attempts[b] \in Nat
    BY <1>6 DEF Waiting, TypeOK
  <2>2. CASE j = i
    <3>1. attempts[b] = attempts[a] /\ ~alone[b]
      BY <1>1, <1>2, <2>1, <2>2 DEF ReadsAgree
    <3> QED BY <1>5, <1>6, <2>1, <2>2, <3>1
  <2>3. CASE j # i
    BY <1>5, <1>6, <2>1, <2>3 DEF ReadsStand
  <2> QED BY <2>2, <2>3
<1>8. RecentIsCounted'
  <2> SUFFICES ASSUME NEW j \in Identifiers, NEW n \in Positions, recent'[j][n] # None
               PROVE  n <= Count(j)' /\ ttlSeconds <= recent'[j][n] + left'[j]
    BY DEF RecentIsCounted
  <2>1. CASE j # i
    <3>1. recent'[j] = recent[j] /\ left'[j] = left[j] /\ Count(j)' = Count(j)
      BY <1>3, <1>4, <1>5, <2>1
    <3> QED BY <3>1 DEF RecentIsCounted
  <2>2. CASE j = i
    <3>1. left'[i] = ttlSeconds /\ Count(i) <= attempts[a] + 1 /\ Count(i) \in Nat
      BY <1>1, <1>2, <1>3, <1>4 DEF ReadsStand, Count
    <3>2. n \in Nat /\ n >= 1
      BY LimitAssumption DEF Positions
    <3>3. CASE ~alone[a]
      <4>1. recent'[i][n] = recent[i][n]
        BY <1>3, <1>4, <3>3
      <4>2. n <= Count(i) /\ recent[i][n] \in Nat
        BY <1>4, <2>2, <4>1 DEF RecentIsCounted
      <4> QED BY <1>1, <1>5, <2>2, <3>1, <3>2, <4>1, <4>2, LimitAssumption
    <3>4. CASE alone[a]
      <4>1. recent'[i][n] = IF n = 1 THEN 0 ELSE recent[i][n - 1]
        BY <1>3, <1>4, <3>4 DEF Newest
      <4>2. attempts[a] = Count(i)
        BY <1>1, <1>2, <3>4 DEF ReadsStand
      <4>3. CASE n = 1
        BY <1>1, <1>5, <2>2, <3>1, <4>1, <4>3, LimitAssumption
      <4>4. CASE n # 1
        <5>1. n - 1 \in Positions
          BY <3>2, <4>4, LimitAssumption DEF Positions
        <5>2. n - 1 <= Count(i) /\ recent[i][n - 1] \in Nat
          BY <1>4, <2>2, <4>1, <4>4, <5>1 DEF RecentIsCounted
        <5> QED BY <1>1, <1>5, <2>2, <3>1, <3>2, <4>1, <4>2, <4>4, <5>2, LimitAssumption
      <4> QED BY <4>3, <4>4
    <3> QED BY <3>3, <3>4
  <2> QED BY <2>1, <2>2
<1> QED BY <1>6, <1>7, <1>8

(* A counter whose time is up takes no attempt with it that is remembered.   *)
LEMMA SecondWindow ==
  ASSUME LimitInv, WindowInv, Second
  PROVE  WindowInv'
<1> USE LimitTypes DEF LimitInv, WindowInv
<1>1. Waiting' = {}
  BY DEF Second, attemptVars, Waiting
<1>2. RecentIsCounted'
  <2> SUFFICES ASSUME NEW i \in Identifiers, NEW n \in Positions, recent'[i][n] # None
               PROVE  n <= Count(i)' /\ ttlSeconds <= recent'[i][n] + left'[i]
    BY DEF RecentIsCounted
  <2>1. /\ recent[i][n] \in Ages \cup {None} /\ left[i] \in Ages
        /\ counter[i] \in Nat \cup {None} /\ n \in Nat /\ n >= 1
    BY LimitAssumption DEF TypeOK, Positions
  <2>2. /\ recent'[i][n] = Older(recent[i][n])
        /\ left'[i] = IF left[i] = 0 THEN 0 ELSE left[i] - 1
        /\ counter'[i] = IF Expired(i) THEN None ELSE counter[i]
    BY DEF Second
  <2>3. /\ recent[i][n] # None /\ recent[i][n] # ttlSeconds
        /\ recent'[i][n] = recent[i][n] + 1
    BY <2>2 DEF Older
  <2>4. n <= Count(i) /\ ttlSeconds <= recent[i][n] + left[i]
    BY <2>3 DEF RecentIsCounted
  <2>5. left[i] # 0
    BY <2>1, <2>3, <2>4, LimitAssumption DEF Ages
  <2>6. Count(i)' = Count(i)
    BY <2>2, <2>5 DEF Expired, Count
  <2>7. ttlSeconds <= recent'[i][n] + left'[i]
    BY <2>1, <2>2, <2>3, <2>4, <2>5, LimitAssumption DEF Ages
  <2> QED BY <2>4, <2>6, <2>7
<1> QED BY <1>1, <1>2 DEF ReadsStand, ReadsAgree

LEMMA WindowStep ==
  ASSUME LimitInv, OverlapInv, WindowInv, [Next]_vars
  PROVE  WindowInv'
<1>1. ASSUME NEW a \in Attempts, Refuse(a)
      PROVE  WindowInv'
  <2>1. a \in Waiting /\ Leave(a) /\ UNCHANGED <<counter, left, recent>> /\ TypeOK
    BY <1>1 DEF Refuse, LeaveAlone, cacheVars, Waiting, LimitInv
  <2>2. ReadsStand' /\ ReadsAgree'
    BY <2>1, LeaveWindow DEF ReadsStand, Count, WindowInv
  <2> QED BY <2>1, <2>2 DEF WindowInv, RecentIsCounted, Count
<1>2. CASE UNCHANGED vars
  BY <1>2 DEF vars, cacheVars, attemptVars, WindowInv, ReadsStand, ReadsAgree,
              RecentIsCounted, Count, Waiting
<1> QED BY <1>1, <1>2, GetWindow, GrantWindow, SecondWindow DEF Next, Decide

(* In no stretch of ttlSeconds are more than maxAttempts attempts of an      *)
(* identifier granted that overlap no other (canActivate).                   *)
THEOREM WindowsAreBounded == Spec => []WindowBound
<1>1. LimitInv /\ OverlapInv /\ WindowInv /\ [Next]_vars => WindowInv'
  BY WindowStep
<1>2. LimitInv /\ OverlapInv /\ WindowInv => WindowBound
  <2> SUFFICES ASSUME LimitInv, OverlapInv, WindowInv, NEW i \in Identifiers,
                      recent[i][maxAttempts + 1] # None
               PROVE  FALSE
    BY DEF WindowBound
  <2>1. maxAttempts + 1 \in Positions /\ maxAttempts \in Nat
    BY LimitAssumption DEF Positions
  <2>2. maxAttempts + 1 <= Count(i) /\ Count(i) <= maxAttempts
    BY <2>1 DEF WindowInv, RecentIsCounted, OverlapInv, CountsStayLow
  <2>3. Count(i) \in Nat
    BY LimitTypes DEF LimitInv, TypeOK, Count
  <2> QED BY <2>1, <2>2, <2>3
<1> QED BY <1>1, <1>2, WindowInit, LimitInvariant, OverlapInvariant, PTL DEF Spec
=============================================================================
