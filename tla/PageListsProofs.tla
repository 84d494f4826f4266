-------------------------- MODULE PageListsProofs ---------------------------
(* Proofs about PageLists, for any number of rows, calls and pages: what the *)
(* busy flag of a list promises, and that the page shown is the one asked    *)
(* for.                                                                      *)
EXTENDS PageLists, SequenceTheorems, TLAPS

Stages == {"idle", "save", "saved", "unsaved", "delete", "deleted", "load"}

FlagType ==
  /\ stage \in [Calls -> Stages]
  /\ busy \in BOOLEAN
  /\ cleared \subseteq Calls

(* The flag stands for every save under way that no other call has cleared.  *)
SavesAreBusy == Saving \ cleared # {} => busy

FlagInv == FlagType /\ SavesAreBusy /\ OneSaveAtATime /\ BusyHasOwner

flagVars == <<stage, busy, cleared>>

(* The steps as they bear on the flag.                                       *)
Occupies(c, to) ==  \* a call goes on to save or to load
  /\ stage' = [stage EXCEPT ![c] = to]
  /\ busy' = TRUE
Waits(c, to) ==     \* a call waits for something else
  /\ stage' = [stage EXCEPT ![c] = to]
  /\ UNCHANGED <<busy, cleared>>
Releases(c) ==
  /\ stage' = [stage EXCEPT ![c] = "idle"]
  /\ busy' = FALSE
  /\ cleared' = (cleared \cup Saving) \ {c}

Shapes(c) ==
  \/ Occupies(c, "load") /\ c \notin Saving /\ cleared' = cleared
  \/ Occupies(c, "load") /\ stage[c] = "saved" /\ cleared' = cleared \ {c}
  \/ Occupies(c, "save") /\ ~busy /\ stage[c] = "idle" /\ cleared' = cleared
  \/ Releases(c)
  \/ stage[c] = "save" /\ \E to \in {"saved", "unsaved"} : Waits(c, to)
  \/ stage[c] \in {"idle", "delete"}
       /\ \E to \in {"delete", "deleted", "idle"} : Waits(c, to)

(* Every step has one of these shapes or leaves flag and calls alone.        *)
LEMMA StepShapes ==
  ASSUME [Next]_vars
  PROVE  UNCHANGED flagVars \/ \E c \in Calls : Shapes(c)
<1>1. CASE edit \/ reset \/ logout \/ Elsewhere \/ UNCHANGED vars
  BY <1>1 DEF edit, reset, logout, Elsewhere, vars, storeVars, callVars, historyVars, flagVars
<1>2. ASSUME NEW c \in Calls, Turn(c) \/ submit(c) \/ delete(c)
      PROVE  Shapes(c)
  <2>1. CASE Turn(c)
    BY <2>1 DEF Turn, load, Shapes, Occupies, Saving
  <2>2. CASE submit(c)
    BY <2>2 DEF submit, Shapes, Occupies, historyVars
  <2>3. CASE delete(c)
    BY <2>3 DEF delete, Shapes, Waits, historyVars
  <2> QED BY <1>2, <2>1, <2>2, <2>3
<1>3. ASSUME NEW c \in Calls, FindRows(c) \/ CountRows(c)
      PROVE  UNCHANGED flagVars
  BY <1>3 DEF FindRows, CountRows, flagVars, historyVars
<1>4. ASSUME NEW c \in Calls, Show(c) \/ LoadFails(c) \/ Failed(c)
      PROVE  Shapes(c)
  BY <1>4 DEF Show, LoadFails, Failed, End, Release, Releases, Shapes
<1>5. ASSUME NEW c \in Calls, Saved(c) \/ Deleted(c)
      PROVE  Shapes(c)
  BY <1>5 DEF Saved, Deleted, load, Shapes, Occupies, Saving
<1>6. ASSUME NEW c \in Calls, Save(c) \/ Delete(c) \/ Refuse(c)
      PROVE  Shapes(c)
  <2>1. UNCHANGED <<busy, cleared>>
    BY <1>6 DEF Save, Delete, Refuse, historyVars
  <2>2. \/ stage[c] = "save" /\ \E to \in {"saved", "unsaved"} :
                                  stage' = [stage EXCEPT ![c] = to]
        \/ stage[c] = "delete" /\ \E to \in {"deleted", "idle"} :
                                  stage' = [stage EXCEPT ![c] = to]
    BY <1>6 DEF Save, Delete, Refuse
  <2> QED BY <2>1, <2>2 DEF Shapes, Waits
<1> QED BY <1>1, <1>2, <1>3, <1>4, <1>5, <1>6 DEF Next, Answer

LEMMA FlagInvStep == FlagInv /\ [Next]_vars => FlagInv'
<1> SUFFICES ASSUME FlagInv, [Next]_vars
             PROVE  FlagInv'
  OBVIOUS
<1> USE DEF FlagInv, FlagType, SavesAreBusy, OneSaveAtATime, BusyHasOwner, Saving,
            Loading, Stages
<1>1. CASE UNCHANGED flagVars
  BY <1>1 DEF flagVars
<1>2. ASSUME NEW c \in Calls, Shapes(c)
      PROVE  FlagInv'
  <2>1. CASE Occupies(c, "load") /\ c \notin Saving /\ cleared' = cleared
    BY <2>1 DEF Occupies
  <2>2. CASE Occupies(c, "load") /\ stage[c] = "saved" /\ cleared' = cleared \ {c}
    BY <2>2 DEF Occupies
  <2>3. CASE Occupies(c, "save") /\ ~busy /\ stage[c] = "idle" /\ cleared' = cleared
    BY <2>3 DEF Occupies
  <2>4. CASE Releases(c)
    BY <2>4 DEF Releases
  <2>5. CASE stage[c] = "save" /\ \E to \in {"saved", "unsaved"} : Waits(c, to)
    BY <2>5 DEF Waits
  <2>6. CASE stage[c] \in {"idle", "delete"}
               /\ \E to \in {"delete", "deleted", "idle"} : Waits(c, to)
    BY <2>6 DEF Waits
  <2> HIDE DEF FlagInv
  <2> QED BY <1>2, <2>1, <2>2, <2>3, <2>4, <2>5, <2>6 DEF Shapes
<1> QED BY <1>1, <1>2, StepShapes

LEMMA FlagInvHolds == Spec => []FlagInv
<1>1. Init => FlagInv
  BY DEF Init, FlagInv, FlagType, Stages, SavesAreBusy, OneSaveAtATime, BusyHasOwner,
         Saving, Loading
<1> QED BY <1>1, FlagInvStep, PTL DEF Spec
-----------------------------------------------------------------------------
(* A form is sent twice only if another call has reset the flag meanwhile    *)
(* (saveSymbol, saveUser and the disabled submit button).                    *)
THEOREM SavesAreAlone == Spec => []OneSaveAtATime
BY FlagInvHolds, PTL DEF FlagInv

(* The flag never stays set without a call that will reset it (finally).     *)
THEOREM BusyEnds == Spec => []BusyHasOwner
BY FlagInvHolds, PTL DEF FlagInv
-----------------------------------------------------------------------------
(* What a list shows.  What a load under way has gathered, and what the list *)
(* shows once none is under way, is what the collection holds, as long as    *)
(* loads did not overlap and no row came or went since the last one began.   *)
RowsAreDistinct ==
  /\ IsInjective(stored)
  /\ ToSet(stored) \subseteq used
  /\ others \subseteq used
  /\ ToSet(stored) \cap others = {}

NothingGathered == \A c \in Calls : stage[c] # "load" => ready[c] = {}

LoadsOnePage ==
  ~astray =>
    /\ \A c, d \in Loading : c = d
    /\ \A c \in Loading : asked[c] = page

GatheredIsRight ==
  ~astray =>
    \A c \in Loading :
      /\ "rows" \in ready[c] => rows[c] = Slice(stored, page)
      /\ "total" \in ready[c] => total[c] = Len(stored)

ShownIsRight ==
  ~astray /\ Loading = {} =>
    items = Slice(stored, page) /\ count = Len(stored)

ListInv ==
  /\ TypeOK
  /\ RowsAreDistinct
  /\ NothingGathered
  /\ LoadsOnePage
  /\ GatheredIsRight
  /\ ShownIsRight

(* What a page of a collection is.                                           *)
LEMMA SliceFacts ==
  ASSUME NEW s \in Seq(Ids), NEW p \in Nat \ {0}
  PROVE  /\ Slice(s, p) \in Seq(Ids)
         /\ Len(Slice(s, p)) = IF skip(p) + take <= Len(s) THEN take
                               ELSE IF skip(p) < Len(s) THEN Len(s) - skip(p) ELSE 0
         /\ \A m \in DOMAIN Slice(s, p) :
              skip(p) + m \in DOMAIN s /\ Slice(s, p)[m] = s[skip(p) + m]
<1>1. take \in Nat \ {0}
  BY TakeAssumption
<1>2. skip(p) \in Nat
  BY <1>1 DEF skip
<1>3. PICK k \in Nat : k = skip(p)
  BY <1>2
<1>4. PICK e \in Nat : e = IF k + take <= Len(s) THEN k + take ELSE Len(s)
  BY <1>1, <1>3
<1>5. Slice(s, p) = SubSeq(s, k + 1, e)
  BY <1>3, <1>4 DEF Slice, limit
<1>6. \A i \in k + 1 .. e : s[i] \in Ids
  BY <1>1, <1>3, <1>4
<1>7. /\ SubSeq(s, k + 1, e) \in Seq(Ids)
      /\ Len(SubSeq(s, k + 1, e)) = IF k + 1 <= e THEN e - (k + 1) + 1 ELSE 0
      /\ \A i \in 1 .. e - (k + 1) + 1 : SubSeq(s, k + 1, e)[i] = s[k + 1 + i - 1]
  BY <1>6, SubSeqProperties
<1>8. PICK q \in Seq(Ids) : q = Slice(s, p)
  BY <1>5, <1>7
<1>9. /\ Len(q) = IF k + 1 <= e THEN e - k ELSE 0
      /\ \A i \in 1 .. e - k : q[i] = s[k + i]
  BY <1>5, <1>7, <1>8
<1>10. \A m \in DOMAIN q : k + m \in DOMAIN s /\ q[m] = s[k + m]
  BY <1>1, <1>4, <1>9
<1>11. Len(q) = IF k + take <= Len(s) THEN take ELSE IF k < Len(s) THEN Len(s) - k ELSE 0
  BY <1>1, <1>4, <1>9
<1> QED BY <1>3, <1>8, <1>10, <1>11

(* A deleted row leaves the others in their order.                           *)
LEMMA RemoveAtFacts ==
  ASSUME NEW s \in Seq(Ids), NEW n \in DOMAIN s
  PROVE  /\ RemoveAt(s, n) \in Seq(Ids)
         /\ \A i \in DOMAIN RemoveAt(s, n) :
              /\ i \in DOMAIN s /\ i + 1 \in DOMAIN s
              /\ RemoveAt(s, n)[i] = IF i < n THEN s[i] ELSE s[i + 1]
<1>1. n \in 1 .. Len(s)
  OBVIOUS
<1>2. /\ SubSeq(s, 1, n - 1) \in Seq(Ids)
      /\ Len(SubSeq(s, 1, n - 1)) = IF 1 <= n - 1 THEN n - 1 - 1 + 1 ELSE 0
      /\ \A i \in 1 .. n - 1 - 1 + 1 : SubSeq(s, 1, n - 1)[i] = s[1 + i - 1]
  <2>1. \A i \in 1 .. n - 1 : s[i] \in Ids
    BY <1>1
  <2> QED BY <1>1, <2>1, SubSeqProperties
<1>3. /\ SubSeq(s, n + 1, Len(s)) \in Seq(Ids)
      /\ Len(SubSeq(s, n + 1, Len(s))) =
           IF n + 1 <= Len(s) THEN Len(s) - (n + 1) + 1 ELSE 0
      /\ \A i \in 1 .. Len(s) - (n + 1) + 1 :
           SubSeq(s, n + 1, Len(s))[i] = s[n + 1 + i - 1]
  <2>1. \A i \in n + 1 .. Len(s) : s[i] \in Ids
    BY <1>1
  <2> QED BY <1>1, <2>1, SubSeqProperties
<1>4. PICK a \in Seq(Ids) : a = SubSeq(s, 1, n - 1)
  BY <1>2
<1>5. PICK b \in Seq(Ids) : b = SubSeq(s, n + 1, Len(s))
  BY <1>3
<1>6. Len(a) = n - 1 /\ \A i \in 1 .. n - 1 : a[i] = s[i]
  BY <1>1, <1>2, <1>4
<1>7. Len(b) = Len(s) - n /\ \A i \in 1 .. Len(s) - n : b[i] = s[n + i]
  BY <1>1, <1>3, <1>5
<1>8. RemoveAt(s, n) = a \o b
  BY <1>4, <1>5 DEF RemoveAt
<1>9. a \o b \in Seq(Ids)
  OBVIOUS
<1>10. \A i \in DOMAIN (a \o b) :
         /\ i \in 1 .. Len(s) - 1
         /\ (a \o b)[i] = IF i < n THEN s[i] ELSE s[i + 1]
  <2> SUFFICES ASSUME NEW i \in DOMAIN (a \o b)
               PROVE  /\ i \in 1 .. Len(s) - 1
                      /\ (a \o b)[i] = IF i < n THEN s[i] ELSE s[i + 1]
    OBVIOUS
  <2>1. i \in 1 .. Len(s) - 1
    BY <1>1, <1>6, <1>7
  <2>2. CASE i < n
    BY <1>1, <1>6, <1>7, <2>1, <2>2
  <2>3. CASE i >= n
    <3>1. (a \o b)[i] = b[i - (n - 1)]
      BY <1>1, <1>6, <1>7, <2>1, <2>3
    <3>2. i - (n - 1) \in 1 .. Len(s) - n
      BY <1>1, <2>1, <2>3
    <3>3. b[i - (n - 1)] = s[n + (i - (n - 1))]
      BY <1>7, <3>2
    <3>4. n + (i - (n - 1)) = i + 1
      BY <1>1, <2>1
    <3> QED BY <1>1, <2>1, <2>3, <3>1, <3>3, <3>4
  <2> QED BY <1>1, <2>1, <2>2, <2>3
<1> QED BY <1>8, <1>9, <1>10

(* A row that comes in leaves the others in their order.                     *)
LEMMA InsertAtFacts ==
  ASSUME NEW s \in Seq(Ids), NEW n \in 1 .. Len(s) + 1, NEW e \in Ids
  PROVE  /\ InsertAt(s, n, e) \in Seq(Ids)
         /\ \A i \in DOMAIN InsertAt(s, n, e) :
              /\ i < n => i \in DOMAIN s /\ InsertAt(s, n, e)[i] = s[i]
              /\ i = n => InsertAt(s, n, e)[i] = e
              /\ i > n => i - 1 \in DOMAIN s /\ InsertAt(s, n, e)[i] = s[i - 1]
<1>1. n \in 1 .. Len(s) + 1 /\ Len(s) \in Nat
  OBVIOUS
<1>2. /\ SubSeq(s, 1, n - 1) \in Seq(Ids)
      /\ Len(SubSeq(s, 1, n - 1)) = IF 1 <= n - 1 THEN n - 1 - 1 + 1 ELSE 0
      /\ \A i \in 1 .. n - 1 - 1 + 1 : SubSeq(s, 1, n - 1)[i] = s[1 + i - 1]
  <2>1. \A i \in 1 .. n - 1 : s[i] \in Ids
    BY <1>1
  <2> QED BY <1>1, <2>1, SubSeqProperties
<1>3. /\ SubSeq(s, n, Len(s)) \in Seq(Ids)
      /\ Len(SubSeq(s, n, Len(s))) = IF n <= Len(s) THEN Len(s) - n + 1 ELSE 0
      /\ \A i \in 1 .. Len(s) - n + 1 : SubSeq(s, n, Len(s))[i] = s[n + i - 1]
  <2>1. \A i \in n .. Len(s) : s[i] \in Ids
    BY <1>1
  <2> QED BY <1>1, <2>1, SubSeqProperties
<1>4. PICK a \in Seq(Ids) : a = SubSeq(s, 1, n - 1)
  BY <1>2
<1>5. PICK b \in Seq(Ids) : b = SubSeq(s, n, Len(s))
  BY <1>3
<1>6. Len(a) = n - 1 /\ \A i \in 1 .. n - 1 : a[i] = s[i]
  BY <1>1, <1>2, <1>4
<1>7. Len(b) = Len(s) - n + 1 /\ \A i \in 1 .. Len(s) - n + 1 : b[i] = s[n + i - 1]
  BY <1>1, <1>3, <1>5
<1>8. PICK m \in Seq(Ids) : m = Append(a, e) /\ m = a \o <<e>>
  <2>1. Append(a, e) \in Seq(Ids)
    OBVIOUS
  <2>2. Append(a, e) = a \o <<e>>
    BY AppendIsConcat
  <2> QED BY <2>1, <2>2
<1>9. Len(m) = n /\ m[n] = e /\ \A i \in 1 .. n - 1 : m[i] = s[i]
  <2>1. /\ Len(m) = Len(a) + 1 /\ m[Len(a) + 1] = e
        /\ \A i \in 1 .. Len(a) : m[i] = a[i]
    BY <1>8, AppendProperties
  <2> QED BY <1>1, <1>6, <2>1
<1>10. InsertAt(s, n, e) = m \o b /\ m \o b \in Seq(Ids)
  <2>1. InsertAt(s, n, e) = (a \o <<e>>) \o b
    BY <1>4, <1>5, Zenon DEF InsertAt
  <2>2. (a \o <<e>>) \o b = m \o b
    BY <1>8, Zenon
  <2>3. m \o b \in Seq(Ids)
    OBVIOUS
  <2> QED BY <2>1, <2>2, <2>3, Zenon
<1>11. \A i \in DOMAIN (m \o b) :
         /\ i < n => i \in DOMAIN s /\ (m \o b)[i] = s[i]
         /\ i = n => (m \o b)[i] = e
         /\ i > n => i - 1 \in DOMAIN s /\ (m \o b)[i] = s[i - 1]
  <2> SUFFICES ASSUME NEW i \in DOMAIN (m \o b)
               PROVE  /\ i < n => i \in DOMAIN s /\ (m \o b)[i] = s[i]
                      /\ i = n => (m \o b)[i] = e
                      /\ i > n => i - 1 \in DOMAIN s /\ (m \o b)[i] = s[i - 1]
    OBVIOUS
  <2>1. i \in 1 .. Len(s) + 1
    BY <1>1, <1>7, <1>9
  <2>2. i <= n => (m \o b)[i] = m[i]
    BY <1>1, <1>9, <2>1
  <2>3. ASSUME i > n
        PROVE  i - 1 \in DOMAIN s /\ (m \o b)[i] = s[i - 1]
    <3>1. (m \o b)[i] = b[i - n] /\ i - n \in 1 .. Len(s) - n + 1
      BY <1>1, <1>7, <1>9, <2>1, <2>3
    <3>2. b[i - n] = s[n + (i - n) - 1]
      BY <1>7, <3>1
    <3>3. n + (i - n) - 1 = i - 1 /\ i - 1 \in 1 .. Len(s)
      BY <1>1, <2>1, <2>3
    <3> QED BY <3>1, <3>2, <3>3
  <2> QED BY <1>1, <1>9, <2>1, <2>2, <2>3
<1> QED BY <1>10, <1>11

(* The number of the page a load asks for is a page number.                  *)
LEMMA PageNumbers == TypeOK => Targets \subseteq Nat \ {0}
BY DEF TypeOK, Targets

LEMMA ShownIds == TypeOK => ToSet(items) \subseteq Ids
BY DEF TypeOK, ToSet

(* What enter and leave do to the rows of the list.                          *)
LEMMA RowEnters ==
  ASSUME stored \in Seq(Ids), IsInjective(stored),
         NEW i \in Ids, i \notin ToSet(stored), enter(i)
  PROVE  /\ stored' \in Seq(Ids) /\ IsInjective(stored')
         /\ ToSet(stored') \subseteq ToSet(stored) \cup {i}
<1>1. PICK n \in 1 .. Len(stored) + 1 : stored' = InsertAt(stored, n, i)
  BY DEF enter
<1>2. PICK s \in Seq(Ids) : s = stored
  OBVIOUS
<1>3. PICK t \in Seq(Ids) : t = stored'
  BY <1>1, InsertAtFacts
<1>4. \A k \in DOMAIN t :
        /\ k < n => k \in DOMAIN s /\ t[k] = s[k]
        /\ k = n => t[k] = i
        /\ k > n => k - 1 \in DOMAIN s /\ t[k] = s[k - 1]
  BY <1>1, <1>2, <1>3, InsertAtFacts
<1>5. \A k \in DOMAIN s : s[k] # i /\ s[k] \in ToSet(stored)
  BY <1>2 DEF ToSet
<1>6. IsInjective(t)
  <2> SUFFICES ASSUME NEW j \in DOMAIN t, NEW k \in DOMAIN t, t[j] = t[k]
               PROVE  j = k
    BY DEF IsInjective
  <2>1. \A x, y \in DOMAIN s : s[x] = s[y] => x = y
    BY <1>2 DEF IsInjective
  <2>2. j \in Nat /\ k \in Nat /\ n \in Nat
    BY <1>2
  <2>3. CASE j = n \/ k = n
    BY <1>4, <1>5, <2>2, <2>3
  <2>4. CASE j < n /\ k < n
    BY <1>4, <2>1, <2>4
  <2>5. CASE j > n /\ k > n
    BY <1>4, <2>1, <2>2, <2>5
  <2>6. CASE j < n /\ k > n
    BY <1>4, <2>1, <2>2, <2>6
  <2>7. CASE j > n /\ k < n
    BY <1>4, <2>1, <2>2, <2>7
  <2> QED BY <2>2, <2>3, <2>4, <2>5, <2>6, <2>7
<1>7. ToSet(t) \subseteq ToSet(stored) \cup {i}
  <2> SUFFICES ASSUME NEW k \in DOMAIN t
               PROVE  t[k] \in ToSet(stored) \cup {i}
    BY DEF ToSet
  <2>1. k \in Nat /\ n \in Nat
    BY <1>2
  <2> QED BY <1>4, <1>5, <2>1
<1> QED BY <1>3, <1>6, <1>7

LEMMA RowLeaves ==
  ASSUME stored \in Seq(Ids), IsInjective(stored), NEW i \in Ids, leave(i)
  PROVE  /\ stored' \in Seq(Ids) /\ IsInjective(stored')
         /\ i \in ToSet(stored) /\ ToSet(stored') \subseteq ToSet(stored) \ {i}
<1>1. PICK n \in DOMAIN stored : stored[n] = i /\ stored' = RemoveAt(stored, n)
  BY DEF leave
<1>2. PICK s \in Seq(Ids) : s = stored
  OBVIOUS
<1>3. PICK t \in Seq(Ids) : t = stored'
  BY <1>1, RemoveAtFacts
<1>4. \A k \in DOMAIN t : /\ k \in DOMAIN s /\ k + 1 \in DOMAIN s
                          /\ t[k] = IF k < n THEN s[k] ELSE s[k + 1]
  BY <1>1, <1>2, <1>3, RemoveAtFacts
<1>5. \A x, y \in DOMAIN s : s[x] = s[y] => x = y
  BY <1>2 DEF IsInjective
<1>6. n \in DOMAIN s /\ s[n] = i /\ \A k \in DOMAIN s : s[k] \in ToSet(stored)
  BY <1>1, <1>2 DEF ToSet
<1>7. IsInjective(t)
  <2> SUFFICES ASSUME NEW j \in DOMAIN t, NEW k \in DOMAIN t, t[j] = t[k]
               PROVE  j = k
    BY DEF IsInjective
  <2>1. (IF j < n THEN j ELSE j + 1) = (IF k < n THEN k ELSE k + 1)
    BY <1>4, <1>5
  <2>2. j \in Nat /\ k \in Nat /\ n \in Nat
    BY <1>2, <1>4, <1>6
  <2> QED BY <2>1, <2>2
<1>8. ToSet(t) \subseteq ToSet(stored) \ {i}
  <2> SUFFICES ASSUME NEW k \in DOMAIN t
               PROVE  t[k] \in ToSet(stored) \ {i}
    BY DEF ToSet
  <2>1. k \in Nat /\ n \in Nat
    BY <1>2, <1>4, <1>6
  <2>2. CASE k < n
    BY <1>4, <1>5, <1>6, <2>1, <2>2
  <2>3. CASE k >= n
    BY <1>4, <1>5, <1>6, <2>1, <2>3
  <2> QED BY <2>1, <2>2, <2>3
<1> QED BY <1>3, <1>6, <1>7, <1>8

(* What a write may do: a document is new, goes, or gets another role.       *)
Writes(i) == createOne(i) \/ demote(i) \/ restore(i) \/ deleteOne(i)

LEMMA RowsStayDistinct ==
  ASSUME TypeOK, RowsAreDistinct, NEW i \in Ids, Writes(i)
  PROVE  /\ stored' \in Seq(Ids) /\ others' \subseteq Ids /\ used' \subseteq Ids
         /\ RowsAreDistinct'
<1>1. /\ stored \in Seq(Ids) /\ others \subseteq Ids /\ used \subseteq Ids
      /\ IsInjective(stored) /\ ToSet(stored) \subseteq used
      /\ others \subseteq used /\ ToSet(stored) \cap others = {}
  BY DEF TypeOK, RowsAreDistinct
<1>2. CASE createOne(i)
  <2>1. i \notin used /\ used' = used \cup {i} /\ enter(i) /\ others' = others
    BY <1>2 DEF createOne
  <2>2. /\ stored' \in Seq(Ids) /\ IsInjective(stored')
        /\ ToSet(stored') \subseteq ToSet(stored) \cup {i}
    BY <1>1, <2>1, RowEnters
  <2> QED BY <1>1, <2>1, <2>2 DEF RowsAreDistinct
<1>3. CASE demote(i)
  <2>1. leave(i) /\ others' = others \cup {i} /\ used' = used
    BY <1>3 DEF demote
  <2>2. /\ stored' \in Seq(Ids) /\ IsInjective(stored')
        /\ i \in ToSet(stored) /\ ToSet(stored') \subseteq ToSet(stored) \ {i}
    BY <1>1, <2>1, RowLeaves
  <2> QED BY <1>1, <2>1, <2>2 DEF RowsAreDistinct
<1>4. CASE restore(i)
  <2>1. i \in others /\ others' = others \ {i} /\ enter(i) /\ used' = used
    BY <1>4 DEF restore
  <2>2. /\ stored' \in Seq(Ids) /\ IsInjective(stored')
        /\ ToSet(stored') \subseteq ToSet(stored) \cup {i}
    BY <1>1, <2>1, RowEnters
  <2> QED BY <1>1, <2>1, <2>2 DEF RowsAreDistinct
<1>5. CASE deleteOne(i)
  <2>1. used' = used
    BY <1>5 DEF deleteOne
  <2>2. CASE leave(i) /\ others' = others
    <3>1. /\ stored' \in Seq(Ids) /\ IsInjective(stored')
          /\ ToSet(stored') \subseteq ToSet(stored) \ {i}
      BY <1>1, <2>2, RowLeaves
    <3> QED BY <1>1, <2>1, <2>2, <3>1 DEF RowsAreDistinct
  <2>3. CASE others' = others \ {i} /\ stored' = stored
    BY <1>1, <2>1, <2>3 DEF RowsAreDistinct
  <2> QED BY <1>5, <2>2, <2>3 DEF deleteOne
<1> QED BY <1>2, <1>3, <1>4, <1>5 DEF Writes

LEMMA ListTypeStep == TypeOK /\ RowsAreDistinct /\ [Next]_vars => TypeOK' /\ RowsAreDistinct'
<1> SUFFICES ASSUME TypeOK, RowsAreDistinct, [Next]_vars
             PROVE  TypeOK' /\ RowsAreDistinct'
  OBVIOUS
<1> USE DEF storeVars, listVars, callVars, historyVars
<1>1. CASE UNCHANGED vars
  BY <1>1 DEF TypeOK, RowsAreDistinct, vars
<1>2. ASSUME NEW c \in Calls, Turn(c) \/ Saved(c) \/ Deleted(c)
      PROVE  TypeOK' /\ RowsAreDistinct'
  <2>1. PICK p \in Nat \ {0} : load(c, p)
    BY <1>2, PageNumbers DEF Turn, Saved, Deleted, TypeOK
  <2>2. UNCHANGED <<storeVars, items, count>>
    BY <1>2 DEF Turn, Saved, Deleted
  <2>3. form' \in {form, None} /\ cleared' \subseteq cleared
    BY <1>2 DEF Turn, Saved, Deleted
  <2> QED BY <2>1, <2>2, <2>3 DEF TypeOK, RowsAreDistinct, load
<1>3. ASSUME NEW c \in Calls, submit(c)
      PROVE  TypeOK' /\ RowsAreDistinct'
  BY <1>3 DEF TypeOK, RowsAreDistinct, submit
<1>4. ASSUME NEW c \in Calls, delete(c)
      PROVE  TypeOK' /\ RowsAreDistinct'
  <2>1. PICK i \in ToSet(items) : target' = [target EXCEPT ![c] = i]
    BY <1>4 DEF delete
  <2>2. i \in Ids
    BY ShownIds
  <2> QED BY <1>4, <2>1, <2>2 DEF TypeOK, RowsAreDistinct, delete
<1>5. ASSUME NEW c \in Calls, FindRows(c)
      PROVE  TypeOK' /\ RowsAreDistinct'
  <2>1. PICK q \in Seq(Ids) : q = Slice(stored, asked[c])
    BY SliceFacts DEF TypeOK
  <2>2. rows' = [rows EXCEPT ![c] = q]
    BY <1>5, <2>1 DEF FindRows
  <2>3. ready' \in [Calls -> SUBSET {"rows", "total"}]
    BY <1>5 DEF FindRows, TypeOK
  <2> QED BY <1>5, <2>2, <2>3 DEF TypeOK, RowsAreDistinct, FindRows
<1>6. ASSUME NEW c \in Calls, CountRows(c)
      PROVE  TypeOK' /\ RowsAreDistinct'
  <2>1. PICK n \in Nat : n = Len(stored)
    BY DEF TypeOK
  <2>2. total' = [total EXCEPT ![c] = n]
    BY <1>6, <2>1 DEF CountRows
  <2>3. ready' \in [Calls -> SUBSET {"rows", "total"}]
    BY <1>6 DEF CountRows, TypeOK
  <2> QED BY <1>6, <2>2, <2>3 DEF TypeOK, RowsAreDistinct, CountRows
<1>7. ASSUME NEW c \in Calls, Show(c) \/ LoadFails(c) \/ Failed(c)
      PROVE  TypeOK' /\ RowsAreDistinct'
  <2>1. /\ End(c)
        /\ UNCHANGED <<storeVars, page, form>>
    BY <1>7 DEF Show, LoadFails, Failed
  <2>2. busy' \in BOOLEAN /\ cleared' \subseteq Calls
    BY <1>7 DEF Show, LoadFails, Failed, Release, Saving, TypeOK
  <2>3. items' \in Seq(Ids) /\ count' \in Nat /\ astray' \in BOOLEAN
    <3>1. CASE Show(c)
      <4>1. rows[c] \in Seq(Ids) /\ total[c] \in Nat
        BY DEF TypeOK
      <4> QED BY <3>1, <4>1 DEF Show, TypeOK
    <3>2. CASE LoadFails(c) \/ Failed(c)
      BY <3>2 DEF LoadFails, Failed, TypeOK
    <3> QED BY <1>7, <3>1, <3>2
  <2> QED BY <2>1, <2>2, <2>3 DEF TypeOK, RowsAreDistinct, End
<1>8. ASSUME NEW c \in Calls, Save(c) \/ Delete(c) \/ Refuse(c)
      PROVE  TypeOK' /\ RowsAreDistinct'
  <2>1. /\ UNCHANGED <<listVars, busy, form, asked, ready, rows, total, cleared>>
        /\ target' = [target EXCEPT ![c] = None]
    BY <1>8 DEF Save, Delete, Refuse
  <2>2. /\ stage' \in [Calls -> Stages]
        /\ astray' \in BOOLEAN
    BY <1>8 DEF Save, Delete, Refuse, Noticed, TypeOK, Stages
  <2>3. UNCHANGED storeVars \/ \E i \in Ids : Writes(i)
    <3>1. target[c] \in Ids \cup {None} /\ stored \in Seq(Ids) /\ others \subseteq Ids
      BY DEF TypeOK
    <3>2. \A i : demote(i) \/ restore(i) \/ deleteOne(i) => i \in Ids
      BY <3>1 DEF demote, restore, deleteOne, leave
    <3>3. CASE Save(c)
      BY <3>2, <3>3 DEF Save, Writes
    <3>4. CASE Delete(c)
      BY <3>2, <3>4 DEF Delete, Writes
    <3>5. CASE Refuse(c)
      BY <3>5 DEF Refuse
    <3> QED BY <1>8, <3>3, <3>4, <3>5
  <2>4. /\ stored' \in Seq(Ids) /\ others' \subseteq Ids /\ used' \subseteq Ids
        /\ RowsAreDistinct'
    <3>1. CASE UNCHANGED storeVars
      BY <3>1 DEF TypeOK, RowsAreDistinct
    <3> QED BY <2>3, <3>1, RowsStayDistinct
  <2> QED BY <2>1, <2>2, <2>4 DEF TypeOK, Stages
<1>9. CASE edit
  <2>1. form' \in Ids
    BY <1>9, ShownIds DEF edit
  <2> QED BY <1>9, <2>1 DEF edit, TypeOK, RowsAreDistinct
<1>10. CASE reset \/ logout
  <2>1. CASE reset
    BY <2>1 DEF reset, TypeOK, RowsAreDistinct
  <2>2. CASE logout
    <3>1. items' \in Seq(Ids) /\ page' \in Nat \ {0}
      BY <2>2 DEF logout
    <3> QED BY <2>2, <3>1 DEF logout, TypeOK, RowsAreDistinct
  <2> QED BY <1>10, <2>1, <2>2
<1>11. CASE Elsewhere
  <2>1. PICK i \in Ids : Writes(i)
    BY <1>11 DEF Elsewhere, Writes
  <2>2. /\ stored' \in Seq(Ids) /\ others' \subseteq Ids /\ used' \subseteq Ids
        /\ RowsAreDistinct'
    BY <2>1, RowsStayDistinct
  <2>3. astray' \in BOOLEAN
    BY <1>11 DEF Elsewhere, Noticed, TypeOK
  <2> QED BY <1>11, <2>2, <2>3 DEF Elsewhere, TypeOK
<1> QED BY <1>1, <1>2, <1>3, <1>4, <1>5, <1>6, <1>7, <1>8, <1>9, <1>10, <1>11 DEF Next, Answer

LoadInv == NothingGathered /\ LoadsOnePage /\ GatheredIsRight /\ ShownIsRight

(* A load starts with nothing gathered; it counts as overlapping if another  *)
(* is under way.                                                             *)
LEMMA LoadStarts ==
  ASSUME ListInv, NEW c \in Calls, NEW p \in Nat \ {0}, load(c, p), stage[c] # "load",
         UNCHANGED <<storeVars, items, count>>
  PROVE  LoadInv'
<1>1. /\ stage \in [Calls -> Stages] /\ asked \in [Calls -> Nat \ {0}]
      /\ NothingGathered
  BY DEF ListInv, TypeOK, Stages
<1>2. /\ stage' = [stage EXCEPT ![c] = "load"] /\ asked' = [asked EXCEPT ![c] = p]
      /\ ready' = ready /\ page' = p /\ astray' = (Loading # {})
  BY DEF load
<1>3. Loading' = Loading \cup {c} /\ stage'[c] = "load" /\ asked'[c] = p /\ ready[c] = {}
  BY <1>1, <1>2 DEF Loading, NothingGathered
<1>4. NothingGathered'
  BY <1>1, <1>2 DEF NothingGathered
<1>5. LoadsOnePage'
  BY <1>2, <1>3 DEF LoadsOnePage
<1>6. GatheredIsRight'
  BY <1>2, <1>3 DEF GatheredIsRight
<1>7. ShownIsRight'
  BY <1>3 DEF ShownIsRight
<1> QED BY <1>4, <1>5, <1>6, <1>7 DEF LoadInv

(* A query of a load answers.                                                *)
LEMMA LoadGathers ==
  ASSUME ListInv, NEW c \in Calls, FindRows(c) \/ CountRows(c)
  PROVE  LoadInv'
<1>1. /\ ready \in [Calls -> SUBSET {"rows", "total"}] /\ rows \in [Calls -> Seq(Ids)]
      /\ total \in [Calls -> Nat]
      /\ NothingGathered /\ LoadsOnePage /\ GatheredIsRight /\ ShownIsRight
  BY DEF ListInv, TypeOK
<1>2. /\ stage[c] = "load"
      /\ UNCHANGED <<storeVars, listVars, stage, asked, astray>>
  BY DEF FindRows, CountRows, historyVars
<1>3. Loading' = Loading /\ c \in Loading
  BY <1>2 DEF Loading
<1>4. UNCHANGED <<stored, page, items, count>>
  BY <1>2 DEF storeVars, listVars
<1>5. \/ /\ ready' = [ready EXCEPT ![c] = @ \cup {"rows"}]
         /\ rows' = [rows EXCEPT ![c] = Slice(stored, asked[c])]
         /\ total' = total
      \/ /\ ready' = [ready EXCEPT ![c] = @ \cup {"total"}]
         /\ total' = [total EXCEPT ![c] = Len(stored)]
         /\ rows' = rows
  BY DEF FindRows, CountRows
<1>6. NothingGathered'
  BY <1>1, <1>2, <1>5 DEF NothingGathered
<1>7. LoadsOnePage'
  BY <1>1, <1>2, <1>3, <1>4 DEF LoadsOnePage
<1>8. GatheredIsRight'
  <2> SUFFICES ASSUME ~astray, NEW d \in Loading
               PROVE  /\ "rows" \in ready'[d] => rows'[d] = Slice(stored, page)
                      /\ "total" \in ready'[d] => total'[d] = Len(stored)
    BY <1>2, <1>3, <1>4 DEF GatheredIsRight
  <2>1. d \in Calls /\ d = c /\ asked[c] = page
    BY <1>1, <1>3 DEF LoadsOnePage, Loading
  <2>2. /\ "rows" \in ready[c] => rows[c] = Slice(stored, page)
        /\ "total" \in ready[c] => total[c] = Len(stored)
    BY <1>1, <1>3 DEF GatheredIsRight
  <2>3. CASE /\ ready' = [ready EXCEPT ![c] = @ \cup {"rows"}]
             /\ rows' = [rows EXCEPT ![c] = Slice(stored, asked[c])]
             /\ total' = total
    BY <1>1, <2>1, <2>2, <2>3
  <2>4. CASE /\ ready' = [ready EXCEPT ![c] = @ \cup {"total"}]
             /\ total' = [total EXCEPT ![c] = Len(stored)]
             /\ rows' = rows
    BY <1>1, <2>1, <2>2, <2>4
  <2> QED BY <1>5, <2>3, <2>4
<1>9. ShownIsRight'
  BY <1>3 DEF ShownIsRight
<1> QED BY <1>6, <1>7, <1>8, <1>9 DEF LoadInv

(* A call ends: the rows of a load are shown, those of a failed one are not. *)
LEMMA CallEnds ==
  ASSUME ListInv, NEW c \in Calls, Show(c) \/ LoadFails(c) \/ Failed(c)
  PROVE  LoadInv'
<1>1. /\ stage \in [Calls -> Stages] /\ ready \in [Calls -> SUBSET {"rows", "total"}]
      /\ rows \in [Calls -> Seq(Ids)] /\ total \in [Calls -> Nat]
      /\ asked \in [Calls -> Nat \ {0}]
      /\ NothingGathered /\ LoadsOnePage /\ GatheredIsRight /\ ShownIsRight
  BY DEF ListInv, TypeOK, Stages
<1>2. End(c)
  BY DEF Show, LoadFails, Failed
<1>3. /\ Loading' = Loading \ {c}
      /\ \A d \in Calls \ {c} : /\ ready'[d] = ready[d] /\ rows'[d] = rows[d]
                                /\ total'[d] = total[d] /\ asked'[d] = asked[d]
      /\ \A d \in Calls \ {c} : stage'[d] = stage[d]
      /\ ready'[c] = {}
  BY <1>1, <1>2 DEF End, Loading
<1>4. UNCHANGED <<stored, page>>
  BY DEF Show, LoadFails, Failed, storeVars, listVars
<1>5. NothingGathered'
  BY <1>1, <1>3 DEF NothingGathered
<1>6. ~astray' => ~astray
  BY DEF Show, LoadFails, Failed
<1>7. LoadsOnePage'
  BY <1>1, <1>3, <1>4, <1>6 DEF LoadsOnePage, Loading
<1>8. GatheredIsRight'
  BY <1>1, <1>3, <1>4, <1>6 DEF GatheredIsRight, Loading
<1>9. ShownIsRight'
  <2>1. CASE Show(c)
    <3>1. /\ c \in Loading /\ ready[c] = {"rows", "total"}
          /\ items' = rows[c] /\ count' = total[c]
      BY <2>1 DEF Show, Loading
    <3> QED BY <1>1, <1>4, <1>6, <3>1 DEF ShownIsRight, GatheredIsRight
  <2>2. CASE LoadFails(c)
    BY <2>2 DEF LoadFails, ShownIsRight
  <2>3. CASE Failed(c)
    <3>1. Loading' = Loading /\ UNCHANGED <<items, count>>
      BY <1>3, <2>3 DEF Failed, Loading, listVars
    <3> QED BY <1>1, <1>4, <1>6, <3>1 DEF ShownIsRight
  <2> QED BY <2>1, <2>2, <2>3
<1> QED BY <1>5, <1>7, <1>8, <1>9 DEF LoadInv

(* Every other step leaves the loads alone, and what they gathered stays     *)
(* right unless the collection changes or the list is emptied.               *)
LEMMA OtherSteps ==
  ASSUME ListInv,
         \/ stage' = stage
         \/ \E c \in Calls, to \in Stages \ {"load"} :
              stage[c] # "load" /\ stage' = [stage EXCEPT ![c] = to],
         UNCHANGED <<asked, ready, rows, total>>,
         UNCHANGED <<stored, page, items, count, astray>> \/ astray'
  PROVE  LoadInv'
<1>1. /\ stage \in [Calls -> Stages]
      /\ NothingGathered /\ LoadsOnePage /\ GatheredIsRight /\ ShownIsRight
  BY DEF ListInv, TypeOK, Stages
<1>2. Loading' = Loading
  BY <1>1 DEF Loading
<1>3. NothingGathered'
  BY <1>1 DEF NothingGathered
<1>4. LoadsOnePage'
  BY <1>1, <1>2 DEF LoadsOnePage
<1>5. GatheredIsRight'
  BY <1>1, <1>2 DEF GatheredIsRight
<1>6. ShownIsRight'
  BY <1>1, <1>2 DEF ShownIsRight
<1> QED BY <1>3, <1>4, <1>5, <1>6 DEF LoadInv

LEMMA ListInvStep == ListInv /\ [Next]_vars => ListInv'
<1> SUFFICES ASSUME ListInv, [Next]_vars
             PROVE  LoadInv'
  BY ListTypeStep DEF ListInv, LoadInv
<1> USE DEF storeVars, listVars, callVars, historyVars
<1>1. CASE UNCHANGED vars
  BY <1>1, OtherSteps DEF vars
<1>2. ASSUME NEW c \in Calls, Turn(c) \/ Saved(c) \/ Deleted(c)
      PROVE  LoadInv'
  <2>1. PICK p \in Nat \ {0} : load(c, p)
    BY <1>2, PageNumbers DEF Turn, Saved, Deleted, ListInv, TypeOK
  <2>2. stage[c] # "load" /\ UNCHANGED <<storeVars, items, count>>
    BY <1>2 DEF Turn, Saved, Deleted
  <2> QED BY <2>1, <2>2, LoadStarts
<1>3. ASSUME NEW c \in Calls, submit(c) \/ delete(c)
      PROVE  LoadInv'
  <2>1. UNCHANGED <<asked, ready, rows, total, stored, page, items, count, astray>>
    BY <1>3 DEF submit, delete
  <2>2. stage[c] = "idle" /\ \E to \in {"save", "delete"} : stage' = [stage EXCEPT ![c] = to]
    BY <1>3 DEF submit, delete
  <2> QED BY <2>1, <2>2, OtherSteps DEF Stages
<1>4. ASSUME NEW c \in Calls, FindRows(c) \/ CountRows(c)
      PROVE  LoadInv'
  BY <1>4, LoadGathers
<1>5. ASSUME NEW c \in Calls, Show(c) \/ LoadFails(c) \/ Failed(c)
      PROVE  LoadInv'
  BY <1>5, CallEnds
<1>6. ASSUME NEW c \in Calls, Save(c) \/ Delete(c) \/ Refuse(c)
      PROVE  LoadInv'
  <2>1. UNCHANGED <<asked, ready, rows, total, page, items, count>>
    BY <1>6 DEF Save, Delete, Refuse
  <2>2. UNCHANGED <<stored, astray>> \/ astray'
    <3>1. CASE Save(c) \/ Delete(c)
      BY <3>1 DEF Save, Delete, Noticed, ListInv, TypeOK
    <3>2. CASE Refuse(c)
      BY <3>2 DEF Refuse
    <3> QED BY <1>6, <3>1, <3>2
  <2>3. /\ stage[c] # "load"
        /\ \E to \in Stages \ {"load"} : stage' = [stage EXCEPT ![c] = to]
    BY <1>6 DEF Save, Delete, Refuse, Stages
  <2> QED BY <2>1, <2>2, <2>3, OtherSteps
<1>7. CASE edit \/ reset \/ logout \/ Elsewhere
  <2>1. UNCHANGED <<stage, asked, ready, rows, total>>
    BY <1>7 DEF edit, reset, logout, Elsewhere
  <2>2. UNCHANGED <<stored, page, items, count, astray>> \/ astray'
    <3>1. CASE edit \/ reset \/ logout
      BY <3>1 DEF edit, reset, logout
    <3>2. CASE Elsewhere
      BY <3>2 DEF Elsewhere, Noticed, ListInv, TypeOK
    <3> QED BY <1>7, <3>1, <3>2
  <2> QED BY <2>1, <2>2, OtherSteps
<1> QED BY <1>1, <1>2, <1>3, <1>4, <1>5, <1>6, <1>7 DEF Next, Answer

LEMMA ListInvHolds == Spec => []ListInv
<1>1. Init => ListInv
  <2> SUFFICES ASSUME Init
               PROVE  ListInv
    OBVIOUS
  <2>1. TypeOK
    <3>1. stored \in Seq(Ids) /\ items \in Seq(Ids) /\ rows \in [Calls -> Seq(Ids)]
      BY DEF Init
    <3>2. /\ stage \in [Calls -> Stages] /\ target \in [Calls -> Ids \cup {None}]
          /\ asked \in [Calls -> Nat \ {0}] /\ total \in [Calls -> Nat]
      BY DEF Init, Stages
    <3>3. ready \in [Calls -> SUBSET {"rows", "total"}]
      BY DEF Init
    <3>4. page \in Nat \ {0} /\ count \in Nat
      BY DEF Init
    <3>5. /\ others \subseteq Ids /\ used \subseteq Ids /\ form \in Ids \cup {None}
          /\ cleared \subseteq Calls /\ busy \in BOOLEAN /\ astray \in BOOLEAN
      BY Zenon DEF Init
    <3> QED BY <3>1, <3>2, <3>3, <3>4, <3>5 DEF TypeOK, Stages
  <2>2. RowsAreDistinct /\ NothingGathered /\ LoadsOnePage /\ GatheredIsRight
    BY DEF Init, RowsAreDistinct, IsInjective, ToSet, NothingGathered, LoadsOnePage,
           GatheredIsRight, Loading
  <2>3. ShownIsRight
    <3>1. stored \in Seq(Ids) /\ page \in Nat \ {0}
      BY <2>1 DEF TypeOK
    <3>2. /\ Slice(stored, page) \in Seq(Ids)
          /\ Len(Slice(stored, page)) =
               IF skip(page) + take <= Len(stored) THEN take
               ELSE IF skip(page) < Len(stored) THEN Len(stored) - skip(page) ELSE 0
      BY <3>1, SliceFacts
    <3>3. skip(page) = 0 /\ Len(stored) = 0
      BY TakeAssumption DEF Init, skip
    <3>4. Len(Slice(stored, page)) = 0
      BY <3>2, <3>3, TakeAssumption
    <3>5. Slice(stored, page) = <<>>
      BY <3>2, <3>4, EmptySeq
    <3> QED BY <3>3, <3>5 DEF Init, ShownIsRight
  <2> QED BY <2>1, <2>2, <2>3 DEF ListInv
<1> QED BY <1>1, ListInvStep, PTL DEF Spec
-----------------------------------------------------------------------------
(* The page a row belongs on and the number of pages.                        *)
LEMMA Quotients ==
  ASSUME NEW t \in Nat \ {0}, NEW n \in Nat, NEW q \in Nat
  PROVE  /\ n \div t \in Nat
         /\ n \div t = q <=> t * q <= n /\ n < t * q + t
         /\ n \div t > q <=> t * q + t <= n
<1>1. n \div t \in Nat /\ t * (n \div t) <= n /\ n < t * (n \div t) + t
  OBVIOUS
<1>2. PICK d \in Nat : d = n \div t
  BY <1>1
<1>3. t * d <= n /\ n < t * d + t
  BY <1>1, <1>2
<1>4. d < q => t * d + t <= t * q
  OBVIOUS
<1>5. q < d => t * q + t <= t * d
  OBVIOUS
<1>6. t * d \in Nat /\ t * q \in Nat
  OBVIOUS
<1>7. PICK a \in Nat, b \in Nat : a = t * d /\ b = t * q
  BY <1>6
<1>8. a <= n /\ n < a + t /\ (d < q => a + t <= b) /\ (q < d => b + t <= a) /\ (d = q => a = b)
  BY <1>3, <1>4, <1>5, <1>7
<1>9. (d = q <=> b <= n /\ n < b + t) /\ (d > q <=> b + t <= n)
  BY <1>8
<1> QED BY <1>1, <1>2, <1>7, <1>9

LEMMA LastPage ==
  ASSUME NEW n \in Nat, NEW p \in Nat \ {0}
  PROVE  p < lastPage(n) <=> skip(p) + take < n
<1>1. PICK t \in Nat \ {0} : t = take
  BY TakeAssumption
<1>2. PICK a \in Nat : a = t * p
  OBVIOUS
<1>3. t * (p - 1) + t = a
  BY <1>2
<1>4. skip(p) + take = a
  BY <1>1, <1>3 DEF skip
<1>5. CASE n = 0
  BY <1>1, <1>2, <1>4, <1>5 DEF lastPage
<1>6. CASE n # 0
  <2>1. n + t - 1 \in Nat
    BY <1>6
  <2>2. (n + t - 1) \div t > p <=> a + t <= n + t - 1
    BY <1>2, <2>1, Quotients
  <2>3. lastPage(n) = (n + t - 1) \div t /\ (n + t - 1) \div t \in Nat
    BY <1>1, <1>6, <2>1, Quotients DEF lastPage
  <2> QED BY <1>4, <2>2, <2>3
<1> QED BY <1>5, <1>6

LEMMA RightPageIsShown == ListInv => ShownPageIsRight
<1> SUFFICES ASSUME ListInv, Quiet, ~astray
             PROVE  /\ ToSet(items) = RowsOn(page)
                    /\ IsInjective(items)
                    /\ page < lastPage(count) <=>
                         \E p \in page + 1 .. page + Len(stored) : RowsOn(p) # {}
  BY DEF ShownPageIsRight
<1>1. Loading = {}
  BY DEF Quiet, Loading
<1>2. items = Slice(stored, page) /\ count = Len(stored)
  BY <1>1 DEF ListInv, ShownIsRight
<1>3. PICK s \in Seq(Ids) : s = stored
  BY DEF ListInv, TypeOK
<1>4. PICK p \in Nat \ {0} : p = page
  BY DEF ListInv, TypeOK
<1>5. PICK t \in Nat \ {0} : t = take
  BY TakeAssumption
<1>6. PICK k \in Nat : k = t * (p - 1)
  OBVIOUS
<1>7. skip(p) = k
  BY <1>5, <1>6 DEF skip
<1>8. PICK q \in Seq(Ids) : q = items
  BY <1>2, <1>3, <1>4, SliceFacts
<1>9. /\ Len(q) = IF k + t <= Len(s) THEN t ELSE IF k < Len(s) THEN Len(s) - k ELSE 0
      /\ \A m \in DOMAIN q : k + m \in DOMAIN s /\ q[m] = s[k + m]
  <2>1. q = Slice(s, p)
    BY <1>2, <1>3, <1>4, <1>8
  <2> QED BY <1>5, <1>7, <2>1, SliceFacts
<1>10. \A x, y \in DOMAIN s : s[x] = s[y] => x = y
  BY <1>3 DEF ListInv, RowsAreDistinct, IsInjective
(* A row is on the page its place gives it.                                  *)
<1>11. ASSUME NEW n \in DOMAIN s, NEW g \in Nat \ {0}
       PROVE  (n - 1) \div t = g - 1 <=> t * (g - 1) < n /\ n <= t * (g - 1) + t
  <2>1. n - 1 \in Nat /\ g - 1 \in Nat
    OBVIOUS
  <2>2. PICK a \in Nat : a = t * (g - 1)
    BY <2>1
  <2>3. (n - 1) \div t = g - 1 <=> a <= n - 1 /\ n - 1 < a + t
    BY <2>1, <2>2, Quotients
  <2> QED BY <2>2, <2>3
<1>12. ToSet(q) = {s[n] : n \in {m \in DOMAIN s : (m - 1) \div t = p - 1}}
  <2>1. ASSUME NEW m \in DOMAIN q
        PROVE  \E n \in {x \in DOMAIN s : (x - 1) \div t = p - 1} : s[n] = q[m]
    <3>1. k + m \in DOMAIN s /\ q[m] = s[k + m] /\ k < k + m /\ k + m <= k + t
      BY <1>9
    <3>2. (k + m - 1) \div t = p - 1
      BY <1>6, <1>11, <3>1
    <3> QED BY <3>1, <3>2
  <2>2. ASSUME NEW n \in DOMAIN s, (n - 1) \div t = p - 1
        PROVE  s[n] \in ToSet(q)
    <3>1. k < n /\ n <= k + t
      BY <1>6, <1>11, <2>2
    <3>2. n - k \in DOMAIN q /\ k + (n - k) = n
      BY <1>9, <3>1
    <3>3. q[n - k] = s[n]
      BY <1>9, <3>2
    <3> QED BY <3>2, <3>3 DEF ToSet
  <2> QED BY <2>1, <2>2 DEF ToSet
<1>13. IsInjective(q)
  <2> SUFFICES ASSUME NEW x \in DOMAIN q, NEW y \in DOMAIN q, q[x] = q[y]
               PROVE  x = y
    BY DEF IsInjective
  <2>1. k + x = k + y
    BY <1>9, <1>10
  <2> QED BY <2>1
<1>14. p < lastPage(Len(s)) <=> k + t < Len(s)
  BY <1>5, <1>7, LastPage
(* The last row of a longer list is on a later page, and a later page with a *)
(* row on it begins after this one ends.                                     *)
<1>15. k + t < Len(s) <=>
         \E g \in p + 1 .. p + Len(s) : {m \in DOMAIN s : (m - 1) \div t = g - 1} # {}
  <2>1. ASSUME k + t < Len(s)
        PROVE  \E g \in p + 1 .. p + Len(s) :
                 {m \in DOMAIN s : (m - 1) \div t = g - 1} # {}
    <3>1. PICK n \in DOMAIN s : n = k + t + 1
      BY <2>1
    <3>2. t * ((p + 1) - 1) = k + t
      BY <1>6
    <3>3. (n - 1) \div t = (p + 1) - 1
      BY <1>11, <3>1, <3>2
    <3>4. p + 1 \in p + 1 .. p + Len(s)
      BY <2>1
    <3> QED BY <3>3, <3>4
  <2>2. ASSUME NEW g \in p + 1 .. p + Len(s), NEW n \in DOMAIN s, (n - 1) \div t = g - 1
        PROVE  k + t < Len(s)
    <3>1. t * (g - 1) < n
      BY <1>11, <2>2
    <3>2. t * (g - 1) >= t * p
      OBVIOUS
    <3>3. t * p = k + t
      BY <1>6
    <3>4. PICK a \in Nat, b \in Nat : a = t * (g - 1) /\ b = t * p
      OBVIOUS
    <3> QED BY <3>1, <3>2, <3>3, <3>4
  <2> QED BY <2>1, <2>2
<1> QED
  <2>1. ToSet(items) = RowsOn(page)
    BY <1>3, <1>4, <1>5, <1>8, <1>12 DEF RowsOn
  <2>2. \A g : RowsOn(g) # {} <=> {m \in DOMAIN s : (m - 1) \div t = g - 1} # {}
    BY <1>3, <1>5 DEF RowsOn
  <2>3. page < lastPage(count) <=>
          \E g \in page + 1 .. page + Len(stored) : RowsOn(g) # {}
    BY <1>2, <1>3, <1>4, <1>14, <1>15, <2>2
  <2> QED BY <1>8, <1>13, <2>1, <2>3
-----------------------------------------------------------------------------
(* Types: the list of rows, what calls wait for and what they have gathered. *)
THEOREM ListTypeCorrect == Spec => []TypeOK
BY ListInvHolds, PTL DEF ListInv

(* With nothing under way the page shows the rows of its number, each once,  *)
(* and "next" just if more follow (loadAdminSymbols, selectManyAndCount).    *)
THEOREM RightPage == Spec => []ShownPageIsRight
BY ListInvHolds, RightPageIsShown, PTL
=============================================================================
