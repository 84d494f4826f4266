--------------------------- MODULE SeedingProofs ----------------------------
(* Proofs about Seeding, for any number of seeds, documents and symbols and  *)
(* whatever the environment says.                                            *)
EXTENDS Seeding, TLAPS

USE KeyAssumption, ValueAssumption, NoneAssumption

(* A seed has found nothing before its query and nothing after its write.    *)
FoundOnlyToWrite ==
  \A s \in Seeds : found[s] # None => stage[s] = "write"

(* An id that holds a document has been given out, as has one that a seed    *)
(* has found; an id is not given out again, so what a seed has found stays   *)
(* of its kind.                                                              *)
OfKind(k, doc) == k \in Emails <=> doc.key \in Emails
IdsAreKept ==
  /\ \A i \in Ids : stored[i] # None => i \in used
  /\ \A s \in Seeds : found[s] # None =>
       /\ found[s] \in used
       /\ stored[found[s]] # None => OfKind(Entry(at[s]).key, stored[found[s]])

(* Beside a disturbed seed that runs there is none that is not disturbed.    *)
DisturbedTogether == Running \cap disturbed # {} => disturbed = Seeds

(* What an undisturbed seed has found still has the key it was looked up by. *)
FoundIsEntry ==
  \A s \in Seeds \ disturbed : found[s] # None => Holds(found[s], Entry(at[s]).key)

(* The entries an undisturbed seed has passed are installed.                 *)
PassedInstalled ==
  \A s \in Seeds \ disturbed :
    /\ s \in Running => \A n \in 1..(at[s] - 1) : Installed(n)
    /\ stage[s] = "done" => \A n \in Entries : Installed(n)

SeedInv ==
  /\ TypeOK
  /\ KeysAreUnique
  /\ FoundOnlyToWrite
  /\ IdsAreKept
  /\ DisturbedTogether
  /\ FoundIsEntry
  /\ PassedInstalled

(* The entries are documents with different keys.                            *)
LEMMA EntryFacts ==
  /\ \A n \in Entries : Entry(n) \in Documents
  /\ \A n \in Entries : Entry(n) = [key |-> Entry(n).key, body |-> Entry(n).body]
  /\ \A m, n \in Entries : Entry(m).key = Entry(n).key => m = n
<1> DEFINE a == DefaultUser(AdminEmail, "ADMIN")
           c == DefaultUser(ClientEmail, "CLIENT")
           s(n) == [key |-> symbols[n - 2], body |-> [isPublic |-> TRUE]]
<1>1. /\ a = [key |-> AdminEmail, body |-> [role |-> "ADMIN", password |-> hash(Password1)]]
      /\ c = [key |-> ClientEmail, body |-> [role |-> "CLIENT", password |-> hash(Password1)]]
  BY DEF DefaultUser, get
<1>2. a.body \in Users /\ c.body \in Users
  BY <1>1 DEF Users, Hashes
<1>3. \A n \in Entries : n # 1 /\ n # 2 => n - 2 \in DOMAIN symbols /\ symbols[n - 2] \in Symbols
  BY DEF Entries
<1>4. \A n \in Entries :
        /\ n = 1 => Entry(n) = a
        /\ n = 2 => Entry(n) = c
        /\ n # 1 /\ n # 2 => Entry(n) = s(n)
  BY DEF Entry
<1>5. \A n \in Entries : Entry(n) \in Documents
  <2>1. a \in Documents /\ c \in Documents
    BY <1>1, <1>2 DEF Documents
  <2>2. \A n \in Entries : n # 1 /\ n # 2 => s(n) \in Documents
    BY <1>3 DEF Documents, Public
  <2> HIDE DEF a, c, s
  <2> QED BY <1>4, <2>1, <2>2
<1>6. \A n \in Entries :
        /\ n = 1 => Entry(n).key = AdminEmail
        /\ n = 2 => Entry(n).key = ClientEmail
        /\ n # 1 /\ n # 2 => Entry(n).key = symbols[n - 2]
  BY <1>1, <1>4
<1>7. \A m, n \in Entries : Entry(m).key = Entry(n).key => m = n
  BY <1>3, <1>6 DEF Entries
<1>8. \A d \in Documents : d = [key |-> d.key, body |-> d.body]
  BY DEF Documents
<1> QED BY <1>5, <1>7, <1>8
-----------------------------------------------------------------------------
(* What a step of any actor does to the store: it writes one document, under *)
(* a key that no other has, in a new id or over one of its kind, or deletes  *)
(* one.                                                                      *)
Written(i) ==
  /\ stored'[i] \in Documents \cup {None}
  /\ stored' = [stored EXCEPT ![i] = stored'[i]]
  /\ used \subseteq used' /\ used' \subseteq Ids
  /\ stored'[i] # None =>
       /\ i \in used'
       /\ stored[i] = None => i \notin used
       /\ stored[i] # None => OfKind(stored'[i].key, stored[i])
       /\ \A j \in Ids \ {i} : ~Holds(j, stored'[i].key)
StoreStep == UNCHANGED <<stored, used>> \/ \E i \in Ids : Written(i)

LEMMA IndexIsOn ==
  ASSUME NEW k, NEW e, Free(k, e)
  PROVE  \A i \in Ids \ e : ~Holds(i, k)
BY DEF Free, uniqueIndex, get

LEMMA DocumentFacts ==
  /\ \A d \in Documents : d.key \in Emails \cup Symbols
  /\ \A d \in Documents, e \in Documents :
       OfKind(d.key, e) => [d EXCEPT !.body = e.body] \in Documents
  /\ \A d \in Documents : \A k \in SameKind(d.key) :
       \A b \in Patched(k, d.body) :
         [key |-> k, body |-> b] \in Documents /\ OfKind(k, d)
  /\ \A k \in Emails \cup Symbols : \A b \in Posted(k) :
       [key |-> k, body |-> b] \in Documents
<1>1. \A k \in Emails \cup Symbols : \A b \in Posted(k) :
        [key |-> k, body |-> b] \in Documents
  BY DEF Posted, Documents, Users
<1>2. \A d \in Documents : d.key \in Emails \cup Symbols
  BY DEF Documents
<1>3. \A d \in Documents, e \in Documents :
        OfKind(d.key, e) => [d EXCEPT !.body = e.body] \in Documents
  BY DEF Documents, OfKind
<1>4. ASSUME NEW d \in Documents, NEW k \in SameKind(d.key), NEW b \in Patched(k, d.body)
      PROVE  [key |-> k, body |-> b] \in Documents /\ OfKind(k, d)
  <2>1. CASE k \in Emails
    <3>1. d.key \in Emails /\ d.body \in Users
      BY <2>1 DEF SameKind, Documents
    <3>2. b \in Users
      BY <2>1, <3>1 DEF Patched, Posted, Users
    <3> QED BY <2>1, <3>1, <3>2 DEF Documents, OfKind
  <2>2. CASE k \notin Emails
    BY <1>2, <2>2 DEF SameKind, Patched, Documents, OfKind
  <2> QED BY <2>1, <2>2
<1> QED BY <1>1, <1>2, <1>3, <1>4

(* What a seed writes, and that it is the entry while no administrator has   *)
(* written beside the seed.                                                  *)
LEMMA WriteFacts ==
  ASSUME SeedInv, NEW s \in Seeds, stage[s] = "write", Write(s)
  PROVE  \E i \in Ids :
           /\ Written(i)
           /\ s \notin disturbed => stored'[i] = Entry(at[s])
           /\ s \notin disturbed /\ stored[i] # None => stored[i].key = Entry(at[s]).key
<1> DEFINE e == Entry(at[s])
<1>1. e \in Documents /\ e = [key |-> e.key, body |-> e.body]
  BY EntryFacts DEF SeedInv, TypeOK
<1>2. CASE found[s] = None
  <2>1. PICK i \in Ids : createOne(i, e)
    BY <1>2 DEF Write
  <2>2. stored'[i] = e /\ stored' = [stored EXCEPT ![i] = e]
    BY <2>1 DEF createOne, SeedInv, TypeOK
  <2>3. \A j \in Ids \ {i} : ~Holds(j, e.key)
    BY <2>1, IndexIsOn DEF createOne
  <2>4. stored[i] = None
    BY <2>1 DEF createOne, SeedInv, IdsAreKept
  <2>5. used' = used \cup {i} /\ i \notin used
    BY <2>1 DEF createOne
  <2> HIDE DEF e
  <2>6. Written(i)
    BY <1>1, <2>2, <2>3, <2>4, <2>5 DEF Written, SeedInv, TypeOK
  <2> QED BY <2>2, <2>4, <2>6 DEF e
<1>3. CASE found[s] # None
  <2> DEFINE i == found[s]
             d == [stored[i] EXCEPT !.body = e.body]
  <2>1. i \in Ids /\ stored[i] \in Documents /\ stored[i] # None
    BY <1>3 DEF Write, SeedInv, TypeOK
  <2>2. updateOne(i, d)
    BY <1>3 DEF Write
  <2>3. OfKind(stored[i].key, e) /\ i \in used
    BY <1>3, <2>1 DEF SeedInv, IdsAreKept, OfKind
  <2>4. d \in Documents /\ d.key = stored[i].key /\ d = [key |-> stored[i].key, body |-> e.body]
    <3>1. stored[i] = [key |-> stored[i].key, body |-> stored[i].body]
      BY <2>1 DEF Documents
    <3>2. d \in Documents
      BY <1>1, <2>1, <2>3, DocumentFacts
    <3> QED BY <3>1, <3>2
  <2>5. stored'[i] = d /\ stored' = [stored EXCEPT ![i] = d] /\ used' = used
    BY <2>1, <2>2 DEF updateOne, SeedInv, TypeOK
  <2>6. \A j \in Ids \ {i} : ~Holds(j, d.key)
    BY <2>2, IndexIsOn DEF updateOne
  <2>7. s \notin disturbed => stored[i].key = e.key
    BY <1>3, <2>1 DEF SeedInv, FoundIsEntry, Holds
  <2>8. s \notin disturbed => d = e
    BY <1>1, <2>4, <2>7
  <2>9. OfKind(d.key, stored[i])
    BY <2>4 DEF OfKind
  <2> HIDE DEF d, i, e
  <2>10. Written(i)
    BY <2>1, <2>3, <2>4, <2>5, <2>6, <2>9 DEF Written, SeedInv, TypeOK
  <2> QED BY <2>1, <2>5, <2>7, <2>8, <2>10 DEF e
<1> QED BY <1>2, <1>3

LEMMA AdminFacts ==
  ASSUME SeedInv, AdminCreate \/ AdminUpdate \/ AdminDelete
  PROVE  StoreStep
<1>1. CASE AdminCreate
  <2>1. PICK i \in Ids, k \in Emails \cup Symbols :
          \E b \in Posted(k) : createOne(i, [key |-> k, body |-> b])
    BY <1>1 DEF AdminCreate
  <2>2. PICK b \in Posted(k) : createOne(i, [key |-> k, body |-> b])
    BY <2>1
  <2> DEFINE d == [key |-> k, body |-> b]
  <2>3. d \in Documents /\ \A j \in Ids \ {i} : ~Holds(j, d.key)
    BY <2>2, DocumentFacts, IndexIsOn DEF createOne
  <2>4. /\ stored'[i] = d /\ stored' = [stored EXCEPT ![i] = d]
        /\ used' = used \cup {i} /\ i \notin used /\ stored[i] = None
    BY <2>2 DEF createOne, SeedInv, TypeOK, IdsAreKept
  <2> HIDE DEF d
  <2> QED BY <2>3, <2>4 DEF Written, StoreStep, SeedInv, TypeOK
<1>2. CASE AdminUpdate
  <2>1. PICK i \in Ids : /\ stored[i] # None
                         /\ \E k \in SameKind(stored[i].key) :
                              \E b \in Patched(k, stored[i].body) :
                                updateOne(i, [key |-> k, body |-> b])
    BY <1>2 DEF AdminUpdate
  <2>a. PICK k \in SameKind(stored[i].key) :
          \E b \in Patched(k, stored[i].body) : updateOne(i, [key |-> k, body |-> b])
    BY <2>1
  <2>2. PICK b \in Patched(k, stored[i].body) : updateOne(i, [key |-> k, body |-> b])
    BY <2>a
  <2> DEFINE d == [key |-> k, body |-> b]
  <2>3. stored[i] \in Documents /\ i \in used
    BY <2>1 DEF SeedInv, TypeOK, IdsAreKept
  <2>4. d \in Documents /\ OfKind(k, stored[i]) /\ d.key = k
    BY <2>3, DocumentFacts
  <2>5. \A j \in Ids \ {i} : ~Holds(j, d.key)
    BY <2>2, IndexIsOn DEF updateOne
  <2>6. stored'[i] = d /\ stored' = [stored EXCEPT ![i] = d] /\ used' = used
    BY <2>2 DEF updateOne, SeedInv, TypeOK
  <2> HIDE DEF d
  <2> QED BY <2>1, <2>3, <2>4, <2>5, <2>6 DEF Written, StoreStep, SeedInv, TypeOK
<1>3. CASE AdminDelete
  <2>1. PICK i \in Ids : stored' = [stored EXCEPT ![i] = None] /\ used' = used
    BY <1>3 DEF AdminDelete
  <2>2. stored'[i] = None /\ used \subseteq Ids
    BY <2>1 DEF SeedInv, TypeOK
  <2>3. Written(i)
    BY <2>1, <2>2 DEF Written
  <2> QED BY <2>3 DEF StoreStep
<1> QED BY <1>1, <1>2, <1>3

LEMMA StoreSteps ==
  ASSUME SeedInv, [Next]_vars
  PROVE  StoreStep
<1>1. CASE AdminCreate \/ AdminUpdate \/ AdminDelete
  BY <1>1, AdminFacts
<1>2. ASSUME NEW s \in Seeds, CreateOrUpdate(s) \/ Fail(s)
      PROVE  StoreStep
  BY <1>2, WriteFacts DEF CreateOrUpdate, Fail, StoreStep
<1>3. ASSUME NEW s \in Seeds, Begin(s) \/ Select(s) \/ Refused(s)
      PROVE  StoreStep
  BY <1>3 DEF Begin, Select, Refused, StoreStep
<1>4. CASE UNCHANGED vars
  BY <1>4 DEF vars, StoreStep
<1> QED BY <1>1, <1>2, <1>3, <1>4 DEF Next

(* What a step changes of a seed and what it leaves of the others.           *)
SameSeed(t) == stage'[t] = stage[t] /\ at'[t] = at[t] /\ found'[t] = found[t]

LEMMA SeedSteps ==
  ASSUME SeedInv, NEW s \in Seeds,
         Begin(s) \/ Select(s) \/ CreateOrUpdate(s) \/ Refused(s) \/ Fail(s)
  PROVE  /\ \A t \in Seeds \ {s} : SameSeed(t)
         /\ stage' \in [Seeds -> {"idle", "select", "write", "done", "aborted"}]
         /\ at' \in [Seeds -> Entries]
         /\ found' \in [Seeds -> Ids \cup {None}]
         /\ found'[s] # None => stage'[s] = "write" /\ Select(s)
         /\ stage'[s] = "done" => CreateOrUpdate(s) /\ at[s] + 1 \notin Entries
<1> USE DEF SeedInv, TypeOK
<1>1. 1 \in Entries
  BY DEF Entries
<1>2. CASE Begin(s)
  BY <1>1, <1>2 DEF Begin, SameSeed
<1>3. CASE Select(s)
  <2>1. found[s] = None
    BY <1>3 DEF Select, FoundOnlyToWrite
  <2>2. \/ found' = found
        \/ \E i \in Ids : found' = [found EXCEPT ![s] = i]
    BY <1>3 DEF Select
  <2>3. stage' = [stage EXCEPT ![s] = "write"] /\ at' = at
    BY <1>3 DEF Select
  <2> QED BY <1>3, <2>1, <2>2, <2>3 DEF SameSeed
<1>4. CASE CreateOrUpdate(s)
  BY <1>4 DEF CreateOrUpdate, Continue, Advance, SameSeed
<1>5. CASE Refused(s) \/ Fail(s)
  BY <1>5 DEF Refused, Fail, Abort, SameSeed
<1> QED BY <1>2, <1>3, <1>4, <1>5

LEMMA TypeStep ==
  ASSUME SeedInv, [Next]_vars
  PROVE  TypeOK'
<1>1. stored' \in [Ids -> Documents \cup {None}] /\ used' \subseteq Ids
  BY StoreSteps DEF StoreStep, Written, SeedInv, TypeOK
<1>2. /\ stage' \in [Seeds -> {"idle", "select", "write", "done", "aborted"}]
      /\ at' \in [Seeds -> Entries]
      /\ found' \in [Seeds -> Ids \cup {None}]
  <2>1. CASE UNCHANGED seedVars
    BY <2>1 DEF seedVars, SeedInv, TypeOK
  <2> QED BY <2>1, SeedSteps
          DEF Next, AdminCreate, AdminUpdate, AdminDelete, vars, seedVars
<1>3. disturbed' \subseteq Seeds /\ failed' \subseteq Seeds
  BY DEF Next, Begin, Select, CreateOrUpdate, Refused, Fail, AdminCreate,
         AdminUpdate, AdminDelete, vars, SeedInv, TypeOK
<1> QED BY <1>1, <1>2, <1>3 DEF TypeOK

LEMMA UniqueStep ==
  ASSUME SeedInv, [Next]_vars
  PROVE  KeysAreUnique'
BY StoreSteps DEF StoreStep, Written, KeysAreUnique, Holds, SeedInv, TypeOK

(* Whoever runs beside an administrator has been disturbed.                  *)
LEMMA DisturbedStep ==
  ASSUME SeedInv, [Next]_vars
  PROVE  DisturbedTogether'
<1>1. CASE AdminCreate \/ AdminUpdate \/ AdminDelete
  BY <1>1 DEF AdminCreate, AdminUpdate, AdminDelete, DisturbedTogether
<1>2. ASSUME NEW s \in Seeds, Begin(s)
      PROVE  DisturbedTogether'
  <2>1. Running' = Running \cup {s}
    BY <1>2 DEF Begin, Running, SeedInv, TypeOK
  <2> QED BY <1>2, <2>1 DEF Begin, DisturbedTogether, SeedInv, TypeOK
<1>3. ASSUME NEW s \in Seeds,
             Select(s) \/ CreateOrUpdate(s) \/ Refused(s) \/ Fail(s)
      PROVE  DisturbedTogether'
  <2>1. Running' \subseteq Running
    BY <1>3, SeedSteps
       DEF Select, CreateOrUpdate, Refused, Fail, Running, SameSeed
  <2>2. disturbed' = disturbed
    BY <1>3 DEF Select, CreateOrUpdate, Refused, Fail
  <2> QED BY <2>1, <2>2 DEF DisturbedTogether, SeedInv
<1>4. CASE UNCHANGED vars
  BY <1>4 DEF vars, seedVars, DisturbedTogether, Running, SeedInv
<1> QED BY <1>1, <1>2, <1>3, <1>4 DEF Next

LEMMA FoundOnlyStep ==
  ASSUME SeedInv, [Next]_vars
  PROVE  FoundOnlyToWrite'
<1>1. CASE UNCHANGED seedVars
  BY <1>1 DEF seedVars, FoundOnlyToWrite, SeedInv
<1>2. ASSUME NEW s \in Seeds,
             Begin(s) \/ Select(s) \/ CreateOrUpdate(s) \/ Refused(s) \/ Fail(s)
      PROVE  FoundOnlyToWrite'
  BY <1>2, SeedSteps DEF SameSeed, FoundOnlyToWrite, SeedInv
<1> QED BY <1>1, <1>2 DEF Next, AdminCreate, AdminUpdate, AdminDelete, vars, seedVars

(* A query finds a document of the entry's key, and changes neither.         *)
LEMMA SelectFacts ==
  ASSUME SeedInv, NEW s \in Seeds, Select(s), found'[s] # None
  PROVE  /\ found'[s] \in Ids /\ Holds(found'[s], Entry(at[s]).key)
         /\ UNCHANGED <<stored, used, at, disturbed>>
<1>1. found[s] = None
  BY DEF Select, FoundOnlyToWrite, SeedInv
<1>2. PICK i \in Ids : Holds(i, Entry(at[s]).key) /\ found' = [found EXCEPT ![s] = i]
  BY <1>1 DEF Select
<1> QED BY <1>2 DEF Select, SeedInv, TypeOK

LEMMA KeptStep ==
  ASSUME SeedInv, [Next]_vars
  PROVE  IdsAreKept'
<1>1. /\ \A i \in Ids : stored'[i] # None => i \in used'
      /\ used \subseteq used'
      /\ \A i \in Ids : i \in used /\ stored'[i] # None =>
           stored[i] # None /\ OfKind(stored'[i].key, stored[i])
  BY StoreSteps DEF StoreStep, Written, OfKind, IdsAreKept, SeedInv, TypeOK
<1> DEFINE Kept(t) == found'[t] # None =>
             /\ found'[t] \in used'
             /\ stored'[found'[t]] # None =>
                  OfKind(Entry(at'[t]).key, stored'[found'[t]])
<1>2. ASSUME NEW t \in Seeds, SameSeed(t)
      PROVE  Kept(t)
  <2>1. CASE found[t] = None
    BY <1>2, <2>1 DEF SameSeed
  <2>2. CASE found[t] # None
    <3>1. /\ found[t] \in Ids /\ found[t] \in used
          /\ stored[found[t]] # None => OfKind(Entry(at[t]).key, stored[found[t]])
      BY <2>2 DEF IdsAreKept, SeedInv, TypeOK
    <3> QED BY <1>1, <1>2, <3>1 DEF SameSeed, OfKind
  <2> QED BY <2>1, <2>2
<1>3. ASSUME NEW s \in Seeds,
             Begin(s) \/ Select(s) \/ CreateOrUpdate(s) \/ Refused(s) \/ Fail(s)
      PROVE  \A t \in Seeds : Kept(t)
  <2>1. \A t \in Seeds \ {s} : SameSeed(t)
    BY <1>3, SeedSteps
  <2>2. ASSUME found'[s] # None
        PROVE  Kept(s)
    <3>1. Select(s)
      BY <1>3, <2>2, SeedSteps
    <3>2. /\ found'[s] \in Ids /\ Holds(found'[s], Entry(at[s]).key)
          /\ UNCHANGED <<stored, used, at>>
      BY <2>2, <3>1, SelectFacts
    <3> QED BY <1>1, <3>2 DEF Holds, OfKind
  <2> HIDE DEF Kept
  <2>3. found'[s] = None => Kept(s)
    BY DEF Kept
  <2> QED BY <1>2, <2>1, <2>2, <2>3
<1>4. ASSUME UNCHANGED seedVars
      PROVE  \A t \in Seeds : Kept(t)
  <2>1. \A t \in Seeds : SameSeed(t)
    BY <1>4 DEF seedVars, SameSeed
  <2> HIDE DEF Kept
  <2> QED BY <1>2, <2>1
<1>5. \A t \in Seeds : Kept(t)
  <2> HIDE DEF Kept
  <2> QED BY <1>3, <1>4 DEF Next, AdminCreate, AdminUpdate, AdminDelete, vars, seedVars
<1> QED BY <1>1, <1>5 DEF IdsAreKept

(* Where nobody is disturbed only seeds write, and each its own entry: a     *)
(* document that was found or installed stays so.                            *)
LEMMA EntriesStay ==
  ASSUME SeedInv, NEW s \in Seeds, stage[s] = "write", Write(s), s \notin disturbed
  PROVE  /\ \A i \in Ids, k \in Emails \cup Symbols : Holds(i, k) => Holds(i, k)'
         /\ \A n \in Entries : Installed(n) \/ n = at[s] => Installed(n)'
<1>1. PICK i \in Ids :
        /\ Written(i)
        /\ stored'[i] = Entry(at[s])
        /\ stored[i] # None => stored[i].key = Entry(at[s]).key
  BY WriteFacts
<1>2. at[s] \in Entries /\ Entry(at[s]) \in Documents /\ Entry(at[s]) # None
  BY EntryFacts DEF SeedInv, TypeOK
<1>3. \A j \in Ids \ {i} : stored'[j] = stored[j]
  BY <1>1 DEF Written, SeedInv, TypeOK
<1>4. \A j \in Ids, k \in Emails \cup Symbols : Holds(j, k) => Holds(j, k)'
  BY <1>1, <1>2, <1>3 DEF Holds
<1>5. ASSUME NEW n \in Entries, Installed(n)
      PROVE  Installed(n)'
  <2>1. PICK j \in Ids : stored[j] = Entry(n)
    BY <1>5 DEF Installed
  <2>2. CASE j # i
    BY <1>3, <2>1, <2>2 DEF Installed
  <2>3. CASE j = i
    <3>1. Entry(n) \in Documents
      BY EntryFacts
    <3>2. Entry(n).key = Entry(at[s]).key
      BY <1>1, <2>1, <2>3, <3>1
    <3>3. n = at[s]
      BY <1>2, <3>2, EntryFacts
    <3> QED BY <1>1, <3>3 DEF Installed
  <2> QED BY <2>2, <2>3
<1>6. ASSUME NEW n \in Entries, n = at[s]
      PROVE  Installed(n)'
  BY <1>1, <1>6 DEF Installed
<1> QED BY <1>4, <1>5, <1>6

(* The actors beside a seed that ends a step undisturbed leave it what it    *)
(* has found and what is installed.                                          *)
Stays ==
  /\ \A i \in Ids, k \in Emails \cup Symbols : Holds(i, k) => Holds(i, k)'
  /\ \A n \in Entries : Installed(n) => Installed(n)'

LEMMA StoreStays ==
  ASSUME SeedInv, [Next]_vars, NEW t \in Seeds, t \notin disturbed'
  PROVE  Stays
<1>1. ASSUME UNCHANGED stored
      PROVE  Stays
  BY <1>1 DEF Stays, Holds, Installed
<1>2. ASSUME NEW s \in Seeds, CreateOrUpdate(s) \/ Fail(s)
      PROVE  Stays
  <2>1. CASE UNCHANGED stored
    BY <1>1, <2>1
  <2>2. CASE stage[s] = "write" /\ Write(s)
    <3>1. s \notin disturbed
      BY <1>2, <2>2 DEF CreateOrUpdate, Fail, Running, DisturbedTogether, SeedInv
    <3> QED BY <2>2, <3>1, EntriesStay DEF Stays
  <2> QED BY <1>2, <2>1, <2>2 DEF CreateOrUpdate, Fail
<1> QED BY <1>1, <1>2
        DEF Next, Begin, Select, Refused, AdminCreate, AdminUpdate, AdminDelete, vars

(* Such a seed takes a step of its own or none, and was undisturbed before   *)
(* unless it has just begun.                                                 *)
LEMMA UndisturbedSteps ==
  ASSUME SeedInv, [Next]_vars, NEW t \in Seeds, t \notin disturbed'
  PROVE  \/ Begin(t)
         \/ /\ t \notin disturbed
            /\ SameSeed(t) \/ Select(t) \/ CreateOrUpdate(t) \/ Refused(t) \/ Fail(t)
<1>1. ASSUME NEW s \in Seeds, s # t,
             Begin(s) \/ Select(s) \/ CreateOrUpdate(s) \/ Refused(s) \/ Fail(s)
      PROVE  t \notin disturbed /\ SameSeed(t)
  <2>1. SameSeed(t)
    BY <1>1, SeedSteps
  <2> QED BY <1>1, <2>1 DEF Begin, Select, CreateOrUpdate, Refused, Fail
<1>2. ASSUME UNCHANGED vars
      PROVE  t \notin disturbed /\ SameSeed(t)
  BY <1>2 DEF vars, seedVars, SameSeed
<1>3. ASSUME Select(t) \/ CreateOrUpdate(t) \/ Refused(t) \/ Fail(t)
      PROVE  t \notin disturbed
  BY <1>3 DEF Select, CreateOrUpdate, Refused, Fail
<1> QED BY <1>1, <1>2, <1>3 DEF Next, AdminCreate, AdminUpdate, AdminDelete

LEMMA FoundStep ==
  ASSUME SeedInv, [Next]_vars
  PROVE  FoundIsEntry'
<1> SUFFICES ASSUME NEW t \in Seeds, t \notin disturbed', found'[t] # None
             PROVE  Holds(found[t], Entry(at[t]).key)'
  BY DEF FoundIsEntry
<1>1. CASE SameSeed(t) /\ t \notin disturbed
  <2>1. /\ found[t] \in Ids /\ Holds(found[t], Entry(at[t]).key)
        /\ Entry(at[t]).key \in Emails \cup Symbols
    BY <1>1, EntryFacts, DocumentFacts DEF SameSeed, FoundIsEntry, SeedInv, TypeOK
  <2>2. Stays
    BY StoreStays
  <2> HIDE DEF SeedInv
  <2> QED BY <1>1, <2>1, <2>2 DEF SameSeed, Stays, Holds
<1>2. CASE Select(t)
  BY <1>2, SelectFacts DEF Holds
<1>3. CASE Begin(t) \/ CreateOrUpdate(t) \/ Refused(t) \/ Fail(t)
  <2>1. Select(t)
    BY <1>3, SeedSteps
  <2> QED BY <1>2, <2>1
<1> QED BY <1>1, <1>2, <1>3, UndisturbedSteps

LEMMA PassedStep ==
  ASSUME SeedInv, [Next]_vars
  PROVE  PassedInstalled'
<1> DEFINE Passed(t) ==
      /\ stage'[t] \in {"select", "write"} => \A n \in 1..(at'[t] - 1) : Installed(n)'
      /\ stage'[t] = "done" => \A n \in Entries : Installed(n)'
<1> SUFFICES ASSUME NEW t \in Seeds, t \notin disturbed'
             PROVE  Passed(t)
  BY DEF PassedInstalled, Running
<1>1. at[t] \in Entries /\ Entries \subseteq Nat /\ Stays
  BY StoreStays DEF Entries, SeedInv, TypeOK
<1>2. t \notin disturbed =>
        /\ stage[t] \in {"select", "write"} => \A n \in 1..(at[t] - 1) : Installed(n)
        /\ stage[t] = "done" => \A n \in Entries : Installed(n)
  BY DEF PassedInstalled, Running, SeedInv
<1>3. \A n \in 1..(at[t] - 1) : n \in Entries
  BY <1>1 DEF Entries
<1>4. CASE Begin(t)
  BY <1>4 DEF Begin, SeedInv, TypeOK
<1>5. CASE t \notin disturbed /\ (SameSeed(t) \/ Select(t))
  <2>1. /\ at'[t] = at[t]
        /\ \/ stage'[t] = stage[t]
           \/ stage[t] = "select" /\ stage'[t] = "write"
    BY <1>5 DEF SameSeed, Select, SeedInv, TypeOK
  <2> QED BY <1>1, <1>2, <1>3, <1>5, <2>1 DEF Stays
<1>6. CASE t \notin disturbed /\ CreateOrUpdate(t)
  <2>1. stage[t] = "write" /\ Write(t)
    BY <1>6 DEF CreateOrUpdate
  <2>2. \A n \in Entries : n < at[t] \/ n = at[t] => Installed(n)'
    BY <1>1, <1>2, <1>6, <2>1, EntriesStay DEF Stays, Entries
  <2>3. CASE at[t] + 1 \in Entries
    <3>1. at'[t] = at[t] + 1 /\ stage'[t] = "select"
      BY <1>6, <2>3 DEF CreateOrUpdate, Continue, Advance, SeedInv, TypeOK
    <3> QED BY <1>1, <2>2, <3>1 DEF Entries
  <2>4. CASE at[t] + 1 \notin Entries
    <3>1. stage'[t] = "done"
      BY <1>6, <2>4 DEF CreateOrUpdate, Continue, Advance, SeedInv, TypeOK
    <3> QED BY <1>1, <2>2, <2>4, <3>1 DEF Entries
  <2> QED BY <2>3, <2>4
<1>7. CASE Refused(t) \/ Fail(t)
  BY <1>7 DEF Refused, Fail, Abort, SeedInv, TypeOK
<1> QED BY <1>4, <1>5, <1>6, <1>7, UndisturbedSteps

LEMMA SeedInvInit == Init => SeedInv
BY DEF Init, SeedInv, TypeOK, KeysAreUnique, FoundOnlyToWrite, IdsAreKept,
       DisturbedTogether, FoundIsEntry, PassedInstalled, Running, Entries

LEMMA SeedInvStep == SeedInv /\ [Next]_vars => SeedInv'
BY TypeStep, UniqueStep, FoundOnlyStep, KeptStep, DisturbedStep, FoundStep, PassedStep
   DEF SeedInv

LEMMA SeedInvHolds == Spec => []SeedInv
BY SeedInvInit, SeedInvStep, PTL DEF Spec
-----------------------------------------------------------------------------
(* The state of the seeds and the store has its type.                        *)
THEOREM SeedTypeCorrect == Spec => []TypeOK
BY SeedInvHolds, PTL DEF SeedInv

(* The unique index keeps a key from naming two documents whatever the       *)
(* environment says of MONGODB_AUTO_INDEX (ConfigService.get).               *)
THEOREM UniqueKeys == Spec => []KeysAreUnique
BY SeedInvHolds, PTL DEF SeedInv

(* A seed that ends beside no administrator leaves every default user and    *)
(* every symbol as it wants them, whoever else seeds and fails.              *)
THEOREM SeedsFinish == Spec => []SeedsComplete
<1>1. SeedInv => SeedsComplete
  BY DEF SeedInv, PassedInstalled, SeedsComplete
<1> QED BY <1>1, SeedInvHolds, PTL

(* A seed writes over nothing but the document of its entry unless an        *)
(* administrator has written beside it.                                      *)
THEOREM SeedsWriteTheirOwn == Spec => WritesItsOwn
<1> DEFINE Own == \A s \in Seeds, i \in Ids :
                    /\ stage[s] = "write" /\ stage'[s] # "write"
                    /\ stored[i] # None /\ stored'[i] # stored[i]
                    /\ s \notin disturbed
                    => stored[i].key = Entry(at[s]).key
<1>1. SeedInv /\ [Next]_vars => [Own]_vars
  <2> SUFFICES ASSUME SeedInv, [Next]_vars, NEW s \in Seeds, NEW i \in Ids,
                      stage[s] = "write", stage'[s] # "write",
                      stored[i] # None, stored'[i] # stored[i], s \notin disturbed
               PROVE  stored[i].key = Entry(at[s]).key
    OBVIOUS
  <2>1. CreateOrUpdate(s) \/ Fail(s) \/ Refused(s) \/ Select(s) \/ Begin(s)
    BY SeedSteps DEF Next, AdminCreate, AdminUpdate, AdminDelete, vars, seedVars, SameSeed
  <2>2. stage[s] = "write" /\ Write(s)
    BY <2>1 DEF CreateOrUpdate, Fail, Refused, Select, Begin
  <2>3. PICK j \in Ids : Written(j) /\ (stored[j] # None => stored[j].key = Entry(at[s]).key)
    BY <2>2, WriteFacts
  <2> QED BY <2>3 DEF Written, SeedInv, TypeOK
<1> QED BY <1>1, SeedInvHolds, PTL DEF Spec, WritesItsOwn
-----------------------------------------------------------------------------
(* A seed goes on as long as the store will not refuse the write it is about *)
(* to make.                                                                  *)
Blocked(t) ==
  \/ found[t] = None /\ ~Free(Entry(at[t]).key, {})
  \/ found[t] # None /\ stored[found[t]] = None
GoesOn(t) == stage[t] # "aborted" /\ (stage[t] = "write" => ~Blocked(t))
OneGoesOn == disturbed \cup failed = {} => \E t \in Seeds : GoesOn(t)

(* Whoever takes a step goes on after it: what a query has just answered is  *)
(* still true, and a write that blocks others was made.                      *)
LEMMA GoesOnStep ==
  ASSUME SeedInv, OneGoesOn, [Next]_vars, (disturbed \cup failed)' = {}
  PROVE  \E t \in Seeds : GoesOn(t)'
<1>1. ASSUME NEW s \in Seeds, Begin(s)
      PROVE  GoesOn(s)'
  BY <1>1 DEF Begin, GoesOn, SeedInv, TypeOK
<1>2. ASSUME NEW s \in Seeds, Select(s)
      PROVE  GoesOn(s)'
  <2>1. stage[s] = "select" /\ UNCHANGED <<stored, at>> /\ s \notin failed'
    BY <1>2 DEF Select
  <2>2. found[s] = None
    BY <2>1 DEF SeedInv, FoundOnlyToWrite
  <2>3. stage'[s] = "write"
    BY <1>2 DEF Select, SeedInv, TypeOK
  <2>4. CASE \A i \in Ids : ~Holds(i, Entry(at[s]).key)
    <3>1. found' = found
      BY <1>2, <2>1, <2>4 DEF Select
    <3>2. Free(Entry(at[s]).key, {})'
      BY <2>1, <2>4 DEF Free, Holds
    <3> QED BY <2>1, <2>2, <2>3, <3>1, <3>2 DEF GoesOn, Blocked
  <2>5. CASE \E i \in Ids : Holds(i, Entry(at[s]).key)
    <3>1. PICK i \in Ids : Holds(i, Entry(at[s]).key) /\ found' = [found EXCEPT ![s] = i]
      BY <1>2, <2>1, <2>5 DEF Select
    <3>2. found'[s] = i /\ i # None
      BY <3>1 DEF SeedInv, TypeOK
    <3> QED BY <2>1, <2>3, <3>1, <3>2 DEF GoesOn, Blocked, Holds
  <2> QED BY <2>4, <2>5
<1>3. ASSUME NEW s \in Seeds, CreateOrUpdate(s)
      PROVE  GoesOn(s)'
  <2>1. stage'[s] \in {"select", "done"}
    BY <1>3 DEF CreateOrUpdate, Continue, Advance, SeedInv, TypeOK
  <2> QED BY <2>1 DEF GoesOn
<1>4. ASSUME NEW s \in Seeds, Refused(s)
      PROVE  \E t \in Seeds : GoesOn(t)'
  <2>1. disturbed \cup failed = {} /\ UNCHANGED stored
    BY <1>4 DEF Refused
  <2>2. PICK t \in Seeds : GoesOn(t)
    BY <2>1 DEF OneGoesOn
  <2>3. t # s
    BY <1>4, <2>2 DEF Refused, GoesOn, Blocked
  <2>4. stage'[t] = stage[t] /\ found'[t] = found[t] /\ at'[t] = at[t]
    BY <1>4, <2>3 DEF Refused, Abort, SeedInv, TypeOK
  <2> QED BY <2>1, <2>2, <2>4 DEF GoesOn, Blocked, Free, Holds
<1>5. ASSUME NEW s \in Seeds, Fail(s)
      PROVE  FALSE
  BY <1>5 DEF Fail
<1>6. CASE AdminCreate \/ AdminUpdate \/ AdminDelete
  BY <1>6, SeedsAssumption DEF AdminCreate, AdminUpdate, AdminDelete
<1>7. CASE UNCHANGED vars
  <2>1. PICK t \in Seeds : GoesOn(t)
    BY <1>7 DEF OneGoesOn, vars
  <2> QED BY <1>7, <2>1 DEF GoesOn, Blocked, Free, Holds, vars, seedVars
<1> QED BY <1>1, <1>2, <1>3, <1>4, <1>5, <1>6, <1>7 DEF Next

(* However many seeds run together, they never make one another fail to the  *)
(* last: without an administrator or a failing store one gets to the end     *)
(* (run of SymbolsSeed).                                                     *)
THEOREM SeedsDoNotBlockEachOther == Spec => []SomebodyGoesOn
<1>1. Init => OneGoesOn
  BY SeedsAssumption DEF Init, OneGoesOn, GoesOn
<1>2. SeedInv /\ OneGoesOn /\ [Next]_vars => OneGoesOn'
  <2> SUFFICES ASSUME SeedInv, OneGoesOn, [Next]_vars
               PROVE  OneGoesOn'
    OBVIOUS
  <2>1. (disturbed \cup failed)' = {} => \E t \in Seeds : GoesOn(t)'
    BY GoesOnStep
  <2> QED BY <2>1 DEF OneGoesOn
<1>3. OneGoesOn => SomebodyGoesOn
  BY DEF OneGoesOn, GoesOn, SomebodyGoesOn
<1> QED BY <1>1, <1>2, <1>3, SeedInvHolds, PTL DEF Spec
=============================================================================
