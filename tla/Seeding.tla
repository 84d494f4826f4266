------------------------------- MODULE Seeding ------------------------------
(* The seed commands (seed:all runs the administrator's, the client's and    *)
(* the symbols seed, each of which ends the chain when it throws) beside the *)
(* administrator's requests: several processes on the same two collections.  *)
(* A document is what is found under its unique key, the e-mail of a user or *)
(* the provider symbol of a symbol, with a body.                             *)
EXTENDS Naturals, Sequences

CONSTANTS
  Ids,         \* document ids; an id is never reused
  Seeds,       \* processes that run seed:all
  Emails,      \* keys of users
  Symbols,     \* keys of symbols
  symbols,     \* the provider symbols of the symbols seed, in its order
  AdminEmail,  \* admin@gmail.com
  ClientEmail, \* client@gmail.com
  Passwords,   \* passwords as they are typed
  Password1,   \* the default one
  settings,    \* what the environment says for each variable, or None
  None         \* no document, no setting

ASSUME SeedsAssumption == Seeds # {}
ASSUME KeyAssumption ==
  /\ Emails \cap Symbols = {}
  /\ AdminEmail \in Emails /\ ClientEmail \in Emails /\ AdminEmail # ClientEmail
  /\ symbols \in Seq(Symbols)
  /\ \A m, n \in DOMAIN symbols : symbols[m] = symbols[n] => m = n
ASSUME ValueAssumption ==
  /\ Password1 \in Passwords
  /\ DOMAIN settings = {"SEED_ADMIN_EMAIL", "MONGODB_AUTO_INDEX"}
  /\ None \notin Ids

VARIABLES
  stored,    \* both collections
  used,      \* ids ever given out
  stage,     \* what each seed is about to do
  at,        \* the entry it is at
  found,     \* existing, the document its query answered with
  disturbed, \* seeds beside which an administrator has written since they began
  failed     \* seeds whose store has failed since they began

seedVars == <<stage, at, found>>
vars == <<stored, used, seedVars, disturbed, failed>>
-----------------------------------------------------------------------------
(* Values.                                                                   *)

\* ConfigService.get: the caller's initial value wins over the variable.
getConfigured(variable, initial) ==
  IF settings[variable] # None THEN settings[variable] ELSE initial
get(variable, initial) == initial

\* scrypt with a salt; compare throws on what is no hash, and login refuses.
hash(password) == <<"scrypt", password>>
validatePassword(password, encrypted) == encrypted = hash(password)

Hashes == {hash(p) : p \in Passwords}
Users == [role : {"ADMIN", "CLIENT"}, password : Passwords \cup Hashes]
Public == [isPublic : BOOLEAN]
Documents == [key : Emails, body : Users] \cup [key : Symbols, body : Public]
ASSUME NoneAssumption == None \notin Documents
SameKind(k) == IF k \in Emails THEN Emails ELSE Symbols

\* The two user seeds read the same variable.
DefaultUser(initial, role) ==
  [key |-> get("SEED_ADMIN_EMAIL", initial),
   body |-> [role |-> role, password |-> hash(Password1)]]
Entries == 1..(Len(symbols) + 2)
Entry(n) ==
  IF n = 1 THEN DefaultUser(AdminEmail, "ADMIN")
  ELSE IF n = 2 THEN DefaultUser(ClientEmail, "CLIENT")
  ELSE [key |-> symbols[n - 2], body |-> [isPublic |-> TRUE]]

TypeOK ==
  /\ stored \in [Ids -> Documents \cup {None}]
  /\ used \subseteq Ids
  /\ stage \in [Seeds -> {"idle", "select", "write", "done", "aborted"}]
  /\ at \in [Seeds -> Entries]
  /\ found \in [Seeds -> Ids \cup {None}]
  /\ disturbed \subseteq Seeds
  /\ failed \subseteq Seeds
-----------------------------------------------------------------------------
(* The store.                                                                *)

Holds(i, k) == stored[i] # None /\ stored[i].key = k

\* The unique index refuses a second document under a key.  It is there from the
\* start: mongoose builds it in the background of the very first start only.
uniqueIndex == get("MONGODB_AUTO_INDEX", TRUE)
Free(k, except) == uniqueIndex => \A i \in Ids \ except : ~Holds(i, k)

createOne(i, doc) ==
  /\ i \notin used
  /\ Free(doc.key, {})
  /\ stored' = [stored EXCEPT ![i] = doc]
  /\ used' = used \cup {i}

updateOne(i, doc) ==
  /\ stored[i] # None
  /\ Free(doc.key, {i})
  /\ stored' = [stored EXCEPT ![i] = doc]
  /\ UNCHANGED used
-----------------------------------------------------------------------------
(* A seed process.                                                           *)

Running == {s \in Seeds : stage[s] \in {"select", "write"}}

\* A seed that begins beside one that has been disturbed is disturbed as well.
Begin(s) ==
  /\ s \notin Running
  /\ stage' = [stage EXCEPT ![s] = "select"]
  /\ at' = [at EXCEPT ![s] = 1]
  /\ found' = [found EXCEPT ![s] = None]
  /\ disturbed' = IF Running \cap disturbed = {} THEN disturbed \ {s}
                                                 ELSE disturbed \cup {s}
  /\ failed' = failed \ {s}
  /\ UNCHANGED <<stored, used>>

\* The query for the entry's key; an error counts as "there is none".
Select(s) ==
  /\ stage[s] = "select"
  /\ stage' = [stage EXCEPT ![s] = "write"]
  /\ \/ /\ \A i \in Ids : ~Holds(i, Entry(at[s]).key)
        /\ UNCHANGED <<found, failed>>
     \/ /\ \E i \in Ids : /\ Holds(i, Entry(at[s]).key)
                          /\ found' = [found EXCEPT ![s] = i]
        /\ UNCHANGED failed
     \/ failed' = failed \cup {s} /\ UNCHANGED found
  /\ UNCHANGED <<stored, used, at, disturbed>>

\* On to the next entry, or the end.
Advance(s) ==
  /\ found' = [found EXCEPT ![s] = None]
  /\ IF at[s] + 1 \in Entries
       THEN /\ at' = [at EXCEPT ![s] = @ + 1]
            /\ stage' = [stage EXCEPT ![s] = "select"]
       ELSE /\ stage' = [stage EXCEPT ![s] = "done"]
            /\ UNCHANGED at

\* It throws: the command fails, and with it those chained behind it.
Abort(s) ==
  /\ stage' = [stage EXCEPT ![s] = "aborted"]
  /\ found' = [found EXCEPT ![s] = None]
  /\ UNCHANGED at

\* What is not there is created; of what is, the body is written and the key
\* left as it is.
WriteAny(s) ==
  IF found[s] = None
    THEN \E i \in Ids : createOne(i, Entry(at[s]))
    ELSE \E i \in Ids :
           stored[i] # None /\ updateOne(i, [stored[i] EXCEPT !.body = Entry(at[s]).body])
Write(s) ==
  IF found[s] = None
    THEN \E i \in Ids : createOne(i, Entry(at[s]))
    ELSE /\ stored[found[s]] # None
         /\ updateOne(found[s], [stored[found[s]] EXCEPT !.body = Entry(at[s]).body])

\* Without "continue" a created entry is updated through a null, and throws.
UpdateCreated(s) == IF found[s] = None THEN Abort(s) ELSE Advance(s)
Continue(s) == Advance(s)

CreateOrUpdate(s) ==
  /\ stage[s] = "write"
  /\ Write(s)
  /\ Continue(s)
  /\ UNCHANGED <<disturbed, failed>>

\* The key has been taken, or the document has been deleted, since the query.
Refused(s) ==
  /\ stage[s] = "write"
  /\ \/ found[s] = None /\ ~Free(Entry(at[s]).key, {})
     \/ found[s] # None /\ stored[found[s]] = None
  /\ Abort(s)
  /\ UNCHANGED <<stored, used, disturbed, failed>>

\* The store fails or the process dies, before the write or after it.
Fail(s) ==
  /\ s \in Running
  /\ \/ UNCHANGED <<stored, used>>
     \/ stage[s] = "write" /\ Write(s)
  /\ Abort(s)
  /\ failed' = failed \cup {s}
  /\ UNCHANGED disturbed
-----------------------------------------------------------------------------
(* The administrator's requests.  They store a password as it is typed.      *)

Posted(k) ==
  IF k \in Emails THEN [role : {"ADMIN", "CLIENT"}, password : Passwords] ELSE Public
Patched(k, body) ==
  IF k \in Emails
    THEN Posted(k) \cup {[body EXCEPT !.role = r] : r \in {"ADMIN", "CLIENT"}}
    ELSE Public

AdminCreate ==
  /\ \E i \in Ids, k \in Emails \cup Symbols :
       \E b \in Posted(k) : createOne(i, [key |-> k, body |-> b])
  /\ disturbed' = Seeds
  /\ UNCHANGED <<seedVars, failed>>

AdminUpdate ==
  /\ \E i \in Ids :
       /\ stored[i] # None
       /\ \E k \in SameKind(stored[i].key) :
            \E b \in Patched(k, stored[i].body) : updateOne(i, [key |-> k, body |-> b])
  /\ disturbed' = Seeds
  /\ UNCHANGED <<seedVars, failed>>

AdminDelete ==
  /\ \E i \in Ids : stored[i] # None /\ stored' = [stored EXCEPT ![i] = None]
  /\ disturbed' = Seeds
  /\ UNCHANGED <<used, seedVars, failed>>
-----------------------------------------------------------------------------
Init ==
  /\ stored = [i \in Ids |-> None]
  /\ used = {}
  /\ stage = [s \in Seeds |-> "idle"]
  /\ at = [s \in Seeds |-> 1]
  /\ found = [s \in Seeds |-> None]
  /\ disturbed = {}
  /\ failed = {}

Next ==
  \/ \E s \in Seeds :
       Begin(s) \/ Select(s) \/ CreateOrUpdate(s) \/ Refused(s) \/ Fail(s)
  \/ AdminCreate \/ AdminUpdate \/ AdminDelete

Spec == Init /\ [][Next]_vars
-----------------------------------------------------------------------------
(* Properties.                                                               *)

(* No key names two documents, although .env.production switches off the     *)
(* index that sees to it (ConfigService.get, SymbolEntity, UserEntity).      *)
KeysAreUnique ==
  \A i, j \in Ids : stored[i] # None /\ Holds(j, stored[i].key) => i = j

(* A seed that ended with no administrator writing beside it has left every  *)
(* default user and every symbol as it wants them, however many seeds ran    *)
(* with it, failed or were repeated: no entry takes another's document.      *)
Installed(n) == \E i \in Ids : stored[i] = Entry(n)
SeedsComplete ==
  \A s \in Seeds \ disturbed : stage[s] = "done" => \A n \in Entries : Installed(n)

(* Seeds that run together make one another fail on keys they both miss, but *)
(* never all of them: without an administrator or a failing store at least   *)
(* one gets to the end (run of SymbolsSeed).                                 *)
SomebodyGoesOn ==
  (\A s \in Seeds : stage[s] = "aborted") => disturbed \cup failed # {}

(* A seed writes over nothing but the document of its entry, unless an       *)
(* administrator renamed that one after the seed had found it.               *)
WritesItsOwn ==
  [][\A s \in Seeds, i \in Ids :
       /\ stage[s] = "write" /\ stage'[s] # "write"
       /\ stored[i] # None /\ stored'[i] # stored[i]
       /\ s \notin disturbed
       => stored[i].key = Entry(at[s]).key]_vars

(* "Password is required when creating a client": with it the user logs in.  *)
AccountsLogIn ==
  \A i \in Ids : stored[i] # None /\ stored[i].key \in Emails =>
    \E p \in Passwords : validatePassword(p, stored[i].body.password)
=============================================================================
