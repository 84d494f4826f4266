------------------------------ MODULE PageLists -----------------------------
(* A list of the administrator's page (symbols or clients) with its form: a  *)
(* page of rows is loaded by a query and a count, rows are saved and deleted *)
(* and the list is loaded again.  Calls overlap: only the submit button is   *)
(* disabled while the list is busy.  The list of clients leaves out the      *)
(* users of another role, which a save may change; that of symbols leaves    *)
(* out nothing.  The page asks for no order, so it gets the collection's.    *)
EXTENDS Integers, Sequences, FiniteSets, SequencesExt

CONSTANTS
  Ids,    \* document ids; an id is never reused
  Calls,  \* what can be under way at once
  take,   \* rows per page
  MaxOthers, \* bound: users whose role was changed, at any one time; 0 for symbols
  None    \* a new row

ASSUME TakeAssumption == take \in Nat \ {0}
ASSUME NoneAssumption == None \notin Ids

VARIABLES
  stored,  \* the documents the list is of, in the collection's order
  others,  \* clients that have been given another role: the filter leaves them out
  used,    \* ids ever given out
  page, items, count, \* the list as it is shown
  busy,    \* busy.symbols or busy.users
  form,    \* the id the form edits, None for a new row
  stage,   \* what each call waits for
  target,  \* the row a call saves or deletes
  asked,   \* the page a call loads
  ready,   \* which of its two queries have answered
  rows, total, \* what they answered
  astray,  \* has the last load failed or overlapped another, or have the rows
           \* changed or been cleared since it began?
  cleared  \* saves during which another call has reset busy

storeVars == <<stored, others, used>>
listVars == <<page, items, count>>
callVars == <<stage, target, asked, ready, rows, total>>
historyVars == <<astray, cleared>>
vars == <<storeVars, listVars, busy, form, callVars, historyVars>>

TypeOK ==
  /\ stored \in Seq(Ids)
  /\ others \subseteq Ids
  /\ used \subseteq Ids
  /\ page \in Nat \ {0}
  /\ items \in Seq(Ids)
  /\ count \in Nat
  /\ busy \in BOOLEAN
  /\ form \in Ids \cup {None}
  /\ stage \in [Calls -> {"idle", "save", "saved", "unsaved", "delete", "deleted",
                          "load"}]
  /\ target \in [Calls -> Ids \cup {None}]
  /\ asked \in [Calls -> Nat \ {0}]
  /\ ready \in [Calls -> SUBSET {"rows", "total"}]
  /\ rows \in [Calls -> Seq(Ids)]
  /\ total \in [Calls -> Nat]
  /\ astray \in BOOLEAN
  /\ cleared \subseteq Calls
-----------------------------------------------------------------------------
(* Pages, on the server and on the page.                                     *)

skipOne(p) == take * p
skip(p) == take * (p - 1)
limit == take
Slice(s, p) ==
  SubSeq(s, skip(p) + 1, IF skip(p) + limit <= Len(s) THEN skip(p) + limit ELSE Len(s))

lastPage(n) == IF n = 0 THEN 1 ELSE (n + take - 1) \div take
-----------------------------------------------------------------------------
Loading == {c \in Calls : stage[c] = "load"}
Saving == {c \in Calls : stage[c] \in {"save", "saved", "unsaved"}}
Quiet == \A c \in Calls : stage[c] = "idle"

\* The page number changes at once, the rows when the answer is there.
load(c, p) ==
  /\ page' = p
  /\ busy' = TRUE
  /\ stage' = [stage EXCEPT ![c] = "load"]
  /\ asked' = [asked EXCEPT ![c] = p]
  /\ target' = [target EXCEPT ![c] = None]
  /\ UNCHANGED <<ready, rows, total>>
  /\ astray' = (Loading # {})

\* The previous and next buttons, and the load that follows the profile.
Targets ==
  {1} \cup {p \in {page - 1} : page > 1} \cup {p \in {page + 1} : page < lastPage(count)}
Turn(c) ==
  /\ stage[c] = "idle"
  /\ \E p \in Targets : load(c, p)
  /\ UNCHANGED <<storeVars, items, count, form, cleared>>

\* A call ends.
End(c) ==
  /\ stage' = [stage EXCEPT ![c] = "idle"]
  /\ target' = [target EXCEPT ![c] = None]
  /\ asked' = [asked EXCEPT ![c] = 1]
  /\ ready' = [ready EXCEPT ![c] = {}]
  /\ rows' = [rows EXCEPT ![c] = <<>>]
  /\ total' = [total EXCEPT ![c] = 0]

\* finally: busy is reset, whoever else is under way.
KeepBusy(c) == UNCHANGED <<busy, cleared>>
Release(c) ==
  /\ busy' = FALSE
  /\ cleared' = (cleared \cup Saving) \ {c}

\* find and countDocuments run side by side.
FindRows(c) ==
  /\ stage[c] = "load"
  /\ "rows" \notin ready[c]
  /\ ready' = [ready EXCEPT ![c] = @ \cup {"rows"}]
  /\ rows' = [rows EXCEPT ![c] = Slice(stored, asked[c])]
  /\ UNCHANGED <<storeVars, listVars, busy, form, stage, target, asked, total,
                 historyVars>>
CountRows(c) ==
  /\ stage[c] = "load"
  /\ "total" \notin ready[c]
  /\ ready' = [ready EXCEPT ![c] = @ \cup {"total"}]
  /\ total' = [total EXCEPT ![c] = Len(stored)]
  /\ UNCHANGED <<storeVars, listVars, busy, form, stage, target, asked, rows,
                 historyVars>>

Show(c) ==
  /\ stage[c] = "load"
  /\ ready[c] = {"rows", "total"}
  /\ items' = rows[c]
  /\ count' = total[c]
  /\ End(c)
  /\ Release(c)
  /\ UNCHANGED <<storeVars, page, form, astray>>

\* The rows stay as they were, under the new page number.
LoadFails(c) ==
  /\ stage[c] = "load"
  /\ End(c)
  /\ astray' = TRUE
  /\ Release(c)
  /\ UNCHANGED <<storeVars, listVars, form>>
-----------------------------------------------------------------------------
(* The form, saving and deleting.                                            *)

\* Calls under way go on.
logout ==
  /\ form' = None
  /\ page' = 1
  /\ items' = <<>>
  /\ count' = 0
  /\ astray' = TRUE
  /\ UNCHANGED <<storeVars, busy, callVars, cleared>>

edit ==
  /\ \E i \in ToSet(items) : form' = i
  /\ UNCHANGED <<storeVars, listVars, busy, callVars, historyVars>>

reset ==
  /\ form' = None
  /\ UNCHANGED <<storeVars, listVars, busy, callVars, historyVars>>

SubmitAlways(c) ==
  /\ stage[c] = "idle"
  /\ busy' = TRUE
  /\ stage' = [stage EXCEPT ![c] = "save"]
  /\ target' = [target EXCEPT ![c] = form]
  /\ UNCHANGED <<storeVars, listVars, form, asked, ready, rows, total, historyVars>>
submit(c) ==
  /\ stage[c] = "idle"
  /\ ~busy
  /\ busy' = TRUE
  /\ stage' = [stage EXCEPT ![c] = "save"]
  /\ target' = [target EXCEPT ![c] = form]
  /\ UNCHANGED <<storeVars, listVars, form, asked, ready, rows, total, historyVars>>

delete(c) ==
  /\ stage[c] = "idle"
  /\ stage' = [stage EXCEPT ![c] = "delete"]
  /\ \E i \in ToSet(items) : target' = [target EXCEPT ![c] = i]
  /\ UNCHANGED <<storeVars, listVars, busy, form, asked, ready, rows, total, historyVars>>

\* A document comes under the filter at a place of the collection's choice; the
\* others keep their order.
enter(i) == \E n \in 1 .. Len(stored) + 1 : stored' = InsertAt(stored, n, i)
leave(i) == \E n \in DOMAIN stored : stored[n] = i /\ stored' = RemoveAt(stored, n)

\* What a write does to the list.  A user made with another role counts as new
\* when it first becomes a client.
createOne(i) ==
  /\ i \notin used
  /\ used' = used \cup {i}
  /\ enter(i)
  /\ UNCHANGED others
demote(i) ==
  /\ Cardinality(others) < MaxOthers
  /\ leave(i)
  /\ others' = others \cup {i}
  /\ UNCHANGED used
restore(i) ==
  /\ i \in others
  /\ others' = others \ {i}
  /\ enter(i)
  /\ UNCHANGED used
deleteOne(i) ==
  /\ \/ leave(i) /\ UNCHANGED others
     \/ i \in others /\ others' = others \ {i} /\ UNCHANGED stored
  /\ UNCHANGED used
Noticed == astray' = (astray \/ stored' # stored)

\* The server: a document is created or updated, with the role it is sent, or
\* deleted, or the call is refused; an answer that is lost counts as a refusal.
Save(c) ==
  /\ stage[c] = "save"
  /\ \/ target[c] = None /\ \E i \in Ids : createOne(i)
     \/ target[c] = None /\ UNCHANGED storeVars
     \/ target[c] \in ToSet(stored) \cup others /\ UNCHANGED storeVars
     \/ demote(target[c])
     \/ restore(target[c])
  /\ Noticed
  /\ stage' \in {[stage EXCEPT ![c] = r] : r \in {"saved", "unsaved"}}
  /\ target' = [target EXCEPT ![c] = None]
  /\ UNCHANGED <<listVars, busy, form, asked, ready, rows, total, cleared>>

\* A deletion that fails does nothing on the page.
Delete(c) ==
  /\ stage[c] = "delete"
  /\ deleteOne(target[c])
  /\ Noticed
  /\ stage' \in {[stage EXCEPT ![c] = r] : r \in {"deleted", "idle"}}
  /\ target' = [target EXCEPT ![c] = None]
  /\ UNCHANGED <<listVars, busy, form, asked, ready, rows, total, cleared>>

Refuse(c) ==
  /\ \/ stage[c] = "save" /\ stage' = [stage EXCEPT ![c] = "unsaved"]
     \/ stage[c] = "delete" /\ stage' = [stage EXCEPT ![c] = "idle"]
  /\ target' = [target EXCEPT ![c] = None]
  /\ UNCHANGED <<storeVars, listVars, busy, form, asked, ready, rows, total, historyVars>>

\* The form is emptied whatever it shows by now, and the list loaded again.
Saved(c) ==
  /\ stage[c] = "saved"
  /\ form' = None
  /\ load(c, page)
  /\ cleared' = cleared \ {c}
  /\ UNCHANGED <<storeVars, items, count>>

Deleted(c) ==
  /\ stage[c] = "deleted"
  /\ load(c, page)
  /\ UNCHANGED <<storeVars, items, count, form, cleared>>

Failed(c) ==
  /\ stage[c] = "unsaved"
  /\ Release(c)
  /\ End(c)
  /\ UNCHANGED <<storeVars, listVars, form, astray>>

\* Another administrator; bound: roles are given back from this page only.
Elsewhere ==
  /\ \E i \in Ids : createOne(i) \/ demote(i) \/ deleteOne(i)
  /\ Noticed
  /\ UNCHANGED <<listVars, busy, form, callVars, cleared>>
-----------------------------------------------------------------------------
Init ==
  /\ stored = <<>>
  /\ others = {}
  /\ used = {}
  /\ page = 1
  /\ items = <<>>
  /\ count = 0
  /\ busy = FALSE
  /\ form = None
  /\ stage = [c \in Calls |-> "idle"]
  /\ target = [c \in Calls |-> None]
  /\ asked = [c \in Calls |-> 1]
  /\ ready = [c \in Calls |-> {}]
  /\ rows = [c \in Calls |-> <<>>]
  /\ total = [c \in Calls |-> 0]
  /\ astray = FALSE
  /\ cleared = {}

Answer(c) ==
  \/ FindRows(c) \/ CountRows(c) \/ Show(c) \/ LoadFails(c)
  \/ Save(c) \/ Delete(c) \/ Refuse(c) \/ Saved(c) \/ Deleted(c) \/ Failed(c)
Next ==
  \/ \E c \in Calls : Turn(c) \/ submit(c) \/ delete(c) \/ Answer(c)
  \/ edit \/ reset \/ logout \/ Elsewhere

Spec == Init /\ [][Next]_vars
-----------------------------------------------------------------------------
(* Properties.                                                               *)

(* With nothing under way, and if the last load overlapped no other, did not *)
(* fail and no row has come or gone since it began, the page shows just the  *)
(* rows of its number, each once, and enables "next" just if more rows       *)
(* follow (loadAdminUsers, selectManyAndCount, skip, adminUsersLastPage).    *)
RowsOn(p) == {stored[n] : n \in {m \in DOMAIN stored : (m - 1) \div take = p - 1}}
ShownPageIsRight ==
  Quiet /\ ~astray =>
    /\ ToSet(items) = RowsOn(page)
    /\ IsInjective(items)
    /\ page < lastPage(count) <=> \E p \in page + 1 .. page + Len(stored) : RowsOn(p) # {}

(* A form is sent twice only if another call has reset the busy flag while   *)
(* the first save was under way (saveSymbol, index.html:170).                *)
OneSaveAtATime == \A c, d \in Saving \ cleared : c = d

(* The list is busy only while a call is under way that will reset it,       *)
(* whatever fails: the submit button does not stay disabled.                 *)
BusyHasOwner == busy => Saving \cup Loading # {}
=============================================================================
