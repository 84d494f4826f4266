--------------------------- MODULE SymbolRegistry ---------------------------
(* The symbol registry of BinanceProviderService, the `symbols` collection   *)
(* it mirrors, and the two writers that race on them: the administrator's    *)
(* symbol requests (create, update, delete) and the ticker chain that writes *)
(* every new price back and broadcasts it.                                   *)
(*                                                                           *)
(* Every `await` of the code is a point where another actor may run, so each *)
(* handler is cut there: the step that changes the store and the step that   *)
(* runs when the answer comes back are different actions.  The code between  *)
(* two awaits runs to its end (one JavaScript thread) and is one action.  A  *)
(* request that fails before it changed anything leaves no trace here: it is *)
(* a stuttering step.                                                        *)
EXTENDS Naturals, Sequences, FiniteSets

CONSTANTS
  Ids,              \* document ids; an id is never reused
  ProviderSymbols,  \* provider symbols: the keys of the registry
  Prices,           \* finite prices
  NoPrice,          \* the price of a symbol that has none yet
  NotFinite,        \* a quoted price that Number() does not make finite
  None,             \* no document, no entity, no value
  Requests,         \* slots for concurrent administrator requests
  Batches,          \* the ticker batches the exchange may send
  MaxBatches,       \* bound: batches received by one process
  MaxCrashes,       \* bound: crashes of the process
  StoreFails        \* may a store operation fail, before or after its effect?

Entities == [id: Ids, ps: ProviderSymbols, price: Prices \cup {NoPrice}]
Docs == [ps: ProviderSymbols, price: Prices \cup {NoPrice}]
Quotes == [s: ProviderSymbols, c: Prices \cup {NotFinite}]

ASSUME SentinelAssumption ==
  /\ None \notin Ids \cup ProviderSymbols \cup Prices \cup Docs \cup Entities
  /\ None \notin Requests
  /\ NoPrice \notin Prices
  /\ NotFinite \notin Prices
ASSUME BatchAssumption == Batches \subseteq Seq(Quotes)
ASSUME BoundAssumption ==
  /\ MaxBatches \in Nat
  /\ MaxCrashes \in Nat
  /\ StoreFails \in BOOLEAN

VARIABLES
  stored,       \* the collection: the document of each id, or None
  issued,       \* ids ever given to a document
  desired,      \* desiredSymbols: the entity of each provider symbol, or None
  boot,         \* progress of bootstrap()
  snapshot,     \* what loadExistingSymbols() read, until it is in the registry
  connection,   \* the websocket connection: none, open or closed
  stream,       \* is the mini-ticker stream subscribed?
  shuttingDown, \* isShuttingDown
  heard,        \* batches received by this process: the promise chain
  batch,        \* how many of them the chain has started
  entry,        \* position in the batch being handled
  tick,         \* where the chain stands
  subject,      \* `current` of handleTickerEntry, then `updated`
  pc,           \* where each administrator request stands
  prev,         \* the provider symbol each request saw first
  held,         \* the entity the store answered to each request
  emit,         \* the last broadcast
  clash,        \* has an overlap or a lost answer endangered the registry?
  crashes       \* crashes so far

storeVars == <<stored, issued>>
bootVars == <<boot, snapshot, connection, stream, shuttingDown>>
chainVars == <<batch, entry, tick, subject>>
requestVars == <<pc, prev, held>>
\* What no request, no step of bootstrap and no entry of a batch changes.
outsideRequests == <<bootVars, heard, chainVars, emit, crashes>>
outsideBoot == <<storeVars, heard, chainVars, requestVars, emit, clash, crashes>>
outsideChain == <<bootVars, heard, batch, requestVars, crashes>>
vars == <<stored, issued, desired, bootVars, heard, chainVars, requestVars,
          emit, clash, crashes>>

BootStages == {"loading", "selected", "connecting", "done", "failed", "offline"}
TickStages == {"idle", "next", "sent", "written"}
RequestStages == {"idle", "register", "selected", "sync", "unregister"}
Broadcasts == [batch: Nat, entry: Nat, ps: ProviderSymbols, price: Prices]

(* Types of all variables.                                                   *)
TypeOK ==
  /\ stored \in [Ids -> Docs \cup {None}]
  /\ issued \subseteq Ids
  /\ desired \in [ProviderSymbols -> Entities \cup {None}]
  /\ boot \in BootStages
  /\ snapshot \in [Ids -> Docs \cup {None}]
  /\ connection \in {"none", "open", "closed"}
  /\ stream \in BOOLEAN
  /\ shuttingDown \in BOOLEAN
  /\ heard \in Seq(Seq(Quotes))
  /\ batch \in 0 .. Len(heard)
  /\ entry \in Nat
  /\ tick \in TickStages
  /\ subject \in Entities \cup {None}
  /\ pc \in [Requests -> RequestStages]
  /\ prev \in [Requests -> ProviderSymbols \cup {None}]
  /\ held \in [Requests -> Entities \cup {None}]
  /\ emit \in Broadcasts \cup {None}
  /\ clash \in BOOLEAN
  /\ crashes \in Nat
-----------------------------------------------------------------------------
(* The store.                                                                *)

\* What the store's answers carry.
EntityWithoutId(i, doc) == doc
Entity(i, doc) == [id |-> i, ps |-> doc.ps, price |-> doc.price]

\* The unique index on providerSymbol lets document i take key k.
KeyFree(i, k) ==
  \A j \in Ids \ {i} : stored[j] # None => stored[j].ps # k

\* The stages in which a request's write is made and its answer under way.
Answered == {"register", "sync", "unregister"}

\* The quote the chain stands at.
Quote == heard[batch][entry]

(* Which overlaps can leave the registry wrong.  A write that takes document *)
(* i from key `old` to key `new` (None: there is none), by a request or by   *)
(* the ticker chain (self = None), endangers the registry when               *)
(*   - the answer to an earlier write of the document is under way: the two  *)
(*     answers may be applied in the other order;                            *)
(*   - an answer under way is about to drop the key the document takes;      *)
(*   - a request has read the key the document leaves and will drop that one;*)
(*   - the ticker chain renames the document back to the key it looked up;   *)
(*   - bootstrap() has read the document and will set what it read.          *)
Endangers(self, i, old, new) ==
  \/ \E r \in Requests \ {self} :
       \/ pc[r] \in Answered /\ (held[r].id = i \/ prev[r] = new)
       \/ pc[r] = "selected" /\ held[r].id = i /\ old # new
  \/ tick = "written" /\ subject.id = i
  \/ self = None /\ old # new
  \/ boot = "selected" /\ snapshot[i] # None
-----------------------------------------------------------------------------
(* The registry: BinanceProviderService's own operations on desiredSymbols.  *)

registerSymbol(symbol) == desired' = [desired EXCEPT ![symbol.ps] = symbol]

\* Drop the key read before the write, then set the one read after it.
SyncSetsThenDeletes(previous, current) ==
  desired' = [desired EXCEPT ![current.ps] = current, ![previous] = None]
syncSymbol(previous, current) ==
  desired' = [desired EXCEPT ![previous] = None, ![current.ps] = current]

\* Drop the key, whichever entity it holds by now.
unregisterSymbol(symbol) == desired' = [desired EXCEPT ![symbol.ps] = None]

\* What loadExistingSymbols leaves in the registry: each symbol it read is set,
\* the other keys stay as they are.
Loading(docs) ==
  [k \in ProviderSymbols |->
     IF \E i \in Ids : docs[i] # None /\ docs[i].ps = k
       THEN LET i == CHOOSE j \in Ids : docs[j] # None /\ docs[j].ps = k
            IN Entity(i, docs[i])
       ELSE desired[k]]

\* No stream is opened once the module is shutting down, nor a second one.
StreamAlways == stream' = TRUE
startMarketTickerStream == stream' = (stream \/ ~shuttingDown)
-----------------------------------------------------------------------------
(* Administrator requests: symbols.controller.ts.                            *)

Idle(r) ==
  /\ pc' = [pc EXCEPT ![r] = "idle"]
  /\ prev' = [prev EXCEPT ![r] = None]
  /\ held' = [held EXCEPT ![r] = None]

\* createOne: symbolsService.createOne inserts a document under a fresh id.
CreateInsert(r) ==
  /\ pc[r] = "idle"
  /\ \E i \in Ids \ issued, doc \in Docs :
       /\ KeyFree(i, doc.ps)
       /\ stored' = [stored EXCEPT ![i] = doc]
       /\ issued' = issued \cup {i}
       /\ pc' = [pc EXCEPT ![r] = "register"]
       /\ prev' = [prev EXCEPT ![r] = doc.ps]
       /\ held' = [held EXCEPT ![r] = Entity(i, doc)]
       /\ clash' = (clash \/ Endangers(r, i, None, doc.ps))
  /\ UNCHANGED <<desired, outsideRequests>>

\* registerSymbol, once the store has answered.
CreateRegister(r) ==
  /\ pc[r] = "register"
  /\ registerSymbol(held[r])
  /\ Idle(r)
  /\ UNCHANGED <<storeVars, clash, outsideRequests>>

\* updateOne: selectOne reads the current document.
UpdateSelect(r) ==
  /\ pc[r] = "idle"
  /\ \E i \in Ids :
       /\ stored[i] # None
       /\ pc' = [pc EXCEPT ![r] = "selected"]
       /\ prev' = [prev EXCEPT ![r] = stored[i].ps]
       /\ held' = [held EXCEPT ![r] = Entity(i, stored[i])]
  /\ UNCHANGED <<storeVars, desired, clash, outsideRequests>>

\* A PATCH body: the fields it leaves out are None.
Patches == [ps: ProviderSymbols \cup {None}, price: Prices \cup {NoPrice, None}]
Patched(doc, p) ==
  [ps |-> IF p.ps = None THEN doc.ps ELSE p.ps,
   price |-> IF p.price = None THEN doc.price ELSE p.price]

\* updateOne: symbolsService.updateOne applies the patch to whatever the
\* document has become since it was read.
UpdateWrite(r) ==
  /\ pc[r] = "selected"
  /\ LET i == held[r].id IN
     /\ stored[i] # None
     /\ \E p \in Patches :
          LET doc == Patched(stored[i], p) IN
          /\ KeyFree(i, doc.ps)
          /\ stored' = [stored EXCEPT ![i] = doc]
          /\ pc' = [pc EXCEPT ![r] = "sync"]
          /\ held' = [held EXCEPT ![r] = Entity(i, doc)]
          /\ clash' = (clash \/ Endangers(r, i, stored[i].ps, doc.ps))
  /\ UNCHANGED <<issued, desired, prev, outsideRequests>>

\* updateOne: the write failed (the document is gone, the key is taken, the
\* body is invalid): the request ends and the registry is left alone.
UpdateFail(r) ==
  /\ pc[r] = "selected"
  /\ Idle(r)
  /\ UNCHANGED <<storeVars, desired, clash, outsideRequests>>

\* updateOne: syncSymbol, once the store has answered.
UpdateSync(r) ==
  /\ pc[r] = "sync"
  /\ syncSymbol(prev[r], held[r])
  /\ Idle(r)
  /\ UNCHANGED <<storeVars, clash, outsideRequests>>

\* deleteOne: symbolsService.deleteOne removes the document.
DeleteRemove(r) ==
  /\ pc[r] = "idle"
  /\ \E i \in Ids :
       /\ stored[i] # None
       /\ stored' = [stored EXCEPT ![i] = None]
       /\ pc' = [pc EXCEPT ![r] = "unregister"]
       /\ prev' = [prev EXCEPT ![r] = stored[i].ps]
       /\ held' = [held EXCEPT ![r] = Entity(i, stored[i])]
       /\ clash' = (clash \/ Endangers(r, i, stored[i].ps, None))
  /\ UNCHANGED <<issued, desired, outsideRequests>>

\* unregisterSymbol, once the store has answered.
DeleteUnregister(r) ==
  /\ pc[r] = "unregister"
  /\ unregisterSymbol(held[r])
  /\ Idle(r)
  /\ UNCHANGED <<storeVars, clash, outsideRequests>>

\* The store did the write but its answer is an error: CommonService throws,
\* the request ends, and the registry never learns of the write.
AnswerLost(r) ==
  /\ StoreFails
  /\ pc[r] \in Answered
  /\ Idle(r)
  /\ clash' = TRUE
  /\ UNCHANGED <<storeVars, desired, outsideRequests>>
-----------------------------------------------------------------------------
(* bootstrap(), shutdown and crashes.                                        *)

\* loadExistingSymbols: the query reads the collection.
BootSelect ==
  /\ boot = "loading"
  /\ boot' = "selected"
  /\ snapshot' = stored
  /\ UNCHANGED <<desired, connection, stream, shuttingDown, outsideBoot>>

\* loadExistingSymbols: its answer is copied into the registry.
BootLoad ==
  /\ boot = "selected"
  /\ boot' = "connecting"
  /\ desired' = Loading(snapshot)
  /\ snapshot' = [i \in Ids |-> None]
  /\ UNCHANGED <<connection, stream, shuttingDown, outsideBoot>>

\* connect() resolves and startMarketTickerStream() runs, unless the module is
\* shutting down by then.
BootConnect ==
  /\ boot = "connecting"
  /\ boot' = "done"
  /\ connection' = "open"
  /\ startMarketTickerStream
  /\ UNCHANGED <<desired, snapshot, shuttingDown, outsideBoot>>

\* The query or the connection fails: bootstrap() logs it and nothing retries.
BootFail ==
  /\ boot \in {"loading", "connecting"}
  /\ boot' = IF boot = "loading" THEN "failed" ELSE "offline"
  /\ UNCHANGED <<desired, snapshot, connection, stream, shuttingDown, outsideBoot>>

\* onModuleDestroy: drop the stream, disconnect the connection there is.
Shutdown ==
  /\ ~shuttingDown
  /\ shuttingDown' = TRUE
  /\ stream' = FALSE
  /\ connection' = IF connection = "open" THEN "closed" ELSE connection
  /\ UNCHANGED <<desired, boot, snapshot, outsideBoot>>

\* The process dies (or exits) and a new one starts: the store survives, the
\* registry, the promise chain and the requests under way do not.
Crash ==
  /\ crashes < MaxCrashes
  /\ crashes' = crashes + 1
  /\ desired' = [k \in ProviderSymbols |-> None]
  /\ boot' = "loading"
  /\ snapshot' = [i \in Ids |-> None]
  /\ connection' = "none"
  /\ stream' = FALSE
  /\ shuttingDown' = FALSE
  /\ heard' = <<>>
  /\ batch' = 0
  /\ entry' = 1
  /\ tick' = "idle"
  /\ subject' = None
  /\ pc' = [r \in Requests |-> "idle"]
  /\ prev' = [r \in Requests |-> None]
  /\ held' = [r \in Requests |-> None]
  /\ emit' = None
  /\ clash' = FALSE
  /\ UNCHANGED storeVars
-----------------------------------------------------------------------------
(* The ticker chain.                                                         *)

\* enqueueTickerBatch: the batch is chained behind those already received.
StreamMessage ==
  /\ stream
  /\ Len(heard) < MaxBatches
  /\ \E b \in Batches : heard' = Append(heard, b)
  /\ UNCHANGED <<storeVars, desired, bootVars, chainVars, requestVars, emit,
                 clash, crashes>>

\* handleTickerBatch: an empty batch, or one reached during shutdown, is dropped.
StartBatch ==
  /\ tick = "idle"
  /\ batch < Len(heard)
  /\ batch' = batch + 1
  /\ entry' = 1
  /\ tick' = IF heard[batch + 1] = <<>> \/ shuttingDown THEN "idle" ELSE "next"
  /\ UNCHANGED <<storeVars, desired, bootVars, heard, subject, requestVars, emit,
                 clash, crashes>>

\* The for loop of handleTickerBatch goes on.
NextEntry ==
  /\ subject' = None
  /\ IF entry < Len(heard[batch])
       THEN entry' = entry + 1 /\ tick' = "next"
       ELSE entry' = entry /\ tick' = "idle"

\* handleTickerEntry returns early: the price is not a number, the symbol is
\* not tracked, or the registry has that price already.
Ignored(q) ==
  q.c # NotFinite /\ desired[q.s] # None => desired[q.s].price = q.c

SkipEntry ==
  /\ tick = "next"
  /\ Ignored(Quote)
  /\ NextEntry
  /\ UNCHANGED <<storeVars, desired, emit, clash, outsideChain>>

\* handleTickerEntry: keep `current` and ask the store to write the price.
SendPrice ==
  /\ tick = "next"
  /\ ~Ignored(Quote)
  /\ tick' = "sent"
  /\ subject' = desired[Quote.s]
  /\ UNCHANGED <<storeVars, desired, entry, emit, clash, outsideChain>>

\* What handleTickerEntry asks the store to write: the price, and with it the
\* provider symbol the registry had when the quote was looked up.
WriteOnlyPrice(current, price) ==
  [ps |-> stored[current.id].ps, price |-> price]
PriceWrite(current, price) == [ps |-> current.ps, price |-> price]

\* The store writes it, if the document is still there and its key free.
WritePrice ==
  /\ tick = "sent"
  /\ LET i == subject.id
         doc == PriceWrite(subject, Quote.c) IN
     /\ stored[i] # None
     /\ KeyFree(i, doc.ps)
     /\ stored' = [stored EXCEPT ![i] = doc]
     /\ subject' = Entity(i, doc)
     /\ clash' = (clash \/ Endangers(None, i, stored[i].ps, doc.ps))
  /\ tick' = "written"
  /\ UNCHANGED <<issued, desired, entry, emit, outsideChain>>

\* What the clients are sent.
Announcement ==
  [batch |-> batch, entry |-> entry, ps |-> Quote.s, price |-> Quote.c]

\* An exception leaves the loop of handleTickerBatch: the catch behind the
\* batch logs it, and the chain is free for the next one.
AbandonBroadcasts == emit' = Announcement /\ NextEntry
AbandonRetries == tick' = "next" /\ subject' = None /\ UNCHANGED <<entry, emit>>
AbandonBreaks ==
  tick' = "rejected" /\ subject' = None /\ UNCHANGED <<entry, emit>>
Abandon == tick' = "idle" /\ subject' = None /\ UNCHANGED <<entry, emit>>

\* The store has nothing to update, or fails.
Refused ==
  \/ StoreFails
  \/ stored[subject.id] = None
  \/ ~KeyFree(subject.id, subject.ps)

\* updateOne throws without having written.
WriteRefused ==
  /\ tick = "sent"
  /\ Refused
  /\ Abandon
  /\ UNCHANGED <<storeVars, desired, clash, outsideChain>>

\* The store wrote the price but its answer is an error.
WriteLost ==
  /\ StoreFails
  /\ tick = "written"
  /\ Abandon
  /\ clash' = TRUE
  /\ UNCHANGED <<storeVars, desired, outsideChain>>

\* desiredSymbols.set(providerSymbol, updated)
KeepCurrent == UNCHANGED desired
KeepUpdated == desired' = [desired EXCEPT ![Quote.s] = subject]

\* handleTickerEntry, once the store has answered: update the registry and
\* broadcast the price.
Broadcast ==
  /\ tick = "written"
  /\ KeepUpdated
  /\ emit' = Announcement
  /\ NextEntry
  /\ UNCHANGED <<storeVars, clash, outsideChain>>
-----------------------------------------------------------------------------
(* The collection may hold anything earlier processes or the seeds left.     *)
Init ==
  /\ stored \in [Ids -> Docs \cup {None}]
  /\ \A i \in Ids : stored[i] # None => KeyFree(i, stored[i].ps)
  /\ issued = {i \in Ids : stored[i] # None}
  /\ desired = [k \in ProviderSymbols |-> None]
  /\ boot = "loading"
  /\ snapshot = [i \in Ids |-> None]
  /\ connection = "none"
  /\ stream = FALSE
  /\ shuttingDown = FALSE
  /\ heard = <<>>
  /\ batch = 0
  /\ entry = 1
  /\ tick = "idle"
  /\ subject = None
  /\ pc = [r \in Requests |-> "idle"]
  /\ prev = [r \in Requests |-> None]
  /\ held = [r \in Requests |-> None]
  /\ emit = None
  /\ clash = FALSE
  /\ crashes = 0

RequestStep(r) ==
  \/ CreateInsert(r) \/ CreateRegister(r)
  \/ UpdateSelect(r) \/ UpdateWrite(r) \/ UpdateFail(r) \/ UpdateSync(r)
  \/ DeleteRemove(r) \/ DeleteUnregister(r)
  \/ AnswerLost(r)

BootStep == BootSelect \/ BootLoad \/ BootConnect \/ BootFail

ChainStep ==
  \/ StartBatch \/ SkipEntry \/ SendPrice
  \/ WritePrice \/ WriteRefused \/ WriteLost \/ Broadcast

Next ==
  \/ \E r \in Requests : RequestStep(r)
  \/ BootStep \/ Shutdown \/ Crash
  \/ StreamMessage
  \/ ChainStep

Spec == Init /\ [][Next]_vars

(* The promise chain always goes on: the event loop runs its continuations   *)
(* and the driver answers every write, with a result or with an error.       *)
FairSpec == Spec /\ WF_vars(ChainStep)
-----------------------------------------------------------------------------
(* Properties.                                                               *)

(* The registry and the collection say the same of key k.                    *)
Agree(k) ==
  \A e \in Entities : e.ps = k =>
    (desired[k] = e <=> stored[e.id] = [ps |-> k, price |-> e.price])

Loaded == boot \in {"connecting", "done", "offline"}

\* Keys whose registry entry an answer under way will still change.
InFlight(k) ==
  \/ \E r \in Requests : pc[r] \in Answered /\ k \in {prev[r], held[r].ps}
  \/ tick = "written" /\ Quote.s = k

(* Every registry entry sits under its own provider symbol: handleTickerEntry *)
(* stores the answer under the key of the quote, whatever administrators did *)
(* to the document while the write was under way.                            *)
KeyMatchesEntry ==
  \A k \in ProviderSymbols : desired[k] # None => desired[k].ps = k

(* Once bootstrap() has loaded the collection, and as long as no two actors  *)
(* overlapped on a document or a key in one of the ways Endangers names, the *)
(* registry differs from the collection only on keys an answer under way is  *)
(* about to set: nothing is stale, missing or left over (registerSymbol,     *)
(* syncSymbol, unregisterSymbol, loadExistingSymbols and handleTickerEntry   *)
(* together keep it so).                                                     *)
DivergenceIsInFlight ==
  Loaded /\ ~clash => \A k \in ProviderSymbols : Agree(k) \/ InFlight(k)

(* A broadcast price is, at that moment, the stored price of the symbol it   *)
(* names, under the same proviso.                                            *)
BroadcastMatchesStore ==
  [][emit' # emit /\ emit' # None /\ ~clash =>
       \E i \in Ids : stored[i] = [ps |-> emit'.ps, price |-> emit'.price]]_vars

(* No stream is subscribed once onModuleDestroy has run, although bootstrap()*)
(* may still be waiting for its connection then.                             *)
NoStreamAfterShutdown == shuttingDown => ~stream

(* Every batch received is handled to its end or given up: one that throws   *)
(* never blocks those chained behind it (the catch in enqueueTickerBatch).   *)
Settled(n) == batch > n \/ (batch = n /\ tick = "idle")
EveryBatchSettles ==
  \A n \in 1 .. MaxBatches : Len(heard) >= n ~> (Len(heard) < n \/ Settled(n))

(* The chain implements PriceFeed: a batch counts as settled once the chain  *)
(* is idle behind it.                                                        *)
Feed == INSTANCE PriceFeed WITH
  full <- IF tick = "idle" THEN batch ELSE batch - 1,
  part <- IF tick = "idle" THEN 0 ELSE entry - 1
ImplementsFeed == Feed!Spec
ImplementsFairFeed == Feed!FairSpec
-----------------------------------------------------------------------------
(* What the documentation says and the code does not keep.                   *)

(* "Keeps Binance websocket streams in sync with stored symbols": with no    *)
(* request and no batch under way, registry and collection agree.            *)
InSyncWhenQuiet ==
  /\ boot = "done"
  /\ \A r \in Requests : pc[r] = "idle"
  /\ tick = "idle" /\ batch = Len(heard)
  => \A k \in ProviderSymbols : Agree(k)
=============================================================================
