------------------------ MODULE SymbolRegistryProofs ------------------------
(* Proofs about SymbolRegistry for every value of its constants.             *)
EXTENDS SymbolRegistry, TLAPS

USE SentinelAssumption, BatchAssumption, BoundAssumption

(* What makes TypeOK inductive: a request under way holds an entity and a    *)
(* key, the chain stands inside a batch, and past the lookup it holds an     *)
(* entity of the quoted key.                                                 *)
RequestsHold ==
  \A r \in Requests : pc[r] # "idle" =>
    held[r] \in Entities /\ prev[r] \in ProviderSymbols

ChainStands ==
  tick # "idle" => batch \in 1 .. Len(heard) /\ entry \in 1 .. Len(heard[batch])

ChainHolds ==
  /\ tick \in {"sent", "written"} =>
       subject \in Entities /\ subject.ps = Quote.s /\ Quote.c \in Prices
  /\ tick = "written" => subject.price = Quote.c

RegistryInv ==
  /\ TypeOK
  /\ RequestsHold
  /\ ChainStands
  /\ ChainHolds
  /\ KeyMatchesEntry
  /\ NoStreamAfterShutdown

(* The store's answers are entities.                                         *)
LEMMA EntityType ==
  ASSUME NEW i \in Ids, NEW doc \in Docs
  PROVE  Entity(i, doc) \in Entities /\ Entity(i, doc).ps = doc.ps
  BY DEF Entity, Entities, Docs

(* Documents and entities are told from their absence.                       *)
LEMMA NoneIsNothing ==
  /\ None \notin Entities
  /\ None \notin Docs
  /\ None \notin Ids
  /\ None \notin ProviderSymbols
  OBVIOUS

(* The quote in hand is a quote.                                             *)
LEMMA QuoteType ==
  ASSUME TypeOK, ChainStands, tick # "idle"
  PROVE  Quote \in Quotes
  <1>1. heard[batch] \in Seq(Quotes)
    BY DEF TypeOK, ChainStands
  <1> QED
    BY <1>1 DEF ChainStands, Quote

(* A loaded registry holds entities, each under its own key.                 *)
LEMMA LoadingType ==
  ASSUME TypeOK, KeyMatchesEntry, NEW docs \in [Ids -> Docs \cup {None}]
  PROVE  /\ Loading(docs) \in [ProviderSymbols -> Entities \cup {None}]
         /\ \A k \in ProviderSymbols :
              Loading(docs)[k] # None => Loading(docs)[k].ps = k
  <1> SUFFICES ASSUME NEW k \in ProviderSymbols
               PROVE  /\ Loading(docs)[k] \in Entities \cup {None}
                      /\ Loading(docs)[k] # None => Loading(docs)[k].ps = k
    BY DEF Loading
  <1>1. CASE \E i \in Ids : docs[i] # None /\ docs[i].ps = k
    <2> DEFINE i == CHOOSE j \in Ids : docs[j] # None /\ docs[j].ps = k
    <2>1. i \in Ids /\ docs[i] # None /\ docs[i].ps = k
      BY <1>1
    <2>2. Loading(docs)[k] = Entity(i, docs[i])
      BY <1>1 DEF Loading
    <2>3. docs[i] \in Docs
      BY <2>1
    <2> HIDE DEF i
    <2> QED BY <2>1, <2>2, <2>3, EntityType
  <1>2. CASE ~ \E i \in Ids : docs[i] # None /\ docs[i].ps = k
    BY <1>2 DEF Loading, TypeOK, KeyMatchesEntry
  <1> QED BY <1>1, <1>2
-----------------------------------------------------------------------------
LEMMA InitInv == Init => RegistryInv
  <1> SUFFICES ASSUME Init PROVE RegistryInv
    OBVIOUS
  <1>1. heard \in Seq(Seq(Quotes)) /\ batch \in 0 .. Len(heard)
    BY DEF Init
  <1>2. TypeOK
    BY <1>1 DEF Init, TypeOK, BootStages, TickStages, RequestStages
  <1> QED
    BY <1>2 DEF Init, RegistryInv, RequestsHold, ChainStands, ChainHolds,
       KeyMatchesEntry, NoStreamAfterShutdown

(* Requests: a step of one request leaves the chain alone, and what it puts  *)
(* in the registry sits under its own key.                                   *)
LEMMA RequestStepInv ==
  ASSUME RegistryInv, NEW r \in Requests, RequestStep(r)
  PROVE  RegistryInv'
  <1> USE DEF RegistryInv
  <1>0. ASSUME Idle(r)
        PROVE  /\ pc' \in [Requests -> RequestStages]
               /\ prev' \in [Requests -> ProviderSymbols \cup {None}]
               /\ held' \in [Requests -> Entities \cup {None}]
               /\ RequestsHold'
    BY <1>0 DEF Idle, TypeOK, RequestStages, RequestsHold
  <1>1. UNCHANGED outsideRequests => ChainStands' /\ ChainHolds' /\ NoStreamAfterShutdown'
    BY DEF outsideRequests, bootVars, chainVars, ChainStands, ChainHolds,
       NoStreamAfterShutdown, Quote
  <1>2. CASE CreateInsert(r)
    <2> PICK i \in Ids \ issued, doc \in Docs : CreateInsert(r)!2!(i, doc)
      BY <1>2 DEF CreateInsert
    <2>1. Entity(i, doc) \in Entities /\ doc.ps \in ProviderSymbols
      BY EntityType DEF Docs
    <2>2. TypeOK'
      BY <1>2, <2>1 DEF CreateInsert, TypeOK, RequestStages, outsideRequests,
         bootVars, chainVars, Endangers
    <2>3. RequestsHold'
      BY <1>2, <2>1 DEF CreateInsert, TypeOK, RequestsHold
    <2> QED
      BY <1>1, <1>2, <2>2, <2>3 DEF CreateInsert, KeyMatchesEntry
  <1>3. CASE CreateRegister(r)
    <2>1. held[r] \in Entities /\ held[r].ps \in ProviderSymbols
      BY <1>3 DEF CreateRegister, RequestsHold, Entities
    <2>2. TypeOK'
      BY <1>0, <1>3, <2>1 DEF CreateRegister, TypeOK, registerSymbol,
         outsideRequests, storeVars, bootVars, chainVars
    <2>3. KeyMatchesEntry'
      BY <1>3, <2>1 DEF CreateRegister, TypeOK, registerSymbol, KeyMatchesEntry
    <2> QED
      BY <1>0, <1>1, <1>3, <2>2, <2>3 DEF CreateRegister
  <1>4. CASE UpdateSelect(r)
    <2> PICK i \in Ids : UpdateSelect(r)!2!(i)
      BY <1>4 DEF UpdateSelect
    <2>1. /\ stored[i] \in Docs
          /\ stored[i].ps \in ProviderSymbols
          /\ Entity(i, stored[i]) \in Entities
      BY EntityType DEF TypeOK, Docs
    <2>2. TypeOK'
      BY <1>4, <2>1 DEF UpdateSelect, TypeOK, RequestStages, outsideRequests,
         storeVars, bootVars, chainVars
    <2>3. RequestsHold'
      BY <1>4, <2>1 DEF UpdateSelect, TypeOK, RequestsHold
    <2> QED
      BY <1>1, <1>4, <2>2, <2>3 DEF UpdateSelect, KeyMatchesEntry
  <1>5. CASE UpdateWrite(r)
    <2> DEFINE i == held[r].id
    <2>0. i \in Ids /\ stored[i] \in Docs
      BY <1>5 DEF UpdateWrite, RequestsHold, Entities, TypeOK
    <2> PICK p \in Patches :
          LET doc == Patched(stored[i], p) IN
          /\ stored' = [stored EXCEPT ![i] = doc]
          /\ pc' = [pc EXCEPT ![r] = "sync"]
          /\ held' = [held EXCEPT ![r] = Entity(i, doc)]
          /\ clash' = (clash \/ Endangers(r, i, stored[i].ps, doc.ps))
      BY <1>5 DEF UpdateWrite
    <2>1. Patched(stored[i], p) \in Docs
      BY <2>0 DEF Patched, Patches, Docs
    <2>2. Entity(i, Patched(stored[i], p)) \in Entities
      BY <2>0, <2>1, EntityType
    <2> HIDE DEF i
    <2>3. TypeOK'
      BY <1>5, <2>0, <2>1, <2>2 DEF UpdateWrite, TypeOK, RequestStages,
         outsideRequests, bootVars, chainVars, Endangers
    <2>4. RequestsHold'
      BY <1>5, <2>2 DEF UpdateWrite, TypeOK, RequestsHold
    <2> QED
      BY <1>1, <1>5, <2>3, <2>4 DEF UpdateWrite, KeyMatchesEntry
  <1>6. CASE UpdateFail(r)
    <2>1. TypeOK'
      BY <1>0, <1>6 DEF UpdateFail, TypeOK, outsideRequests, storeVars,
         bootVars, chainVars
    <2> QED
      BY <1>0, <1>1, <1>6, <2>1 DEF UpdateFail, KeyMatchesEntry
  <1>7. CASE UpdateSync(r)
    <2>1. /\ held[r] \in Entities
          /\ held[r].ps \in ProviderSymbols
          /\ prev[r] \in ProviderSymbols
      BY <1>7 DEF UpdateSync, RequestsHold, Entities
    <2>2. TypeOK'
      BY <1>0, <1>7, <2>1 DEF UpdateSync, TypeOK, syncSymbol,
         outsideRequests, storeVars, bootVars, chainVars
    <2>3. KeyMatchesEntry'
      BY <1>7, <2>1 DEF UpdateSync, TypeOK, syncSymbol, KeyMatchesEntry
    <2> QED
      BY <1>0, <1>1, <1>7, <2>2, <2>3 DEF UpdateSync
  <1>8. CASE DeleteRemove(r)
    <2> PICK i \in Ids : DeleteRemove(r)!2!(i)
      BY <1>8 DEF DeleteRemove
    <2>1. /\ stored[i] \in Docs
          /\ stored[i].ps \in ProviderSymbols
          /\ Entity(i, stored[i]) \in Entities
      BY EntityType DEF TypeOK, Docs
    <2>2. TypeOK'
      BY <1>8, <2>1 DEF DeleteRemove, TypeOK, RequestStages, outsideRequests,
         bootVars, chainVars, Endangers
    <2>3. RequestsHold'
      BY <1>8, <2>1 DEF DeleteRemove, TypeOK, RequestsHold
    <2> QED
      BY <1>1, <1>8, <2>2, <2>3 DEF DeleteRemove, KeyMatchesEntry
  <1>9. CASE DeleteUnregister(r)
    <2>1. TypeOK'
      BY <1>0, <1>9 DEF DeleteUnregister, TypeOK, unregisterSymbol,
         outsideRequests, storeVars, bootVars, chainVars
    <2>2. KeyMatchesEntry'
      BY <1>9 DEF DeleteUnregister, TypeOK, unregisterSymbol, KeyMatchesEntry
    <2> QED
      BY <1>0, <1>1, <1>9, <2>1, <2>2 DEF DeleteUnregister
  <1>10. CASE AnswerLost(r)
    <2>1. TypeOK'
      BY <1>0, <1>10 DEF AnswerLost, TypeOK, outsideRequests, storeVars,
         bootVars, chainVars
    <2> QED
      BY <1>0, <1>1, <1>10, <2>1 DEF AnswerLost, KeyMatchesEntry
  <1> QED
    BY <1>2, <1>3, <1>4, <1>5, <1>6, <1>7, <1>8, <1>9, <1>10 DEF RequestStep

(* bootstrap(), shutdown and crashes.                                        *)
LEMMA BootStepInv ==
  ASSUME RegistryInv, BootStep \/ Shutdown \/ Crash
  PROVE  RegistryInv'
  <1> USE DEF RegistryInv
  <1>1. UNCHANGED outsideBoot => RequestsHold' /\ ChainStands' /\ ChainHolds'
    BY DEF outsideBoot, chainVars, requestVars, RequestsHold, ChainStands,
       ChainHolds, Quote
  <1>2. CASE BootSelect
    <2>1. TypeOK'
      BY <1>2 DEF BootSelect, TypeOK, BootStages, outsideBoot, storeVars,
         chainVars, requestVars
    <2> QED
      BY <1>1, <1>2, <2>1 DEF BootSelect, KeyMatchesEntry, NoStreamAfterShutdown
  <1>3. CASE BootLoad
    <2>1. /\ desired' \in [ProviderSymbols -> Entities \cup {None}]
          /\ KeyMatchesEntry'
      BY <1>3, LoadingType DEF BootLoad, TypeOK, KeyMatchesEntry
    <2>2. TypeOK'
      BY <1>3, <2>1 DEF BootLoad, TypeOK, BootStages, outsideBoot, storeVars,
         chainVars, requestVars
    <2> QED
      BY <1>1, <1>3, <2>1, <2>2 DEF BootLoad, NoStreamAfterShutdown
  <1>4. CASE BootConnect
    <2>1. TypeOK'
      BY <1>4 DEF BootConnect, TypeOK, BootStages, startMarketTickerStream,
         outsideBoot, storeVars, chainVars, requestVars
    <2>2. NoStreamAfterShutdown'
      BY <1>4 DEF BootConnect, startMarketTickerStream, NoStreamAfterShutdown
    <2> QED
      BY <1>1, <1>4, <2>1, <2>2 DEF BootConnect, KeyMatchesEntry
  <1>5. CASE BootFail
    <2>1. TypeOK'
      BY <1>5 DEF BootFail, TypeOK, BootStages, outsideBoot, storeVars,
         chainVars, requestVars
    <2> QED
      BY <1>1, <1>5, <2>1 DEF BootFail, KeyMatchesEntry, NoStreamAfterShutdown
  <1>6. CASE Shutdown
    <2>1. TypeOK'
      BY <1>6 DEF Shutdown, TypeOK, outsideBoot, storeVars, chainVars,
         requestVars
    <2> QED
      BY <1>1, <1>6, <2>1 DEF Shutdown, KeyMatchesEntry, NoStreamAfterShutdown
  <1>7. CASE Crash
    <2>1. heard' \in Seq(Seq(Quotes)) /\ batch' \in 0 .. Len(heard')
      BY <1>7 DEF Crash
    <2>2. /\ desired' \in [ProviderSymbols -> Entities \cup {None}]
          /\ snapshot' \in [Ids -> Docs \cup {None}]
          /\ pc' \in [Requests -> RequestStages]
          /\ prev' \in [Requests -> ProviderSymbols \cup {None}]
          /\ held' \in [Requests -> Entities \cup {None}]
      BY <1>7 DEF Crash, RequestStages
    <2>3. /\ stored' = stored /\ issued' = issued
          /\ boot' = "loading" /\ connection' = "none"
          /\ stream' = FALSE /\ shuttingDown' = FALSE /\ clash' = FALSE
          /\ entry' = 1 /\ tick' = "idle" /\ subject' = None /\ emit' = None
          /\ crashes' \in Nat
      BY <1>7 DEF Crash, storeVars, TypeOK
    <2>4. TypeOK'
      BY <2>1, <2>2, <2>3 DEF TypeOK, BootStages, TickStages
    <2> QED
      BY <1>7, <2>4 DEF Crash, RequestsHold, ChainStands, ChainHolds,
         KeyMatchesEntry, NoStreamAfterShutdown
  <1> QED
    BY <1>2, <1>3, <1>4, <1>5, <1>6, <1>7 DEF BootStep

(* A batch received is chained behind the one in hand.                       *)
LEMMA StreamMessageInv ==
  ASSUME RegistryInv, StreamMessage
  PROVE  RegistryInv'
  <1> USE DEF RegistryInv
  <1> PICK b \in Batches : heard' = Append(heard, b)
    BY DEF StreamMessage
  <1>1. /\ heard \in Seq(Seq(Quotes))
        /\ b \in Seq(Quotes)
    BY DEF TypeOK
  <1>2. /\ heard' \in Seq(Seq(Quotes))
        /\ Len(heard') = Len(heard) + 1
        /\ \A n \in 1 .. Len(heard) : heard'[n] = heard[n]
    BY <1>1
  <1>3. batch \in Nat /\ batch' = batch /\ batch <= Len(heard)
    BY <1>1 DEF TypeOK, StreamMessage, chainVars
  <1>4. TypeOK'
    BY <1>1, <1>2, <1>3 DEF StreamMessage, TypeOK, storeVars, bootVars, chainVars,
       requestVars
  <1>5. ChainStands' /\ ChainHolds'
    BY <1>1, <1>2, <1>3 DEF StreamMessage, chainVars, ChainStands, ChainHolds,
       Quote
  <1> QED
    BY <1>4, <1>5 DEF StreamMessage, bootVars, requestVars, RequestsHold,
       KeyMatchesEntry, NoStreamAfterShutdown

(* The ticker chain: it advances inside the batch it stands in, and writes   *)
(* back the key under which it looked the symbol up.                         *)
LEMMA ChainStepInv ==
  ASSUME RegistryInv, ChainStep
  PROVE  RegistryInv'
  <1> USE DEF RegistryInv
  <1>0. /\ heard \in Seq(Seq(Quotes))
        /\ batch \in Nat
        /\ entry \in Nat
        /\ tick # "idle" => batch <= Len(heard) /\ heard[batch] \in Seq(Quotes)
    BY DEF TypeOK, ChainStands
  <1>1. tick # "idle" => Quote \in Quotes
    BY QuoteType
  <1>2. ASSUME tick # "idle", NextEntry, heard' = heard, batch' = batch
        PROVE  /\ entry' \in Nat
               /\ tick' \in {"idle", "next"}
               /\ subject' = None
               /\ ChainStands'
               /\ ChainHolds'
    BY <1>0, <1>2 DEF NextEntry, ChainStands, ChainHolds
  <1>3. ASSUME tick # "idle", Quote.c \in Prices
        PROVE  Announcement \in Broadcasts
    BY <1>0, <1>1, <1>3 DEF Announcement, Broadcasts, Quotes
  <1>4. CASE StartBatch
    <2>1. batch + 1 \in 1 .. Len(heard) /\ heard[batch + 1] \in Seq(Quotes)
      BY <1>0, <1>4 DEF StartBatch
    <2>2. ChainStands'
      BY <1>4, <2>1 DEF StartBatch, ChainStands
    <2>3. TypeOK'
      BY <1>4, <2>1 DEF StartBatch, TypeOK, TickStages, storeVars, bootVars,
         requestVars
    <2> QED
      BY <1>4, <2>2, <2>3 DEF StartBatch, ChainHolds, bootVars, requestVars,
         RequestsHold, KeyMatchesEntry, NoStreamAfterShutdown
  <1>5. CASE SkipEntry
    <2>1. NextEntry /\ tick # "idle" /\ heard' = heard /\ batch' = batch
      BY <1>5 DEF SkipEntry, outsideChain
    <2>2. TypeOK'
      BY <1>2, <1>5, <2>1 DEF SkipEntry, TypeOK, TickStages, storeVars, bootVars,
         requestVars, outsideChain
    <2> QED
      BY <1>2, <1>5, <2>1, <2>2 DEF SkipEntry, outsideChain, bootVars,
         requestVars, RequestsHold, KeyMatchesEntry, NoStreamAfterShutdown
  <1>6. CASE SendPrice
    <2>1. /\ Quote \in Quotes
          /\ Quote' = Quote
          /\ desired[Quote.s] # None
          /\ Quote.c # NotFinite
      BY <1>1, <1>6 DEF SendPrice, Ignored, outsideChain, Quote
    <2>2. subject' \in Entities /\ subject'.ps = Quote.s /\ Quote.c \in Prices
      BY <1>6, <2>1 DEF SendPrice, TypeOK, KeyMatchesEntry, Quotes
    <2>3. TypeOK'
      BY <1>6, <2>2 DEF SendPrice, TypeOK, TickStages, storeVars, bootVars,
         requestVars, outsideChain
    <2>4. ChainStands' /\ ChainHolds'
      BY <1>6, <2>1, <2>2 DEF SendPrice, ChainStands, ChainHolds, outsideChain
    <2> QED
      BY <1>6, <2>3, <2>4 DEF SendPrice, outsideChain, bootVars,
         requestVars, RequestsHold, KeyMatchesEntry, NoStreamAfterShutdown
  <1>7. CASE WritePrice
    <2> DEFINE doc == PriceWrite(subject, Quote.c)
    <2>1. /\ subject.id \in Ids
          /\ doc \in Docs
          /\ doc.ps = Quote.s
          /\ Quote' = Quote
          /\ Quote.c \in Prices
      BY <1>7 DEF WritePrice, ChainHolds, Entities, PriceWrite, Docs,
         outsideChain, Quote
    <2>2. /\ subject' \in Entities
          /\ subject'.ps = Quote.s
          /\ subject'.price = Quote.c
      BY <1>7, <2>1, EntityType DEF WritePrice, Entity, PriceWrite
    <2>3. /\ stored' = [stored EXCEPT ![subject.id] = doc]
          /\ clash' \in BOOLEAN
      BY <1>7 DEF WritePrice, TypeOK, Endangers
    <2> HIDE DEF doc
    <2>4. TypeOK'
      BY <1>7, <2>1, <2>2, <2>3 DEF WritePrice, TypeOK, TickStages,
         bootVars, requestVars, outsideChain
    <2>5. ChainStands' /\ ChainHolds'
      BY <1>7, <2>1, <2>2 DEF WritePrice, ChainStands, ChainHolds, outsideChain
    <2> QED
      BY <1>7, <2>4, <2>5 DEF WritePrice, outsideChain, bootVars,
         requestVars, RequestsHold, KeyMatchesEntry, NoStreamAfterShutdown
  <1>8. CASE WriteRefused \/ WriteLost
    <2>1. TypeOK'
      BY <1>8 DEF WriteRefused, WriteLost, Abandon, TypeOK, TickStages,
         storeVars, bootVars, requestVars, outsideChain
    <2> QED
      BY <1>8, <2>1 DEF WriteRefused, WriteLost, Abandon, ChainStands, ChainHolds,
         outsideChain, bootVars, requestVars, RequestsHold, KeyMatchesEntry,
         NoStreamAfterShutdown
  <1>9. CASE Broadcast
    <2>1. NextEntry /\ tick # "idle" /\ heard' = heard /\ batch' = batch
      BY <1>9 DEF Broadcast, outsideChain
    <2>2. /\ subject \in Entities
          /\ subject.ps = Quote.s
          /\ Quote.s \in ProviderSymbols
          /\ emit' \in Broadcasts
      BY <1>1, <1>3, <1>9 DEF Broadcast, ChainHolds, Quotes, Entities
    <2>3. TypeOK'
      BY <1>2, <1>9, <2>1, <2>2 DEF Broadcast, KeepUpdated, TypeOK, TickStages,
         storeVars, bootVars, requestVars, outsideChain
    <2>4. KeyMatchesEntry'
      BY <1>9, <2>2 DEF Broadcast, KeepUpdated, TypeOK, KeyMatchesEntry
    <2> QED
      BY <1>2, <1>9, <2>1, <2>3, <2>4 DEF Broadcast, outsideChain, bootVars,
         requestVars, RequestsHold, NoStreamAfterShutdown
  <1> QED
    BY <1>4, <1>5, <1>6, <1>7, <1>8, <1>9 DEF ChainStep
-----------------------------------------------------------------------------
(* RegistryInv holds in every reachable state.                               *)
LEMMA StepInv == RegistryInv /\ [Next]_vars => RegistryInv'
  <1> SUFFICES ASSUME RegistryInv, [Next]_vars PROVE RegistryInv'
    OBVIOUS
  <1>1. CASE UNCHANGED vars
    BY <1>1 DEF vars, bootVars, chainVars, requestVars, RegistryInv, TypeOK,
       RequestsHold, ChainStands, ChainHolds, Quote, KeyMatchesEntry,
       NoStreamAfterShutdown
  <1> QED
    BY <1>1, RequestStepInv, BootStepInv, StreamMessageInv, ChainStepInv DEF Next

THEOREM RegistryInvariant == Spec => []RegistryInv
  BY InitInv, StepInv, PTL DEF Spec

(* The types of the variables, whatever the constants.                       *)
THEOREM TypeCorrect == Spec => []TypeOK
  <1>1. RegistryInv => TypeOK
    BY DEF RegistryInv
  <1> QED BY <1>1, RegistryInvariant, PTL

(* Every entry of desiredSymbols sits under its own provider symbol, whatever *)
(* races the requests, bootstrap() and the ticker chain run.                 *)
THEOREM KeysMatch == Spec => []KeyMatchesEntry
  <1>1. RegistryInv => KeyMatchesEntry
    BY DEF RegistryInv
  <1> QED BY <1>1, RegistryInvariant, PTL

(* onModuleDestroy leaves no stream behind, although connect() may still be  *)
(* awaited when it runs.                                                     *)
THEOREM NoStreamOpensDuringShutdown == Spec => []NoStreamAfterShutdown
  <1>1. RegistryInv => NoStreamAfterShutdown
    BY DEF RegistryInv
  <1> QED BY <1>1, RegistryInvariant, PTL
-----------------------------------------------------------------------------
(* The registry against the collection.                                      *)

StoredAs(e) == stored[e.id] = [ps |-> e.ps, price |-> e.price]

\* bootstrap() will not set document i any more.
Left(i) == Loaded \/ (boot = "selected" /\ snapshot[i] = None)

(* Key k is right: what the registry has under it is stored, and the stored  *)
(* document of that key is there unless bootstrap() has still to set it.     *)
KeyRight(k) ==
  /\ desired[k] # None => StoredAs(desired[k])
  /\ \A i \in Ids : stored[i] # None /\ stored[i].ps = k /\ Left(i) =>
       desired[k] = Entity(i, stored[i])

(* What a request under way may rely on while nothing endangers it: its      *)
(* write is still the last one of its document, the key it has read is still *)
(* that of the document, and the key it is about to drop is free.            *)
RequestRight(r) ==
  /\ pc[r] \in {"register", "sync"} => StoredAs(held[r])
  /\ pc[r] = "selected" =>
       stored[held[r].id] # None /\ stored[held[r].id].ps = prev[r]
  /\ pc[r] \in {"register", "unregister"} => prev[r] = held[r].ps
  /\ pc[r] = "unregister" \/ (pc[r] = "sync" /\ prev[r] # held[r].ps) =>
       \A i \in Ids : stored[i] # None => stored[i].ps # prev[r]

ChainRight == tick = "written" => StoredAs(subject)
BootRight ==
  boot = "selected" => \A i \in Ids : snapshot[i] # None => stored[i] = snapshot[i]

KeysUnique == \A i \in Ids : stored[i] # None => KeyFree(i, stored[i].ps)
IssuedKnown == \A i \in Ids : stored[i] # None => i \in issued

Coherent ==
  /\ KeysUnique
  /\ IssuedKnown
  /\ ~clash => /\ \A r \in Requests : RequestRight(r)
               /\ ChainRight
               /\ BootRight
               /\ \A k \in ProviderSymbols : InFlight(k) \/ KeyRight(k)

KeyOf(d) == IF d = None THEN None ELSE d.ps

(* A write of document i that endangers nothing: the keys it does not touch  *)
(* stay right,                                                               *)
LEMMA WriteKeepsOtherKeys ==
  ASSUME TypeOK, KeyMatchesEntry,
         NEW i \in Ids, NEW d \in Docs \cup {None}, NEW k \in ProviderSymbols,
         stored' = [stored EXCEPT ![i] = d],
         UNCHANGED <<desired, boot, snapshot>>,
         KeyRight(k), k # KeyOf(stored[i]), k # KeyOf(d)
  PROVE  KeyRight(k)'
  <1>1. ASSUME desired[k] # None
        PROVE  desired[k].id # i /\ stored'[desired[k].id] = stored[desired[k].id]
    <2>1. /\ desired[k] \in Entities /\ desired[k].ps = k
          /\ stored[desired[k].id] = [ps |-> k, price |-> desired[k].price]
      BY <1>1 DEF TypeOK, KeyMatchesEntry, KeyRight, StoredAs
    <2>2. stored[desired[k].id] \in Docs
      BY <2>1 DEF Docs, Entities
    <2>3. stored[desired[k].id].ps = k /\ stored[desired[k].id] # None
      BY <2>1, <2>2
    <2> QED
      BY <2>1, <2>3 DEF KeyOf, TypeOK, Entities
  <1>2. ASSUME NEW j \in Ids, stored'[j] # None, stored'[j].ps = k
        PROVE  stored'[j] = stored[j]
    BY <1>2 DEF KeyOf, TypeOK
  <1> QED
    BY <1>1, <1>2 DEF KeyRight, StoredAs, Left, Loaded, Entity

(* the other requests keep what they rely on,                                *)
LEMMA WriteKeepsRequest ==
  ASSUME TypeOK, RequestsHold, NEW self, NEW r \in Requests \ {self},
         NEW i \in Ids, NEW d \in Docs \cup {None},
         stored' = [stored EXCEPT ![i] = d],
         ~Endangers(self, i, KeyOf(stored[i]), KeyOf(d)),
         pc'[r] = pc[r], prev'[r] = prev[r], held'[r] = held[r],
         RequestRight(r)
  PROVE  RequestRight(r)'
  <1>1. pc[r] # "idle" =>
          held[r] \in Entities /\ held[r].id \in Ids /\ prev[r] \in ProviderSymbols
    BY DEF RequestsHold, Entities
  <1>2. pc[r] \in Answered => held[r].id # i /\ prev[r] # KeyOf(d)
    BY DEF Endangers
  <1>3. pc[r] = "selected" /\ held[r].id = i => KeyOf(stored[i]) = KeyOf(d)
    BY DEF Endangers
  <1>4. pc[r] \in {"register", "sync"} => StoredAs(held[r])'
    BY <1>1, <1>2 DEF RequestRight, StoredAs, Answered, TypeOK
  <1>5. pc[r] = "selected" =>
          stored'[held[r].id] # None /\ stored'[held[r].id].ps = prev[r]
    BY <1>1, <1>3 DEF RequestRight, KeyOf, TypeOK, Docs
  <1>6. pc[r] = "unregister" \/ (pc[r] = "sync" /\ prev[r] # held[r].ps) =>
          \A j \in Ids : stored'[j] # None => stored'[j].ps # prev[r]
    BY <1>1, <1>2 DEF RequestRight, KeyOf, Answered, TypeOK
  <1> QED
    BY <1>4, <1>5, <1>6 DEF RequestRight

(* bootstrap() and the chain keep what they hold, and keys stay unique.      *)
LEMMA WriteKeepsRest ==
  ASSUME TypeOK, ChainHolds, NEW self, NEW i \in Ids, NEW d \in Docs \cup {None},
         stored' = [stored EXCEPT ![i] = d],
         UNCHANGED <<boot, snapshot>>
  PROVE  /\ ~Endangers(self, i, KeyOf(stored[i]), KeyOf(d)) /\ BootRight => BootRight'
         /\ ~Endangers(self, i, KeyOf(stored[i]), KeyOf(d)) /\ ChainRight
              /\ tick' = tick /\ subject' = subject => ChainRight'
         /\ KeysUnique /\ (d # None => KeyFree(i, d.ps)) => KeysUnique'
  <1>1. ASSUME ~Endangers(self, i, KeyOf(stored[i]), KeyOf(d)), BootRight
        PROVE  BootRight'
    BY <1>1 DEF Endangers, BootRight, TypeOK
  <1>2. ASSUME ~Endangers(self, i, KeyOf(stored[i]), KeyOf(d)), ChainRight,
               tick' = tick, subject' = subject
        PROVE  ChainRight'
    BY <1>2 DEF Endangers, ChainRight, ChainHolds, StoredAs, TypeOK, Entities
  <1>3. ASSUME KeysUnique, d # None => KeyFree(i, d.ps)
        PROVE  KeysUnique'
    BY <1>3 DEF KeysUnique, KeyFree, TypeOK
  <1> QED BY <1>1, <1>2, <1>3

(* A request writes document i and its answer is now under way: it keeps the *)
(* registry coherent if it keeps its own promises and owns both keys.        *)
LEMMA RequestWrites ==
  ASSUME RegistryInv, Coherent, NEW r \in Requests,
         NEW i \in Ids, NEW d \in Docs \cup {None},
         stored' = [stored EXCEPT ![i] = d],
         issued' = issued \cup (IF d = None THEN {} ELSE {i}),
         d # None => KeyFree(i, d.ps),
         pc[r] \notin Answered, pc'[r] \in Answered,
         \A s \in Requests \ {r} :
           pc'[s] = pc[s] /\ prev'[s] = prev[s] /\ held'[s] = held[s],
         clash' = (clash \/ Endangers(r, i, KeyOf(stored[i]), KeyOf(d))),
         UNCHANGED <<desired, outsideRequests>>,
         ~clash' => RequestRight(r)',
         ~clash' => \A k \in ProviderSymbols :
           k \in {KeyOf(stored[i]), KeyOf(d)} => k \in {prev'[r], held'[r].ps}
  PROVE  Coherent'
  <1> USE DEF RegistryInv
  <1>0. /\ UNCHANGED <<desired, boot, snapshot, tick, subject, heard, batch, entry>>
        /\ Quote' = Quote
    BY DEF outsideRequests, bootVars, chainVars, Quote
  <1>1. KeysUnique'
    BY <1>0, WriteKeepsRest DEF Coherent
  <1>2. IssuedKnown'
    BY DEF Coherent, IssuedKnown, TypeOK
  <1> SUFFICES ASSUME ~clash'
               PROVE  /\ \A s \in Requests : RequestRight(s)'
                      /\ ChainRight'
                      /\ BootRight'
                      /\ \A k \in ProviderSymbols : InFlight(k)' \/ KeyRight(k)'
    BY <1>1, <1>2 DEF Coherent
  <1>3. ~clash /\ ~Endangers(r, i, KeyOf(stored[i]), KeyOf(d))
    OBVIOUS
  <1>4. ASSUME NEW s \in Requests
        PROVE  RequestRight(s)'
    <2>1. CASE s = r
      BY <2>1
    <2>2. CASE s # r
      BY <1>3, <2>2, WriteKeepsRequest DEF Coherent
    <2> QED BY <2>1, <2>2
  <1>5. ChainRight' /\ BootRight'
    BY <1>0, <1>3, WriteKeepsRest DEF Coherent
  <1>6. ASSUME NEW k \in ProviderSymbols
        PROVE  InFlight(k)' \/ KeyRight(k)'
    <2>1. CASE k \in {KeyOf(stored[i]), KeyOf(d)}
      BY <2>1 DEF InFlight
    <2>2. CASE InFlight(k)
      BY <1>0, <2>2 DEF InFlight
    <2>3. CASE KeyRight(k) /\ k \notin {KeyOf(stored[i]), KeyOf(d)}
      BY <1>0, <2>3, WriteKeepsOtherKeys
    <2> QED BY <1>3, <2>1, <2>2, <2>3 DEF Coherent
  <1> QED BY <1>4, <1>5, <1>6

(* A request ends: the keys it owned are right now, the others untouched.    *)
LEMMA RequestEnds ==
  ASSUME RegistryInv, Coherent, NEW r \in Requests, Idle(r),
         UNCHANGED <<storeVars, clash, outsideRequests>>,
         ~clash => \A k \in ProviderSymbols :
           IF pc[r] \in Answered /\ k \in {prev[r], held[r].ps}
             THEN KeyRight(k)'
             ELSE desired'[k] = desired[k]
  PROVE  Coherent'
  <1> USE DEF RegistryInv
  <1>0. /\ UNCHANGED <<stored, issued, boot, snapshot, tick, subject, heard,
                       batch, entry>>
        /\ Quote' = Quote
    BY DEF storeVars, outsideRequests, bootVars, chainVars, Quote
  <1>1. KeysUnique' /\ IssuedKnown'
    BY <1>0 DEF Coherent, KeysUnique, KeyFree, IssuedKnown
  <1> SUFFICES ASSUME ~clash
               PROVE  /\ \A s \in Requests : RequestRight(s)'
                      /\ ChainRight'
                      /\ BootRight'
                      /\ \A k \in ProviderSymbols : InFlight(k)' \/ KeyRight(k)'
    BY <1>1 DEF Coherent
  <1>2. ASSUME NEW s \in Requests
        PROVE  RequestRight(s)'
    <2>1. CASE s = r
      BY <2>1 DEF Idle, RequestRight, TypeOK
    <2>2. CASE s # r
      <3>1. pc'[s] = pc[s] /\ prev'[s] = prev[s] /\ held'[s] = held[s]
        BY <2>2 DEF Idle, TypeOK
      <3> QED BY <1>0, <3>1 DEF Coherent, RequestRight, StoredAs
    <2> QED BY <2>1, <2>2
  <1>3. ChainRight' /\ BootRight'
    BY <1>0 DEF Coherent, ChainRight, BootRight, StoredAs
  <1>4. ASSUME NEW k \in ProviderSymbols
        PROVE  InFlight(k)' \/ KeyRight(k)'
    <2>1. CASE pc[r] \in Answered /\ k \in {prev[r], held[r].ps}
      BY <2>1
    <2>2. CASE ~(pc[r] \in Answered /\ k \in {prev[r], held[r].ps})
      <3>1. desired'[k] = desired[k]
        BY <2>2
      <3>2. CASE KeyRight(k)
        BY <1>0, <3>1, <3>2 DEF KeyRight, StoredAs, Left, Loaded
      <3>3. CASE InFlight(k)
        <4>1. CASE tick = "written" /\ Quote.s = k
          BY <1>0, <4>1 DEF InFlight
        <4>2. CASE \E s \in Requests : pc[s] \in Answered /\ k \in {prev[s], held[s].ps}
          BY <2>2, <4>2 DEF InFlight, Idle, TypeOK
        <4> QED BY <3>3, <4>1, <4>2 DEF InFlight
      <3> QED BY <3>2, <3>3 DEF Coherent
    <2> QED BY <2>1, <2>2
  <1> QED BY <1>2, <1>3, <1>4

LEMMA RequestStepCoherent ==
  ASSUME RegistryInv, Coherent, NEW r \in Requests, RequestStep(r)
  PROVE  Coherent'
  <1> USE DEF RegistryInv
  <1>0. pc[r] # "idle" =>
          /\ held[r] \in Entities /\ held[r].id \in Ids
          /\ held[r].ps \in ProviderSymbols /\ prev[r] \in ProviderSymbols
    BY DEF RequestsHold, Entities
  \* A stored document and its entity say the same, and its key is unique.
  <1>a. ASSUME NEW j \in Ids, stored[j] # None, Coherent
        PROVE  /\ stored[j] \in Docs
               /\ stored[j] = [ps |-> stored[j].ps, price |-> stored[j].price]
               /\ \A l \in Ids \ {j} : stored[l] # None => stored[l].ps # stored[j].ps
    BY <1>a DEF TypeOK, Docs, Coherent, KeysUnique, KeyFree
  <1>1. CASE CreateInsert(r)
    <2> PICK i \in Ids \ issued, doc \in Docs : CreateInsert(r)!2!(i, doc)
      BY <1>1 DEF CreateInsert
    <2>1. stored[i] = None /\ doc # None /\ KeyOf(stored[i]) = None /\ KeyOf(doc) = doc.ps
      BY DEF Coherent, IssuedKnown, KeyOf
    <2>2. /\ pc[r] = "idle" /\ pc'[r] = "register"
          /\ prev'[r] = doc.ps /\ held'[r] = Entity(i, doc)
          /\ stored'[i] = doc
      BY <1>1 DEF CreateInsert, TypeOK
    <2>3. \A s \in Requests \ {r} :
            pc'[s] = pc[s] /\ prev'[s] = prev[s] /\ held'[s] = held[s]
      BY DEF TypeOK
    <2>4. RequestRight(r)'
      BY <2>2 DEF RequestRight, StoredAs, Entity, Docs
    <2>5. /\ stored' = [stored EXCEPT ![i] = doc]
          /\ issued' = issued \cup (IF doc = None THEN {} ELSE {i})
          /\ KeyFree(i, doc.ps)
          /\ pc[r] \notin Answered /\ pc'[r] \in Answered
          /\ clash' = (clash \/ Endangers(r, i, KeyOf(stored[i]), KeyOf(doc)))
          /\ UNCHANGED <<desired, outsideRequests>>
      BY <1>1, <2>1, <2>2 DEF CreateInsert, Answered
    <2>6. \A k \in ProviderSymbols :
            k \in {KeyOf(stored[i]), KeyOf(doc)} => k \in {prev'[r], held'[r].ps}
      BY <2>1, <2>2
    <2>7. i \in Ids /\ doc \in Docs \cup {None}
      OBVIOUS
    <2> QED
      BY <2>3, <2>4, <2>5, <2>6, <2>7, RequestWrites
  <1>2. CASE CreateRegister(r)
    <2>1. ASSUME ~clash, NEW k \in ProviderSymbols
          PROVE  IF pc[r] \in Answered /\ k \in {prev[r], held[r].ps}
                   THEN KeyRight(k)' ELSE desired'[k] = desired[k]
      <3>1. /\ pc[r] = "register" /\ prev[r] = held[r].ps /\ StoredAs(held[r])
        BY <1>2, <2>1 DEF CreateRegister, Coherent, RequestRight
      <3>2. CASE k # held[r].ps
        BY <1>0, <1>2, <3>1, <3>2 DEF CreateRegister, registerSymbol, TypeOK
      <3>3. CASE k = held[r].ps
        <4>1. desired'[k] = held[r] /\ stored' = stored
          BY <1>2, <1>0, <3>1, <3>3 DEF CreateRegister, registerSymbol, TypeOK, storeVars
        <4>2. stored[held[r].id] # None /\ stored[held[r].id].ps = k
          BY <1>0, <3>1, <3>3 DEF StoredAs, Docs, Entities
        <4>3. \A j \in Ids : stored[j] # None /\ stored[j].ps = k => j = held[r].id
          BY <1>a, <1>0, <3>1, <4>2
        <4>4. Entity(held[r].id, stored[held[r].id]) = held[r]
          BY <1>0, <3>1 DEF StoredAs, Entity, Entities
        <4>5. KeyRight(k)'
          BY <3>1, <4>1, <4>3, <4>4 DEF KeyRight, StoredAs, Entity
        <4> QED BY <3>1, <3>3, <4>5 DEF Answered
      <3> QED BY <3>2, <3>3
    <2> QED BY <1>2, <2>1, RequestEnds DEF CreateRegister
  <1>3. CASE UpdateSelect(r)
    <2> PICK i \in Ids : UpdateSelect(r)!2!(i)
      BY <1>3 DEF UpdateSelect
    <2>1. /\ UNCHANGED <<stored, issued, desired, boot, snapshot, tick, subject,
                         heard, batch, entry, clash>>
          /\ Quote' = Quote
      BY <1>3 DEF UpdateSelect, storeVars, outsideRequests, bootVars, chainVars, Quote
    <2>2. KeysUnique' /\ IssuedKnown'
      BY <2>1 DEF Coherent, KeysUnique, KeyFree, IssuedKnown
    <2>3. ASSUME ~clash, NEW s \in Requests PROVE RequestRight(s)'
      <3>1. CASE s = r
        BY <3>1, <2>1 DEF RequestRight, Entity, TypeOK
      <3>2. CASE s # r
        <4>1. pc'[s] = pc[s] /\ prev'[s] = prev[s] /\ held'[s] = held[s]
          BY <3>2 DEF TypeOK
        <4> QED BY <2>1, <2>3, <4>1 DEF Coherent, RequestRight, StoredAs
      <3> QED BY <3>1, <3>2
    <2>4. ~clash => ChainRight' /\ BootRight'
      BY <2>1 DEF Coherent, ChainRight, BootRight, StoredAs
    <2>5. ASSUME ~clash, NEW k \in ProviderSymbols PROVE InFlight(k)' \/ KeyRight(k)'
      <3>1. CASE KeyRight(k)
        BY <2>1, <3>1 DEF KeyRight, StoredAs, Left, Loaded
      <3>2. CASE InFlight(k)
        <4>1. CASE tick = "written" /\ Quote.s = k
          BY <2>1, <4>1 DEF InFlight
        <4>2. CASE \E s \in Requests : pc[s] \in Answered /\ k \in {prev[s], held[s].ps}
          BY <1>3, <4>2 DEF InFlight, UpdateSelect, TypeOK, Answered
        <4> QED BY <3>2, <4>1, <4>2 DEF InFlight
      <3> QED BY <2>5, <3>1, <3>2 DEF Coherent
    <2> QED BY <2>1, <2>2, <2>3, <2>4, <2>5 DEF Coherent
  <1>4. CASE UpdateWrite(r)
    <2> DEFINE i == held[r].id
    <2>0. pc[r] = "selected" /\ i \in Ids /\ stored[i] # None /\ stored[i] \in Docs
      BY <1>4, <1>0, <1>a DEF UpdateWrite
    <2> PICK p \in Patches :
          LET doc == Patched(stored[i], p) IN
          /\ KeyFree(i, doc.ps)
          /\ stored' = [stored EXCEPT ![i] = doc]
          /\ pc' = [pc EXCEPT ![r] = "sync"]
          /\ held' = [held EXCEPT ![r] = Entity(i, doc)]
          /\ clash' = (clash \/ Endangers(r, i, stored[i].ps, doc.ps))
      BY <1>4 DEF UpdateWrite
    <2> DEFINE doc == Patched(stored[i], p)
    <2>1. doc \in Docs
      BY <2>0 DEF Patched, Patches, Docs
    <2>2. /\ KeyFree(i, doc.ps)
          /\ stored' = [stored EXCEPT ![i] = doc]
          /\ pc' = [pc EXCEPT ![r] = "sync"]
          /\ held' = [held EXCEPT ![r] = Entity(i, doc)]
          /\ prev' = prev
          /\ clash' = (clash \/ Endangers(r, i, KeyOf(stored[i]), KeyOf(doc)))
          /\ UNCHANGED <<desired, issued, outsideRequests>>
      BY <1>4, <2>0, <2>1 DEF UpdateWrite, KeyOf
    <2> HIDE DEF i, doc
    <2>3. \A s \in Requests \ {r} :
            pc'[s] = pc[s] /\ prev'[s] = prev[s] /\ held'[s] = held[s]
      BY <2>2 DEF TypeOK
    <2>4. pc'[r] = "sync" /\ prev'[r] = prev[r] /\ held'[r] = Entity(i, doc) /\ stored'[i] = doc
      BY <2>0, <2>2 DEF TypeOK
    <2>5. ~clash => stored[i].ps = prev[r]
      BY <2>0 DEF Coherent, RequestRight, i
    <2>6. ASSUME ~clash' PROVE RequestRight(r)'
      <3>1. stored[i].ps = prev[r]
        BY <2>2, <2>5, <2>6
      <3>2. StoredAs(held[r])'
        BY <2>1, <2>4 DEF StoredAs, Entity, Docs
      <3>3. ASSUME prev[r] # doc.ps, NEW j \in Ids, stored'[j] # None
            PROVE  stored'[j].ps # prev[r]
        <4>1. CASE j = i
          BY <2>4, <3>3, <4>1
        <4>2. CASE j # i
          BY <1>a, <2>0, <2>2, <3>1, <3>3, <4>2 DEF TypeOK
        <4> QED BY <4>1, <4>2
      <3> QED BY <2>4, <3>2, <3>3 DEF RequestRight, Entity
    <2>7. IssuedKnown /\ issued' = issued \cup {i}
      BY <2>0, <2>2 DEF Coherent, IssuedKnown
    <2>8. doc # None
      BY <2>1
    <2>9. /\ KeyOf(stored[i]) = stored[i].ps
          /\ KeyOf(doc) = doc.ps
          /\ held'[r].ps = doc.ps
      BY <2>0, <2>4, <2>8 DEF KeyOf, Entity
    <2>10. ~clash' => \A k \in ProviderSymbols :
            k \in {KeyOf(stored[i]), KeyOf(doc)} => k \in {prev'[r], held'[r].ps}
      BY <2>2, <2>4, <2>5, <2>9
    <2>11. /\ issued' = issued \cup (IF doc = None THEN {} ELSE {i})
           /\ pc[r] \notin Answered /\ pc'[r] \in Answered
           /\ doc \in Docs \cup {None}
      BY <2>0, <2>1, <2>4, <2>7, <2>8 DEF Answered
    <2> QED
      BY <2>0, <2>2, <2>3, <2>6, <2>10, <2>11, RequestWrites
  <1>5. CASE UpdateFail(r)
    BY <1>5, RequestEnds DEF UpdateFail, Answered
  <1>6. CASE UpdateSync(r)
    <2>1. ASSUME ~clash, NEW k \in ProviderSymbols
          PROVE  IF pc[r] \in Answered /\ k \in {prev[r], held[r].ps}
                   THEN KeyRight(k)' ELSE desired'[k] = desired[k]
      <3>1. /\ pc[r] = "sync" /\ StoredAs(held[r])
            /\ prev[r] # held[r].ps =>
                 \A j \in Ids : stored[j] # None => stored[j].ps # prev[r]
        BY <1>6, <2>1 DEF UpdateSync, Coherent, RequestRight
      <3>0. stored' = stored
        BY <1>6 DEF UpdateSync, storeVars
      <3>2. CASE k \notin {prev[r], held[r].ps}
        BY <1>6, <3>1, <3>2 DEF UpdateSync, syncSymbol, TypeOK
      <3>3. CASE k = held[r].ps
        <4>1. desired'[k] = held[r]
          BY <1>6, <1>0, <3>1, <3>3 DEF UpdateSync, syncSymbol, TypeOK
        <4>2. stored[held[r].id] # None /\ stored[held[r].id].ps = k
          BY <1>0, <3>1, <3>3 DEF StoredAs, Docs, Entities
        <4>3. \A j \in Ids : stored[j] # None /\ stored[j].ps = k => j = held[r].id
          BY <1>a, <1>0, <3>1, <4>2
        <4>4. Entity(held[r].id, stored[held[r].id]) = held[r]
          BY <1>0, <3>1 DEF StoredAs, Entity, Entities
        <4>5. KeyRight(k)'
          BY <3>0, <3>1, <4>1, <4>3, <4>4 DEF KeyRight, StoredAs, Entity
        <4> QED BY <3>1, <3>3, <4>5 DEF Answered
      <3>4. CASE k = prev[r] /\ k # held[r].ps
        <4>1. desired'[k] = None
          BY <1>6, <1>0, <3>1, <3>4 DEF UpdateSync, syncSymbol, TypeOK
        <4>2. KeyRight(k)'
          BY <3>0, <3>1, <3>4, <4>1 DEF KeyRight
        <4> QED BY <3>1, <3>4, <4>2 DEF Answered
      <3> QED BY <3>2, <3>3, <3>4
    <2> QED BY <1>6, <2>1, RequestEnds DEF UpdateSync
  <1>7. CASE DeleteRemove(r)
    <2> PICK i \in Ids : DeleteRemove(r)!2!(i)
      BY <1>7 DEF DeleteRemove
    <2>1. /\ stored[i] \in Docs /\ KeyOf(stored[i]) = stored[i].ps /\ KeyOf(None) = None
      BY <1>a DEF KeyOf
    <2>2. /\ pc[r] = "idle" /\ pc'[r] = "unregister"
          /\ prev'[r] = stored[i].ps /\ held'[r] = Entity(i, stored[i])
      BY <1>7 DEF DeleteRemove, TypeOK
    <2>3. \A s \in Requests \ {r} :
            pc'[s] = pc[s] /\ prev'[s] = prev[s] /\ held'[s] = held[s]
      BY DEF TypeOK
    <2>4. \A j \in Ids : stored'[j] # None => stored'[j].ps # prev'[r]
      BY <1>a, <2>2 DEF TypeOK
    <2>5. RequestRight(r)'
      BY <2>2, <2>4 DEF RequestRight, Entity
    <2>6. /\ stored' = [stored EXCEPT ![i] = None]
          /\ issued' = issued \cup (IF None = None THEN {} ELSE {i})
          /\ pc[r] \notin Answered /\ pc'[r] \in Answered
          /\ clash' = (clash \/ Endangers(r, i, KeyOf(stored[i]), KeyOf(None)))
          /\ UNCHANGED <<desired, outsideRequests>>
      BY <1>7, <2>1, <2>2 DEF DeleteRemove, Answered
    <2>7. \A k \in ProviderSymbols :
            k \in {KeyOf(stored[i]), KeyOf(None)} => k \in {prev'[r], held'[r].ps}
      BY <2>1, <2>2
    <2>8. None \in Docs \cup {None}
      OBVIOUS
    <2> QED
      BY <2>3, <2>5, <2>6, <2>7, <2>8, RequestWrites
  <1>8. CASE DeleteUnregister(r)
    <2>1. ASSUME ~clash, NEW k \in ProviderSymbols
          PROVE  IF pc[r] \in Answered /\ k \in {prev[r], held[r].ps}
                   THEN KeyRight(k)' ELSE desired'[k] = desired[k]
      <3>1. /\ pc[r] = "unregister" /\ prev[r] = held[r].ps
            /\ \A j \in Ids : stored[j] # None => stored[j].ps # prev[r]
        BY <1>8, <2>1 DEF DeleteUnregister, Coherent, RequestRight
      <3>2. CASE k # held[r].ps
        BY <1>8, <3>1, <3>2 DEF DeleteUnregister, unregisterSymbol, TypeOK
      <3>3. CASE k = held[r].ps
        <4>1. desired'[k] = None /\ stored' = stored
          BY <1>8, <1>0, <3>1, <3>3 DEF DeleteUnregister, unregisterSymbol, TypeOK, storeVars
        <4>2. KeyRight(k)'
          BY <3>1, <3>3, <4>1 DEF KeyRight
        <4> QED BY <3>1, <3>3, <4>2 DEF Answered
      <3> QED BY <3>2, <3>3
    <2> QED BY <1>8, <2>1, RequestEnds DEF DeleteUnregister
  <1>9. CASE AnswerLost(r)
    BY <1>9 DEF AnswerLost, Coherent, KeysUnique, KeyFree, IssuedKnown, storeVars
  <1> QED
    BY <1>1, <1>2, <1>3, <1>4, <1>5, <1>6, <1>7, <1>8, <1>9 DEF RequestStep

LEMMA BootStepCoherent ==
  ASSUME RegistryInv, Coherent, BootStep \/ Shutdown \/ Crash
  PROVE  Coherent'
  <1> USE DEF RegistryInv
  <1>1. ASSUME UNCHANGED outsideBoot
        PROVE  /\ UNCHANGED <<stored, issued, tick, subject, heard, batch, entry,
                              pc, prev, held, clash>>
               /\ KeysUnique' /\ IssuedKnown'
               /\ ~clash => (\A r \in Requests : RequestRight(r)') /\ ChainRight'
               /\ \A k \in ProviderSymbols : InFlight(k)' <=> InFlight(k)
    <2>1. UNCHANGED <<stored, issued, tick, subject, heard, batch, entry,
                      pc, prev, held, clash>>
      BY <1>1 DEF outsideBoot, storeVars, chainVars, requestVars
    <2>2. KeysUnique' /\ IssuedKnown'
      BY <2>1 DEF Coherent, KeysUnique, KeyFree, IssuedKnown
    <2>3. ~clash => (\A r \in Requests : RequestRight(r)') /\ ChainRight'
      BY <2>1 DEF Coherent, RequestRight, ChainRight, StoredAs
    <2>4. \A k \in ProviderSymbols : InFlight(k)' <=> InFlight(k)
      BY <2>1 DEF InFlight, Quote
    <2> QED BY <2>1, <2>2, <2>3, <2>4
  <1>2. CASE BootSelect
    <2>1. ~clash => BootRight'
      BY <1>1, <1>2 DEF BootSelect, BootRight
    <2>2. ASSUME ~clash, NEW k \in ProviderSymbols, KeyRight(k)
          PROVE  KeyRight(k)'
      <3>1. UNCHANGED <<stored, desired>>
        BY <1>1, <1>2 DEF BootSelect
      <3>2. \A i \in Ids : stored[i] # None => ~Left(i)'
        BY <1>2 DEF BootSelect, Left, Loaded
      <3> QED BY <2>2, <3>1, <3>2 DEF KeyRight, StoredAs
    <2> QED BY <1>1, <1>2, <2>1, <2>2 DEF BootSelect, Coherent
  <1>3. CASE BootLoad
    <2>1. ~clash => BootRight'
      BY <1>3 DEF BootLoad, BootRight
    <2>2. ASSUME ~clash, NEW k \in ProviderSymbols, InFlight(k) \/ KeyRight(k)
          PROVE  InFlight(k)' \/ KeyRight(k)'
      <3>1. stored' = stored /\ desired'[k] = Loading(snapshot)[k]
        BY <1>1, <1>3 DEF BootLoad
      <3>2. \A i \in Ids : snapshot[i] # None => stored[i] = snapshot[i]
        BY <1>3, <2>2 DEF BootLoad, Coherent, BootRight
      <3>3. CASE \E i \in Ids : snapshot[i] # None /\ snapshot[i].ps = k
        <4> DEFINE i == CHOOSE j \in Ids : snapshot[j] # None /\ snapshot[j].ps = k
        <4>1. i \in Ids /\ snapshot[i] # None /\ snapshot[i].ps = k
          BY <3>3
        <4>2. desired'[k] = Entity(i, snapshot[i])
          BY <3>1, <3>3 DEF Loading
        <4> HIDE DEF i
        <4>3. stored[i] = snapshot[i] /\ stored[i] \in Docs
          BY <3>2, <4>1 DEF TypeOK
        <4>4. \A j \in Ids : stored[j] # None /\ stored[j].ps = k => j = i
          BY <4>1, <4>3 DEF Coherent, KeysUnique, KeyFree
        <4>5. StoredAs(desired[k])'
          BY <3>1, <4>2, <4>3 DEF StoredAs, Entity, Docs
        <4>6. \A j \in Ids : stored'[j] # None /\ stored'[j].ps = k =>
                desired'[k] = Entity(j, stored'[j])
          BY <3>1, <4>2, <4>3, <4>4
        <4> QED BY <4>5, <4>6 DEF KeyRight, Entity
      <3>4. CASE ~ \E i \in Ids : snapshot[i] # None /\ snapshot[i].ps = k
        <4>1. desired'[k] = desired[k]
          BY <3>1, <3>4 DEF Loading
        <4>2. ASSUME KeyRight(k), NEW j \in Ids, stored[j] # None, stored[j].ps = k
              PROVE  desired[k] = Entity(j, stored[j])
          <5>1. snapshot[j] = None
            BY <3>2, <3>4, <4>2
          <5> QED BY <1>3, <4>2, <5>1 DEF BootLoad, KeyRight, Left
        <4>3. KeyRight(k) => KeyRight(k)'
          BY <3>1, <4>1, <4>2 DEF KeyRight, StoredAs, Entity
        <4> QED BY <1>1, <1>3, <2>2, <4>3 DEF BootLoad
      <3> QED BY <3>3, <3>4
    <2> QED BY <1>1, <1>3, <2>1, <2>2 DEF BootLoad, Coherent
  <1>4. CASE BootConnect \/ BootFail \/ Shutdown
    <2>1. UNCHANGED <<desired, snapshot>> /\ UNCHANGED outsideBoot
      BY <1>4 DEF BootConnect, BootFail, Shutdown
    <2>2. /\ boot' = "selected" => boot = "selected"
          /\ \A i \in Ids : Left(i)' => Left(i)
      BY <1>4 DEF BootConnect, BootFail, Shutdown, Left, Loaded
    <2>3. ~clash => BootRight'
      BY <1>1, <2>1, <2>2 DEF Coherent, BootRight
    <2>4. ASSUME ~clash, NEW k \in ProviderSymbols, KeyRight(k)
          PROVE  KeyRight(k)'
      BY <1>1, <2>1, <2>2, <2>4 DEF KeyRight, StoredAs
    <2> QED BY <1>1, <2>1, <2>3, <2>4 DEF Coherent
  <1>5. CASE Crash
    <2>1. KeysUnique' /\ IssuedKnown'
      BY <1>5 DEF Crash, storeVars, Coherent, KeysUnique, KeyFree, IssuedKnown
    <2>2. \A k \in ProviderSymbols : KeyRight(k)'
      BY <1>5 DEF Crash, KeyRight, Left, Loaded
    <2> QED
      BY <1>5, <2>1, <2>2 DEF Crash, Coherent, RequestRight, ChainRight, BootRight
  <1> QED BY <1>2, <1>3, <1>4, <1>5 DEF BootStep

LEMMA ChainStepCoherent ==
  ASSUME RegistryInv, Coherent, ChainStep \/ StreamMessage
  PROVE  Coherent'
  <1> USE DEF RegistryInv
  <1>0. /\ UNCHANGED <<boot, snapshot, pc, prev, held>>
        /\ issued' = issued
    BY DEF ChainStep, StreamMessage, StartBatch, SkipEntry, SendPrice, WritePrice,
       WriteRefused, WriteLost, Broadcast, outsideChain, bootVars, requestVars,
       storeVars
  \* A step that leaves the store and the registry alone and is not under way
  \* to the registry.
  <1>1. ASSUME UNCHANGED <<stored, desired, clash>>,
               tick # "written",
               tick' # "written"
        PROVE  Coherent'
    <2>1. KeysUnique' /\ IssuedKnown'
      BY <1>0, <1>1 DEF Coherent, KeysUnique, KeyFree, IssuedKnown
    <2>2. ASSUME ~clash
          PROVE  (\A r \in Requests : RequestRight(r)') /\ ChainRight' /\ BootRight'
      BY <1>0, <1>1, <2>2 DEF Coherent, RequestRight, ChainRight, BootRight, StoredAs
    <2>3. ASSUME NEW k \in ProviderSymbols, InFlight(k) \/ KeyRight(k)
          PROVE  InFlight(k)' \/ KeyRight(k)'
      <3>1. InFlight(k) => InFlight(k)'
        BY <1>0, <1>1 DEF InFlight
      <3>2. KeyRight(k) => KeyRight(k)'
        BY <1>0, <1>1 DEF KeyRight, StoredAs, Left, Loaded
      <3> QED BY <2>3, <3>1, <3>2
    <2> QED BY <1>1, <2>1, <2>2, <2>3 DEF Coherent
  <1>2. CASE StartBatch \/ SkipEntry \/ SendPrice \/ WriteRefused
    BY <1>1, <1>2 DEF StartBatch, SkipEntry, SendPrice, WriteRefused, Abandon,
       NextEntry, storeVars
  <1>3. CASE WriteLost
    BY <1>0, <1>3 DEF WriteLost, Coherent, KeysUnique, KeyFree, IssuedKnown,
       storeVars
  <1>4. CASE StreamMessage
    <2>1. UNCHANGED <<stored, desired, clash, tick, subject, batch, entry>>
      BY <1>4 DEF StreamMessage, storeVars, chainVars
    <2>2. tick = "written" => Quote' = Quote
      <3>1. PICK b \in Batches : heard' = Append(heard, b)
        BY <1>4 DEF StreamMessage
      <3> QED BY <2>1, <3>1 DEF TypeOK, ChainStands, Quote
    <2>3. KeysUnique' /\ IssuedKnown'
      BY <1>0, <2>1 DEF Coherent, KeysUnique, KeyFree, IssuedKnown
    <2>4. ASSUME ~clash
          PROVE  (\A r \in Requests : RequestRight(r)') /\ ChainRight' /\ BootRight'
      BY <1>0, <2>1, <2>4 DEF Coherent, RequestRight, ChainRight, BootRight, StoredAs
    <2>5. ASSUME NEW k \in ProviderSymbols, InFlight(k) \/ KeyRight(k)
          PROVE  InFlight(k)' \/ KeyRight(k)'
      <3>1. InFlight(k) => InFlight(k)'
        BY <1>0, <2>1, <2>2 DEF InFlight
      <3>2. KeyRight(k) => KeyRight(k)'
        BY <1>0, <2>1 DEF KeyRight, StoredAs, Left, Loaded
      <3> QED BY <2>5, <3>1, <3>2
    <2> QED BY <2>1, <2>3, <2>4, <2>5 DEF Coherent
  <1>5. CASE WritePrice
    <2> DEFINE i == subject.id
               d == PriceWrite(subject, Quote.c)
    <2>1. /\ tick = "sent" /\ tick' = "written" /\ desired' = desired
          /\ i \in Ids /\ d \in Docs \cup {None} /\ d # None /\ d.ps = Quote.s
          /\ stored[i] # None /\ KeyFree(i, d.ps)
          /\ stored' = [stored EXCEPT ![i] = d]
          /\ subject' = Entity(i, d)
          /\ clash' = (clash \/ Endangers(None, i, stored[i].ps, d.ps))
          /\ Quote' = Quote
      BY <1>5 DEF WritePrice, ChainHolds, Entities, Docs, PriceWrite,
         outsideChain, Quote
    <2> HIDE DEF i, d
    <2>2. KeyOf(stored[i]) = stored[i].ps /\ KeyOf(d) = d.ps
      BY <2>1 DEF KeyOf
    <2>3. KeysUnique' /\ IssuedKnown'
      <3>1. KeysUnique'
        BY <1>0, <2>1, WriteKeepsRest DEF Coherent
      <3>2. IssuedKnown'
        BY <1>0, <2>1 DEF Coherent, IssuedKnown, TypeOK
      <3> QED BY <3>1, <3>2
    <2> SUFFICES ASSUME ~clash'
                 PROVE  /\ \A s \in Requests : RequestRight(s)'
                        /\ ChainRight'
                        /\ BootRight'
                        /\ \A k \in ProviderSymbols : InFlight(k)' \/ KeyRight(k)'
      BY <2>3 DEF Coherent
    <2>4. /\ ~clash
          /\ ~Endangers(None, i, KeyOf(stored[i]), KeyOf(d))
          /\ stored[i].ps = d.ps
      BY <2>1, <2>2 DEF Endangers
    <2>5. ASSUME NEW s \in Requests PROVE RequestRight(s)'
      <3>1. s \in Requests \ {None}
        OBVIOUS
      <3> QED BY <1>0, <2>1, <2>4, <3>1, WriteKeepsRequest DEF Coherent
    <2>6. BootRight'
      BY <1>0, <2>1, <2>4, WriteKeepsRest DEF Coherent
    <2>7. ChainRight'
      BY <2>1 DEF ChainRight, StoredAs, Entity, TypeOK, Docs
    <2>8. ASSUME NEW k \in ProviderSymbols PROVE InFlight(k)' \/ KeyRight(k)'
      <3>1. CASE k = Quote.s
        BY <2>1, <3>1 DEF InFlight
      <3>2. CASE k # Quote.s /\ KeyRight(k)
        BY <1>0, <2>1, <2>2, <2>4, <3>2, WriteKeepsOtherKeys
      <3>3. CASE k # Quote.s /\ InFlight(k)
        BY <1>0, <2>1, <3>3 DEF InFlight
      <3> QED BY <2>4, <3>1, <3>2, <3>3 DEF Coherent
    <2> QED BY <2>5, <2>6, <2>7, <2>8
  <1>6. CASE Broadcast
    <2>1. /\ tick = "written" /\ tick' # "written"
          /\ stored' = stored /\ clash' = clash
          /\ desired' = [desired EXCEPT ![Quote.s] = subject]
          /\ subject \in Entities /\ subject.ps = Quote.s
          /\ Quote.s \in ProviderSymbols
      BY <1>6 DEF Broadcast, NextEntry, KeepUpdated, storeVars, ChainHolds, Entities
    <2>2. KeysUnique' /\ IssuedKnown'
      BY <1>0, <2>1 DEF Coherent, KeysUnique, KeyFree, IssuedKnown
    <2>3. ASSUME ~clash
          PROVE  (\A r \in Requests : RequestRight(r)') /\ ChainRight' /\ BootRight'
      BY <1>0, <2>1, <2>3 DEF Coherent, RequestRight, ChainRight, BootRight, StoredAs
    <2>4. ASSUME ~clash, NEW k \in ProviderSymbols
          PROVE  InFlight(k)' \/ KeyRight(k)'
      <3>1. CASE k = Quote.s
        <4>1. StoredAs(subject) /\ desired'[k] = subject
          BY <2>1, <2>4, <3>1 DEF Coherent, ChainRight, TypeOK
        <4>2. /\ subject.id \in Ids /\ stored[subject.id] # None
              /\ stored[subject.id].ps = k
              /\ Entity(subject.id, stored[subject.id]) = subject
          BY <2>1, <3>1, <4>1 DEF StoredAs, Entities, Docs, Entity
        <4>3. \A j \in Ids : stored[j] # None /\ stored[j].ps = k => j = subject.id
          BY <4>2 DEF Coherent, KeysUnique, KeyFree
        <4>4. KeyRight(k)'
          BY <2>1, <4>1, <4>2, <4>3 DEF KeyRight, StoredAs, Entity
        <4> QED BY <4>4
      <3>2. CASE k # Quote.s /\ KeyRight(k)
        BY <1>0, <2>1, <3>2 DEF KeyRight, StoredAs, Left, Loaded, TypeOK
      <3>3. CASE k # Quote.s /\ InFlight(k)
        BY <1>0, <3>3 DEF InFlight
      <3> QED BY <2>4, <3>1, <3>2, <3>3 DEF Coherent
    <2> QED BY <2>1, <2>2, <2>3, <2>4 DEF Coherent
  <1> QED BY <1>2, <1>3, <1>4, <1>5, <1>6 DEF ChainStep

LEMMA CoherentInit == Init => Coherent
  BY DEF Init, Coherent, KeysUnique, IssuedKnown, RequestRight, ChainRight,
     BootRight, KeyRight, Left, Loaded

LEMMA CoherentStep == RegistryInv /\ Coherent /\ [Next]_vars => Coherent'
  <1> SUFFICES ASSUME RegistryInv, Coherent, [Next]_vars PROVE Coherent'
    OBVIOUS
  <1>1. CASE UNCHANGED vars
    BY <1>1 DEF vars, bootVars, chainVars, requestVars, Coherent, KeysUnique,
       KeyFree, IssuedKnown, RequestRight, ChainRight, BootRight, KeyRight,
       InFlight, Quote, StoredAs, Left, Loaded
  <1> QED
    BY <1>1, RequestStepCoherent, BootStepCoherent, ChainStepCoherent DEF Next

THEOREM CoherentInvariant == Spec => []Coherent
  BY CoherentInit, CoherentStep, RegistryInvariant, PTL DEF Spec

(* While no overlap has endangered it, the loaded registry differs from the  *)
(* collection only on keys an answer under way is about to set, whatever     *)
(* number of requests, symbols and batches there are, and again after every  *)
(* restart.                                                                  *)
THEOREM RegistryCoherent == Spec => []DivergenceIsInFlight
  <1>1. RegistryInv /\ Coherent => DivergenceIsInFlight
    <2> SUFFICES ASSUME RegistryInv, Coherent, Loaded, ~clash,
                        NEW k \in ProviderSymbols, KeyRight(k),
                        NEW e \in Entities, e.ps = k
                 PROVE  desired[k] = e <=> stored[e.id] = [ps |-> k, price |-> e.price]
      BY DEF DivergenceIsInFlight, Agree, Coherent
    <2>1. ASSUME desired[k] = e
          PROVE  stored[e.id] = [ps |-> k, price |-> e.price]
      BY <2>1 DEF KeyRight, StoredAs
    <2>2. ASSUME stored[e.id] = [ps |-> k, price |-> e.price]
          PROVE  desired[k] = e
      <3>1. e.id \in Ids /\ stored[e.id] \in Docs /\ stored[e.id].ps = k
        BY <2>2 DEF Entities, Docs
      <3>2. desired[k] = Entity(e.id, stored[e.id])
        BY <3>1 DEF KeyRight, Left
      <3>3. Entity(e.id, stored[e.id]) = e
        BY <2>2 DEF Entity, Entities
      <3> QED BY <3>2, <3>3
    <2> QED BY <2>1, <2>2
  <1> QED BY <1>1, RegistryInvariant, CoherentInvariant, PTL

(* Every price broadcast is the stored price of the symbol it names, under   *)
(* the same proviso.                                                         *)
THEOREM BroadcastsAreStored == Spec => BroadcastMatchesStore
  <1>1. RegistryInv /\ Coherent /\ [Next]_vars =>
          [emit' # emit /\ emit' # None /\ ~clash =>
             \E i \in Ids : stored[i] = [ps |-> emit'.ps, price |-> emit'.price]]_vars
    <2> SUFFICES ASSUME RegistryInv, Coherent, Next, emit' # emit, emit' # None, ~clash
                 PROVE  \E i \in Ids :
                          stored[i] = [ps |-> emit'.ps, price |-> emit'.price]
      OBVIOUS
    <2>1. Broadcast
      BY DEF Next, RequestStep, CreateInsert, CreateRegister, UpdateSelect,
         UpdateWrite, UpdateFail, UpdateSync, DeleteRemove, DeleteUnregister,
         AnswerLost, BootStep, BootSelect, BootLoad, BootConnect, BootFail,
         Shutdown, Crash, StreamMessage, ChainStep, StartBatch, SkipEntry,
         SendPrice, WritePrice, WriteRefused, WriteLost, Abandon,
         outsideRequests, outsideBoot
    <2>2. /\ subject \in Entities /\ subject.ps = Quote.s
          /\ subject.price = Quote.c /\ StoredAs(subject)
      BY <2>1 DEF Broadcast, RegistryInv, ChainHolds, Coherent, ChainRight
    <2>3. emit'.ps = Quote.s /\ emit'.price = Quote.c
      BY <2>1 DEF Broadcast, Announcement
    <2> QED BY <2>2, <2>3 DEF StoredAs, Entities
  <1> QED
    BY <1>1, RegistryInvariant, CoherentInvariant, PTL DEF Spec, BroadcastMatchesStore
-----------------------------------------------------------------------------
(* The chain implements PriceFeed.  Its position, as PriceFeed counts it, is *)
(* the number of batches it is done with and the entries of the next one.    *)
Done == IF tick = "idle" THEN batch ELSE batch - 1
Handled == IF tick = "idle" THEN 0 ELSE entry - 1

(* Steps outside the chain leave the feed where it is.                       *)
LEMMA FeedKept ==
  ASSUME UNCHANGED <<heard, chainVars, emit>>
  PROVE  UNCHANGED Feed!feedVars
  BY DEF chainVars, Feed!feedVars

(* The loop that goes on to the next entry settles the one it stands at.     *)
LEMMA NextEntrySettles ==
  ASSUME RegistryInv, tick # "idle", NextEntry, UNCHANGED <<heard, batch>>
  PROVE  /\ Feed!SettleOne
         /\ Done < Len(heard) /\ Handled < Len(heard[Done + 1])
         /\ Done + 1 = batch /\ Handled + 1 = entry
  <1>1. /\ batch \in 1 .. Len(heard) /\ entry \in 1 .. Len(heard[batch])
        /\ Len(heard) \in Nat /\ Len(heard[batch]) \in Nat
    BY DEF RegistryInv, ChainStands, TypeOK
  <1>2. /\ Done = batch - 1 /\ Handled = entry - 1
        /\ Done + 1 = batch /\ Handled + 1 = entry
        /\ Done < Len(heard) /\ Handled < Len(heard[Done + 1])
    BY <1>1 DEF Done, Handled
  <1>3. CASE entry < Len(heard[batch])
    <2>1. Done' = Done /\ Handled' = Handled + 1
      BY <1>1, <1>2, <1>3 DEF NextEntry, Done, Handled
    <2>. QED  BY <1>2, <1>3, <2>1 DEF Feed!SettleOne, Done, Handled
  <1>4. CASE ~(entry < Len(heard[batch]))
    <2>1. Done' = Done + 1 /\ Handled' = 0
      BY <1>1, <1>2, <1>4 DEF NextEntry, Done, Handled
    <2>. QED  BY <1>2, <1>4, <2>1 DEF Feed!SettleOne, Done, Handled
  <1>. QED  BY <1>2, <1>3, <1>4

(* A batch that is given up takes the rest of its quotes with it.            *)
LEMMA AbandonDrops ==
  ASSUME RegistryInv, tick # "idle", Abandon, UNCHANGED <<heard, batch>>
  PROVE  Feed!DropRest
  <1>1. batch \in 1 .. Len(heard) /\ Len(heard) \in Nat
    BY DEF RegistryInv, ChainStands, TypeOK
  <1>2. Done = batch - 1 /\ Done < Len(heard) /\ Done' = Done + 1 /\ Handled' = 0
    BY <1>1 DEF Abandon, Done, Handled
  <1>. QED  BY <1>2 DEF Feed!DropRest, Abandon, Done, Handled

LEMMA ChainStepFeeds ==
  ASSUME RegistryInv, ChainStep
  PROVE  [Feed!Next]_(Feed!feedVars)
  <1>1. CASE StartBatch
    <2>1. batch \in Nat /\ Len(heard) \in Nat /\ UNCHANGED <<heard, emit>>
      BY <1>1 DEF RegistryInv, TypeOK, StartBatch
    <2>2. CASE tick' = "idle"
      <3>1. Done = batch /\ Done' = batch + 1 /\ Handled' = 0 /\ Done < Len(heard)
        BY <1>1, <2>1, <2>2 DEF StartBatch, Done, Handled
      <3>. QED  BY <2>1, <3>1 DEF Feed!DropRest, Feed!Settle, Feed!Next, Done, Handled
    <2>3. CASE tick' # "idle"
      <3>1. Done' = Done /\ Handled' = Handled
        BY <1>1, <2>1, <2>3 DEF StartBatch, Done, Handled
      <3>. QED  BY <2>1, <3>1 DEF Feed!feedVars, Done, Handled
    <2>. QED  BY <2>2, <2>3
  <1>2. CASE SkipEntry
    <2>1. tick # "idle" /\ NextEntry /\ UNCHANGED <<heard, batch, emit>>
      BY <1>2 DEF SkipEntry, outsideChain
    <2>. QED
      BY <2>1, NextEntrySettles DEF Feed!DropOne, Feed!Settle, Feed!Next, Done, Handled
  <1>3. CASE SendPrice \/ WritePrice
    <2>1. /\ tick # "idle" /\ tick' # "idle" /\ UNCHANGED <<heard, batch, entry, emit>>
      BY <1>3 DEF SendPrice, WritePrice, outsideChain
    <2>. QED  BY <2>1 DEF Feed!feedVars
  <1>4. CASE WriteRefused \/ WriteLost
    <2>1. tick # "idle" /\ Abandon /\ UNCHANGED <<heard, batch>>
      BY <1>4 DEF WriteRefused, WriteLost, outsideChain
    <2>. QED  BY <2>1, AbandonDrops DEF Feed!Settle, Feed!Next
  <1>5. CASE Broadcast
    <2>1. tick # "idle" /\ NextEntry /\ UNCHANGED <<heard, batch>> /\ emit' = Announcement
      BY <1>5 DEF Broadcast, outsideChain
    <2>2. Quote.c # NotFinite
      BY <1>5 DEF Broadcast, RegistryInv, ChainHolds
    <2>3. /\ Feed!SettleOne
          /\ Done < Len(heard) /\ Handled < Len(heard[Done + 1])
          /\ Done + 1 = batch /\ Handled + 1 = entry
      BY <2>1, NextEntrySettles
    <2>4. heard[Done + 1][Handled + 1] = Quote
      BY <2>3 DEF Quote
    <2>5. emit' = [batch |-> Done + 1, entry |-> Handled + 1,
                   ps |-> heard[Done + 1][Handled + 1].s,
                   price |-> heard[Done + 1][Handled + 1].c]
      BY <2>1, <2>3, <2>4 DEF Announcement
    <2>6. Feed!Publish
      BY <2>1, <2>2, <2>3, <2>4, <2>5 DEF Feed!Publish, Done, Handled
    <2>. QED  BY <2>6 DEF Feed!Settle, Feed!Next
  <1>. QED  BY <1>1, <1>2, <1>3, <1>4, <1>5 DEF ChainStep

LEMMA StepFeeds ==
  ASSUME RegistryInv, [Next]_vars
  PROVE  [Feed!Next]_(Feed!feedVars)
  <1>1. ASSUME NEW r \in Requests, RequestStep(r)
        PROVE  UNCHANGED Feed!feedVars
    <2>1. UNCHANGED outsideRequests
      BY <1>1 DEF RequestStep, CreateInsert, CreateRegister, UpdateSelect, UpdateWrite,
                  UpdateFail, UpdateSync, DeleteRemove, DeleteUnregister, AnswerLost
    <2>. QED  BY <2>1, FeedKept DEF outsideRequests
  <1>2. CASE BootStep \/ Shutdown
    <2>1. UNCHANGED outsideBoot
      BY <1>2 DEF BootStep, BootSelect, BootLoad, BootConnect, BootFail, Shutdown
    <2>. QED  BY <2>1, FeedKept DEF outsideBoot
  <1>3. CASE Crash
    BY <1>3 DEF Crash, Feed!Restart, Feed!Next
  <1>4. CASE StreamMessage
    BY <1>4 DEF StreamMessage, chainVars, Feed!Hear, Feed!Next
  <1>5. CASE UNCHANGED vars
    BY <1>5, FeedKept DEF vars
  <1>. QED
    BY <1>1, <1>2, <1>3, <1>4, <1>5, ChainStepFeeds DEF Next

(* The chain publishes what the exchange sent, in its order and at most      *)
(* once, whatever requests, the store, shutdown and restarts do meanwhile:   *)
(* it implements PriceFeed (enqueueTickerBatch, handleTickerBatch,           *)
(* handleTickerEntry).                                                       *)
THEOREM ChainImplementsFeed == Spec => ImplementsFeed
  <1>1. Init => Feed!Init
    BY DEF Init, Feed!Init
  <1>2. RegistryInv /\ [Next]_vars => [Feed!Next]_(Feed!feedVars)
    BY StepFeeds
  <1>. QED
    BY <1>1, <1>2, RegistryInvariant, PTL DEF Spec, ImplementsFeed, Feed!Spec
=============================================================================
