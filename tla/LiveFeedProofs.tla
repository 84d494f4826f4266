---------------------------- MODULE LiveFeedProofs ---------------------------
(* Proofs about LiveFeed for every value of its constants: any symbols and   *)
(* prices, any number of loads and of messages under way.                    *)
EXTENDS LiveFeed, SequenceTheorems, TLAPS

USE NoneAssumption

(* What is found, read or in the room was public once.                       *)
OnlyPublished ==
  /\ public \subseteq published
  /\ \A k \in Symbols \ published : found[k] = 0 /\ \A c \in Loads : answer[c][k] = None
  /\ NeverPublished

(* The last request under way for a card is its subscription; without one,   *)
(* its query is under way or has brought it into the room, or refused it.    *)
LastIsSubscribe(k) ==
  \E n \in DOMAIN toServer :
    /\ toServer[n] = <<"SYMBOL:SUBSCRIBE", k>>
    /\ \A m \in DOMAIN toServer : m > n => toServer[m][2] # k
CardsAreAsked ==
  \A k \in Symbols : cards[k] # None =>
    \/ LastIsSubscribe(k)
    \/ /\ \A n \in DOMAIN toServer : toServer[n][2] # k
       /\ asking[k] > 0 \/ found[k] > 0 \/ k \in room \cup refused

(* Of a symbol whose price has been announced, the last update under way has *)
(* that price, no quote is about to be announced, and what a load has read   *)
(* is that price unless an update has come since or is under way.            *)
OnItsWay(k) == \E n \in DOMAIN toPage : toPage[n][1] = k
LastIsPrice ==
  \A k \in heard : \A n \in DOMAIN toPage :
    toPage[n][1] = k /\ (\A m \in DOMAIN toPage : m > n => toPage[m][1] # k)
      => toPage[n][2] = price[k]
SendingIsUnheard == sending # None => sending[1] \notin heard
AnswersCatchUp ==
  \A c \in Loads : load[c] = "read" =>
    \A k \in heard : k \in updated[c] \/ answer[c][k] \in {None, price[k]} \/ OnItsWay(k)

FeedInv ==
  /\ LastIsPrice
  /\ SendingIsUnheard
  /\ AnswersCatchUp
  /\ CardsCatchUp
  /\ RowsCatchUp

LiveInv == TypeOK /\ OnlyPublished /\ CardsAreAsked /\ FeedInv
-----------------------------------------------------------------------------
(* Sequences: a message is added at the end and taken from the front.        *)
LEMMA Appended ==
  ASSUME NEW S, NEW s \in Seq(S), NEW e \in S
  PROVE  /\ Append(s, e) \in Seq(S)
         /\ DOMAIN Append(s, e) = DOMAIN s \cup {Len(s) + 1}
         /\ \A n \in DOMAIN s : Append(s, e)[n] = s[n] /\ n < Len(s) + 1
         /\ Append(s, e)[Len(s) + 1] = e
         /\ Len(s) + 1 \notin DOMAIN s
         /\ Len(s) \in Nat /\ DOMAIN s = 1 .. Len(s)
  <1>1. Len(s) \in Nat /\ DOMAIN s = 1 .. Len(s)
    BY LenProperties
  <1>2. Append(s, e) \in Seq(S) /\ Len(Append(s, e)) = Len(s) + 1
    BY AppendProperties
  <1>3. DOMAIN Append(s, e) = 1 .. Len(s) + 1
    BY <1>2, LenProperties
  <1>4. DOMAIN Append(s, e) = DOMAIN s \cup {Len(s) + 1}
    BY <1>1, <1>3
  <1>5. \A n \in DOMAIN s : Append(s, e)[n] = s[n]
    BY <1>1, AppendProperties
  <1>6. Append(s, e)[Len(s) + 1] = e
    BY AppendProperties
  <1>7. Len(s) + 1 \notin DOMAIN s /\ \A n \in DOMAIN s : n < Len(s) + 1
    BY <1>1
  <1>. QED  BY <1>1, <1>2, <1>4, <1>5, <1>6, <1>7

LEMMA Taken ==
  ASSUME NEW S, NEW s \in Seq(S), s # <<>>
  PROVE  /\ Tail(s) \in Seq(S) /\ Head(s) \in S
         /\ Head(s) = s[1] /\ 1 \in DOMAIN s
         /\ DOMAIN s \subseteq Nat
         /\ DOMAIN Tail(s) \subseteq Nat
         /\ \A n \in DOMAIN Tail(s) : n + 1 \in DOMAIN s /\ Tail(s)[n] = s[n + 1]
         /\ \A n \in DOMAIN s : n = 1 \/ (n > 1 /\ n - 1 \in DOMAIN Tail(s) /\ Tail(s)[n - 1] = s[n])
  <1>1. Len(s) \in Nat /\ DOMAIN s = 1 .. Len(s)
    BY LenProperties
  <1>2. Len(s) # 0
    BY <1>1, EmptySeq
  <1>3. /\ Tail(s) \in Seq(S) /\ Head(s) \in S /\ Len(Tail(s)) = Len(s) - 1
        /\ \A n \in 1 .. Len(Tail(s)) : Tail(s)[n] = s[n + 1]
    BY HeadTailProperties
  <1>4. DOMAIN Tail(s) = 1 .. Len(s) - 1
    BY <1>3, LenProperties
  <1>5. Head(s) = s[1]
    OBVIOUS
  <1>6. \A n \in DOMAIN Tail(s) : n + 1 \in DOMAIN s /\ Tail(s)[n] = s[n + 1]
    BY <1>1, <1>3, <1>4
  <1>7. \A n \in DOMAIN s : n = 1 \/ (n > 1 /\ n - 1 \in DOMAIN Tail(s) /\ Tail(s)[n - 1] = s[n])
    <2>1. SUFFICES ASSUME NEW n \in DOMAIN s, n # 1
                   PROVE  n > 1 /\ n - 1 \in DOMAIN Tail(s) /\ Tail(s)[n - 1] = s[n]
      OBVIOUS
    <2>2. n \in Nat /\ n > 1 /\ n - 1 \in DOMAIN Tail(s) /\ (n - 1) + 1 = n
      BY <1>1, <1>4, <2>1
    <2>. QED  BY <1>6, <2>2
  <1>. QED  BY <1>1, <1>2, <1>3, <1>4, <1>5, <1>6, <1>7
-----------------------------------------------------------------------------
(* Types.                                                                    *)
LEMMA PatchType ==
  ASSUME NEW s \in Answers, NEW k \in Symbols, NEW p \in Prices
  PROVE  /\ patch(s, k, p) \in Answers
         /\ \A j \in Symbols : patch(s, k, p)[j] =
              IF j = k /\ s[k] # None THEN p ELSE s[j]
  BY DEF patch, Answers, Shown

LEMMA SendingType ==
  ASSUME TypeOK, sending # None
  PROVE  sending[1] \in Symbols /\ sending[2] \in Prices /\ sending = <<sending[1], sending[2]>>
  BY DEF TypeOK

(* A message on its way is about a symbol.                                   *)
LEMMA HeadType ==
  ASSUME TypeOK
  PROVE  /\ toServer # <<>> => Head(toServer)[2] \in Symbols
         /\ toPage # <<>> => Head(toPage)[1] \in Symbols /\ Head(toPage)[2] \in Prices
  <1>1. toServer # <<>> => Head(toServer) \in Requests
    BY Taken DEF TypeOK
  <1>2. toPage # <<>> => Head(toPage) \in Symbols \X Prices
    BY Taken DEF TypeOK
  <1>. QED  BY <1>1, <1>2 DEF Requests

LEMMA LiveTypeStep ==
  ASSUME TypeOK, [Next]_vars
  PROVE  TypeOK'
  <1>1. CASE TickerWrite
    BY <1>1 DEF TypeOK, TickerWrite, roomVars, pageVars
  <1>2. CASE Announce
    <2>1. sending[1] \in Symbols /\ sending[2] \in Prices
      BY <1>2, SendingType DEF Announce
    <2>2. Append(toPage, <<sending[1], sending[2]>>) \in Seq(Symbols \X Prices)
      BY <2>1, Appended DEF TypeOK
    <2>3. toPage' \in Seq(Symbols \X Prices) /\ heard' \subseteq Symbols
      BY <1>2, <2>1, <2>2 DEF TypeOK, Announce, emitSymbolPriceChanged
    <2>. QED  BY <1>2, <2>3 DEF TypeOK, Announce, roomVars, pageVars
  <1>3. CASE WriteLost
    BY <1>3 DEF TypeOK, WriteLost, roomVars, pageVars, historyVars
  <1>4. CASE AdminUpdate
    <2>1. PICK k \in Symbols :
            \/ /\ \E p \in Prices : price' = [price EXCEPT ![k] = p]
               /\ heard' = heard \ {k}
            \/ UNCHANGED <<price, heard>>
      BY <1>4 DEF AdminUpdate
    <2>3. price' \in [Symbols -> Prices] /\ heard' \subseteq Symbols
      BY <2>1 DEF TypeOK
    <2>2. public' \subseteq Symbols /\ published' \subseteq Symbols
      BY <1>4 DEF TypeOK, AdminUpdate
    <2>. QED  BY <1>4, <2>2, <2>3 DEF TypeOK, AdminUpdate, roomVars, pageVars
  <1>5. CASE Receive
    <2>1. Tail(toServer) \in Seq(Requests) /\ Head(toServer)[2] \in Symbols
      BY <1>5, Taken, HeadType DEF TypeOK, Receive
    <2>2. asking' \in [Symbols -> Nat] /\ room' \subseteq Symbols
      <3>1. PICK k \in Symbols : k = Head(toServer)[2]
        BY <2>1
      <3>2. \/ asking' = [asking EXCEPT ![k] = @ + 1] /\ room' = room
            \/ asking' = asking /\ room' = room \ {k}
        BY <1>5, <3>1 DEF Receive, subscribeToSymbol, unsubscribeFromSymbol
      <3>3. asking \in [Symbols -> Nat] /\ room \subseteq Symbols
        BY DEF TypeOK
      <3>4. asking' \in [Symbols -> Nat]
        BY <3>2, <3>3
      <3>. QED  BY <3>2, <3>3, <3>4
    <2>3. toServer' \in Seq(Requests)
      BY <1>5, <2>1 DEF Receive
    <2>. QED
      BY <1>5, <2>2, <2>3 DEF TypeOK, Receive, serverVars, pageVars, historyVars
  <1>6. CASE PriceChanged
    <2>1. /\ Tail(toPage) \in Seq(Symbols \X Prices)
          /\ Head(toPage)[1] \in Symbols /\ Head(toPage)[2] \in Prices
      BY <1>6, Taken, HeadType DEF TypeOK, PriceChanged
    <2>2. rows' \in Answers /\ cards' \in Answers
      BY <1>6, <2>1, PatchType DEF TypeOK, PriceChanged, upsertSymbolPrice
    <2>3. updated' \in [Loads -> SUBSET Symbols]
      BY <1>6, <2>1 DEF TypeOK, PriceChanged
    <2>4. older' \subseteq {"row", "card"} \X Symbols
      BY <1>6 DEF TypeOK, PriceChanged
    <2>5. toPage' \in Seq(Symbols \X Prices)
      BY <1>6, <2>1 DEF PriceChanged
    <2>. QED
      BY <1>6, <2>2, <2>3, <2>4, <2>5 DEF TypeOK, PriceChanged, serverVars, roomVars
  <1>7. ASSUME NEW k \in Symbols, SelectSymbol(k)
        PROVE  TypeOK'
    <2>1. asking' \in [Symbols -> Nat] /\ found' \in [Symbols -> Nat]
      <3>1. asking \in [Symbols -> Nat] /\ found \in [Symbols -> Nat]
        BY DEF TypeOK
      <3>2. asking' \in [Symbols -> Nat]
        BY <1>7, <3>1 DEF SelectSymbol
      <3>3. found' = found \/ found' = [found EXCEPT ![k] = @ + 1]
        BY <1>7 DEF SelectSymbol
      <3>4. found' \in [Symbols -> Nat]
        BY <3>1, <3>3
      <3>. QED  BY <3>2, <3>4
    <2>2. refused' \subseteq Symbols
      BY <1>7 DEF TypeOK, SelectSymbol
    <2>. QED  BY <1>7, <2>1, <2>2 DEF TypeOK, SelectSymbol, serverVars, pageVars
  <1>8. ASSUME NEW k \in Symbols, Join(k)
        PROVE  TypeOK'
    BY <1>8 DEF TypeOK, Join, joinSymbolRoom, serverVars, pageVars, historyVars
  <1>9. ASSUME NEW k \in Symbols, subscribe(k)
        PROVE  TypeOK'
    <2>1. Append(toServer, <<"SYMBOL:SUBSCRIBE", k>>) \in Seq(Requests)
      BY Appended DEF TypeOK, Requests
    <2>2. cards' \in Answers
      BY <1>9 DEF TypeOK, subscribe, Answers
    <2>3. older' \subseteq {"row", "card"} \X Symbols
      BY <1>9 DEF TypeOK, subscribe
    <2>. QED
      BY <1>9, <2>1, <2>2, <2>3 DEF TypeOK, subscribe, emit, serverVars, roomVars
  <1>10. ASSUME NEW k \in Symbols, unsubscribe(k)
         PROVE  TypeOK'
    <2>1. Append(toServer, <<"SYMBOL:UNSUBSCRIBE", k>>) \in Seq(Requests)
      BY Appended DEF TypeOK, Requests
    <2>2. cards' \in Answers
      BY <1>10 DEF TypeOK, unsubscribe, Answers, Shown
    <2>. QED
      BY <1>10, <2>1, <2>2 DEF TypeOK, unsubscribe, emit, serverVars, roomVars, historyVars
  <1>11. ASSUME NEW c \in Loads, loadClientSymbols(c)
         PROVE  TypeOK'
    BY <1>11 DEF TypeOK, loadClientSymbols, serverVars, roomVars, historyVars
  <1>12. ASSUME NEW c \in Loads, ReadList(c)
         PROVE  TypeOK'
    <2>1. selectManyAndCount \in Answers
      BY DEF TypeOK, selectManyAndCount, Answers, Shown
    <2>. QED  BY <1>12, <2>1 DEF TypeOK, ReadList, serverVars, roomVars, historyVars
  <1>13. ASSUME NEW c \in Loads, EndLoad(c)
         PROVE  /\ load' \in [Loads -> {"idle", "asked", "read"}]
                /\ answer' \in [Loads -> Answers]
                /\ updated' \in [Loads -> SUBSET Symbols]
    BY <1>13 DEF TypeOK, EndLoad, NoRows, Answers, Shown
  <1>14. ASSUME NEW c \in Loads, ShowList(c)
         PROVE  TypeOK'
    <2>1. older' \subseteq {"row", "card"} \X Symbols
      BY <1>14 DEF TypeOK, ShowList
    <2>. QED  BY <1>13, <1>14, <2>1 DEF TypeOK, ShowList, serverVars, roomVars
  <1>15. ASSUME NEW c \in Loads, LoadFails(c)
         PROVE  TypeOK'
    BY <1>13, <1>15 DEF TypeOK, LoadFails, serverVars, roomVars
  <1>16. CASE UNCHANGED vars
    BY <1>16 DEF TypeOK, vars, serverVars, roomVars, pageVars, historyVars
  <1>. QED
    BY <1>1, <1>2, <1>3, <1>4, <1>5, <1>6, <1>7, <1>8, <1>9, <1>10, <1>11, <1>12, <1>14,
       <1>15, <1>16 DEF Next, Settle
-----------------------------------------------------------------------------
(* What was never public stays unknown to the page.                          *)
Unknown(k) ==
  /\ found[k] = 0 /\ \A c \in Loads : answer[c][k] = None
  /\ rows[k] = None /\ cards[k] = None /\ k \notin room
  /\ \A n \in DOMAIN toPage : toPage[n][1] # k

LEMMA OnlyPublishedIs ==
  OnlyPublished <=> public \subseteq published /\ \A k \in Symbols \ published : Unknown(k)
  BY DEF OnlyPublished, NeverPublished, Unknown

LEMMA PublishedGrows ==
  ASSUME public \subseteq published, [Next]_vars
  PROVE  public' \subseteq published' /\ published \subseteq published'
  <1>1. CASE AdminUpdate
    BY <1>1 DEF AdminUpdate
  <1>2. CASE UNCHANGED <<public, published>>
    BY <1>2
  <1>3. CASE UNCHANGED vars
    BY <1>3 DEF vars, serverVars, historyVars
  <1>4. Next => AdminUpdate \/ UNCHANGED <<public, published>>
    BY DEF Next, Settle, TickerWrite, Announce, WriteLost, Receive, PriceChanged, SelectSymbol,
           Join, subscribe, unsubscribe, loadClientSymbols, ReadList, ShowList, LoadFails,
           serverVars, historyVars
  <1>. QED  BY <1>1, <1>2, <1>3, <1>4

LEMMA UnknownStep ==
  ASSUME TypeOK, OnlyPublished, [Next]_vars, NEW k \in Symbols \ published
  PROVE  Unknown(k)'
  <1>1. Unknown(k) /\ k \notin public
    BY OnlyPublishedIs
  <1>2. CASE TickerWrite
    BY <1>1, <1>2 DEF Unknown, TickerWrite, roomVars, pageVars
  <1>3. CASE Announce
    <2>1. CASE sending[1] \in room
      <3>1. sending[1] # k /\ sending[1] \in Symbols /\ sending[2] \in Prices
        BY <1>1, <1>3, <2>1, SendingType DEF Unknown, Announce
      <3>2. toPage' = Append(toPage, <<sending[1], sending[2]>>)
        BY <1>3, <2>1 DEF Announce, emitSymbolPriceChanged
      <3>3. toPage \in Seq(Symbols \X Prices) /\ <<sending[1], sending[2]>> \in Symbols \X Prices
        BY <3>1 DEF TypeOK
      <3>4. \A n \in DOMAIN toPage' : toPage'[n][1] # k
        BY <1>1, <3>1, <3>2, <3>3, Appended DEF Unknown
      <3>. QED  BY <1>1, <1>3, <3>4 DEF Unknown, Announce, roomVars, pageVars
    <2>2. CASE sending[1] \notin room
      BY <1>1, <1>3, <2>2 DEF Unknown, Announce, roomVars, pageVars
    <2>. QED  BY <2>1, <2>2
  <1>4. CASE WriteLost
    BY <1>1, <1>4 DEF Unknown, WriteLost, roomVars, pageVars
  <1>5. CASE AdminUpdate
    BY <1>1, <1>5 DEF Unknown, AdminUpdate, roomVars, pageVars
  <1>6. CASE Receive
    BY <1>1, <1>6 DEF Unknown, Receive, subscribeToSymbol, unsubscribeFromSymbol, pageVars
  <1>7. CASE PriceChanged
    <2>1. Head(toPage)[1] \in Symbols /\ Head(toPage)[2] \in Prices
      BY <1>7, HeadType DEF PriceChanged
    <2>2. rows'[k] = None /\ cards'[k] = None
      <3>1. rows \in Answers /\ cards \in Answers
        BY DEF TypeOK
      <3>2. /\ rows' = patch(rows, Head(toPage)[1], Head(toPage)[2])
            /\ cards' = patch(cards, Head(toPage)[1], Head(toPage)[2])
        BY <1>7 DEF PriceChanged, upsertSymbolPrice
      <3>. QED  BY <1>1, <2>1, <3>1, <3>2, PatchType DEF Unknown
    <2>3. \A n \in DOMAIN toPage' : toPage'[n][1] # k
      <3>1. toPage \in Seq(Symbols \X Prices) /\ toPage # <<>> /\ toPage' = Tail(toPage)
        BY <1>7 DEF TypeOK, PriceChanged
      <3>2. \A n \in DOMAIN toPage' : n + 1 \in DOMAIN toPage /\ toPage'[n] = toPage[n + 1]
        BY <3>1, Taken
      <3>. QED  BY <1>1, <3>2 DEF Unknown
    <2>. QED  BY <1>1, <1>7, <2>2, <2>3 DEF Unknown, PriceChanged, roomVars
  <1>8. ASSUME NEW j \in Symbols, SelectSymbol(j)
        PROVE  Unknown(k)'
    <2>1. found'[k] = found[k]
      BY <1>1, <1>8 DEF SelectSymbol, TypeOK
    <2>. QED  BY <1>1, <1>8, <2>1 DEF Unknown, SelectSymbol, pageVars
  <1>9. ASSUME NEW j \in Symbols, Join(j)
        PROVE  Unknown(k)'
    <2>1. j # k /\ found'[k] = found[k]
      BY <1>1, <1>9 DEF Unknown, Join, TypeOK
    <2>. QED  BY <1>1, <1>9, <2>1 DEF Unknown, Join, joinSymbolRoom, pageVars
  <1>10. ASSUME NEW j \in Symbols, subscribe(j)
         PROVE  Unknown(k)'
    <2>1. j # k /\ cards'[k] = cards[k]
      BY <1>1, <1>10 DEF Unknown, subscribe, TypeOK, Answers
    <2>. QED  BY <1>1, <1>10, <2>1 DEF Unknown, subscribe, roomVars
  <1>11. ASSUME NEW j \in Symbols, unsubscribe(j)
         PROVE  Unknown(k)'
    <2>1. cards'[k] = None
      BY <1>1, <1>11 DEF Unknown, unsubscribe, TypeOK, Answers
    <2>. QED  BY <1>1, <1>11, <2>1 DEF Unknown, unsubscribe, roomVars
  <1>12. ASSUME NEW c \in Loads, loadClientSymbols(c)
         PROVE  Unknown(k)'
    BY <1>1, <1>12 DEF Unknown, loadClientSymbols, roomVars
  <1>13. ASSUME NEW c \in Loads, ReadList(c)
         PROVE  Unknown(k)'
    <2>1. \A d \in Loads : answer'[d][k] = None
      BY <1>1, <1>13 DEF Unknown, ReadList, selectManyAndCount, TypeOK
    <2>. QED  BY <1>1, <1>13, <2>1 DEF Unknown, ReadList, roomVars
  <1>14. ASSUME NEW c \in Loads, EndLoad(c)
         PROVE  \A d \in Loads : answer'[d][k] = None
    BY <1>1, <1>14 DEF Unknown, EndLoad, NoRows, TypeOK
  <1>15. ASSUME NEW c \in Loads, ShowList(c)
         PROVE  Unknown(k)'
    <2>1. rows'[k] = None
      BY <1>1, <1>15 DEF Unknown, ShowList
    <2>. QED  BY <1>1, <1>14, <1>15, <2>1 DEF Unknown, ShowList, roomVars
  <1>16. ASSUME NEW c \in Loads, LoadFails(c)
         PROVE  Unknown(k)'
    BY <1>1, <1>14, <1>16 DEF Unknown, LoadFails, roomVars
  <1>17. CASE UNCHANGED vars
    BY <1>1, <1>17 DEF Unknown, vars, roomVars, pageVars
  <1>. QED
    BY <1>2, <1>3, <1>4, <1>5, <1>6, <1>7, <1>8, <1>9, <1>10, <1>11, <1>12, <1>13, <1>15,
       <1>16, <1>17 DEF Next, Settle

LEMMA OnlyPublishedStep ==
  ASSUME TypeOK, OnlyPublished, [Next]_vars
  PROVE  OnlyPublished'
  <1>1. public' \subseteq published' /\ published \subseteq published'
    BY PublishedGrows DEF OnlyPublished
  <1>2. \A k \in Symbols \ published' : Unknown(k)'
    BY <1>1, UnknownStep
  <1>. QED  BY <1>1, <1>2 DEF OnlyPublished, NeverPublished, Unknown
-----------------------------------------------------------------------------
(* Cards are live.                                                           *)
CardAsked(k) ==
  cards[k] # None =>
    \/ LastIsSubscribe(k)
    \/ /\ \A n \in DOMAIN toServer : toServer[n][2] # k
       /\ asking[k] > 0 \/ found[k] > 0 \/ k \in room \cup refused

(* Actions that send and receive no request, and settle none.                *)
LEMMA CardAskedKept ==
  ASSUME TypeOK, NEW k \in Symbols, CardAsked(k),
         UNCHANGED <<toServer, asking, found, room, refused>>,
         cards'[k] # None => cards[k] # None
  PROVE  CardAsked(k)'
  BY DEF CardAsked, LastIsSubscribe

LEMMA ReceiveAsked ==
  ASSUME TypeOK, NEW k \in Symbols, CardAsked(k), Receive
  PROVE  CardAsked(k)'
  <1>1. /\ toServer \in Seq(Requests) /\ toServer # <<>> /\ toServer' = Tail(toServer)
        /\ UNCHANGED <<found, refused, cards>>
    BY DEF TypeOK, Receive, pageVars, historyVars
  <1>2. SUFFICES ASSUME cards[k] # None
                 PROVE  CardAsked(k)'
    BY <1>1 DEF CardAsked
  <1>3. /\ DOMAIN toServer \subseteq Nat /\ DOMAIN toServer' \subseteq Nat
        /\ 1 \in DOMAIN toServer /\ Head(toServer) = toServer[1] /\ Head(toServer) \in Requests
        /\ \A n \in DOMAIN toServer' : n + 1 \in DOMAIN toServer /\ toServer'[n] = toServer[n + 1]
        /\ \A n \in DOMAIN toServer :
             n = 1 \/ (n > 1 /\ n - 1 \in DOMAIN toServer' /\ toServer'[n - 1] = toServer[n])
    BY <1>1, Taken
  <1>4. asking \in [Symbols -> Nat] /\ Head(toServer)[2] \in Symbols
    BY <1>3 DEF TypeOK, Requests
  <1>5. CASE LastIsSubscribe(k)
    <2>1. PICK n \in DOMAIN toServer :
            /\ toServer[n] = <<"SYMBOL:SUBSCRIBE", k>>
            /\ \A m \in DOMAIN toServer : m > n => toServer[m][2] # k
      BY <1>5 DEF LastIsSubscribe
    <2>2. CASE n = 1
      <3>1. Head(toServer) = <<"SYMBOL:SUBSCRIBE", k>>
        BY <1>3, <2>1, <2>2
      <3>2. asking' = [asking EXCEPT ![k] = @ + 1]
        BY <3>1 DEF Receive, subscribeToSymbol
      <3>3. asking'[k] > 0
        BY <1>4, <3>2
      <3>4. \A m \in DOMAIN toServer' : toServer'[m][2] # k
        <4>1. SUFFICES ASSUME NEW m \in DOMAIN toServer'
                       PROVE  toServer'[m][2] # k
          OBVIOUS
        <4>2. m + 1 \in DOMAIN toServer /\ toServer'[m] = toServer[m + 1]
          BY <1>3
        <4>3. m + 1 > n
          <5>1. m \in Nat /\ m # 0
            BY <1>1, <1>3, Taken, LenProperties
          <5>. QED  BY <2>2, <5>1
        <4>. QED  BY <2>1, <4>2, <4>3
      <3>. QED  BY <3>3, <3>4 DEF CardAsked
    <2>3. CASE n # 1
      <3>1. n > 1 /\ n \in Nat /\ n - 1 \in DOMAIN toServer' /\ toServer'[n - 1] = toServer[n]
        BY <1>3, <2>3
      <3>2. \A m \in DOMAIN toServer' : m > n - 1 => toServer'[m][2] # k
        <4>1. SUFFICES ASSUME NEW m \in DOMAIN toServer', m > n - 1
                       PROVE  toServer'[m][2] # k
          OBVIOUS
        <4>2. m \in Nat /\ m + 1 \in DOMAIN toServer /\ toServer'[m] = toServer[m + 1]
          BY <1>3
        <4>3. m + 1 > n
          BY <3>1, <4>1, <4>2
        <4>. QED  BY <2>1, <4>2, <4>3
      <3>3. LastIsSubscribe(k)'
        BY <2>1, <3>1, <3>2 DEF LastIsSubscribe
      <3>. QED  BY <3>3 DEF CardAsked
    <2>. QED  BY <2>2, <2>3
  <1>6. CASE ~LastIsSubscribe(k)
    <2>1. /\ \A n \in DOMAIN toServer : toServer[n][2] # k
          /\ asking[k] > 0 \/ found[k] > 0 \/ k \in room \cup refused
      BY <1>2, <1>6 DEF CardAsked
    <2>2. \A n \in DOMAIN toServer' : toServer'[n][2] # k
      BY <1>3, <2>1
    <2>3. PICK j \in Symbols : j = Head(toServer)[2]
      BY <1>4
    <2>4. j # k
      BY <1>3, <2>1, <2>3
    <2>5. \/ asking' = [asking EXCEPT ![j] = @ + 1] /\ room' = room
          \/ asking' = asking /\ room' = room \ {j}
      BY <2>3 DEF Receive, subscribeToSymbol, unsubscribeFromSymbol
    <2>6. asking'[k] = asking[k] /\ (k \in room => k \in room')
      BY <1>4, <2>4, <2>5
    <2>. QED  BY <1>1, <2>1, <2>2, <2>6 DEF CardAsked
  <1>. QED  BY <1>5, <1>6

LEMMA EmitAsked ==
  ASSUME TypeOK, NEW k \in Symbols, NEW j \in Symbols, CardAsked(k), subscribe(j) \/ unsubscribe(j)
  PROVE  CardAsked(k)'
  <1>1. PICK event \in {"SYMBOL:SUBSCRIBE", "SYMBOL:UNSUBSCRIBE"} :
          /\ toServer' = Append(toServer, <<event, j>>)
          /\ event = "SYMBOL:SUBSCRIBE" <=> subscribe(j)
          /\ subscribe(j) => refused' = refused \ {j}
          /\ ~subscribe(j) => refused' = refused /\ cards' = [cards EXCEPT ![j] = None]
          /\ subscribe(j) => cards' = [cards EXCEPT ![j] = rows[j]]
    <2>1. CASE subscribe(j)
      BY <2>1 DEF subscribe, emit
    <2>2. CASE ~subscribe(j)
      BY <2>2 DEF unsubscribe, emit, historyVars
    <2>. QED  BY <2>1, <2>2
  <1>2. toServer \in Seq(Requests) /\ <<event, j>> \in Requests /\ cards \in Answers
    BY DEF TypeOK, Requests
  <1>3. UNCHANGED <<asking, found, room>>
    BY DEF subscribe, unsubscribe, roomVars
  <1>4. PICK l \in Nat :
          /\ l = Len(toServer) + 1 /\ l \notin DOMAIN toServer
          /\ DOMAIN toServer' = DOMAIN toServer \cup {l}
          /\ toServer'[l] = <<event, j>>
          /\ \A n \in DOMAIN toServer : toServer'[n] = toServer[n] /\ n < l /\ n \in Nat
    BY <1>1, <1>2, Appended
  <1>5. CASE j = k
    <2>1. CASE subscribe(j)
      <3>1. toServer'[l] = <<"SYMBOL:SUBSCRIBE", k>>
        BY <1>1, <1>4, <1>5, <2>1
      <3>2. \A m \in DOMAIN toServer' : ~(m > l)
        BY <1>4
      <3>3. LastIsSubscribe(k)'
        BY <1>4, <3>1, <3>2 DEF LastIsSubscribe
      <3>. QED  BY <3>3 DEF CardAsked
    <2>2. CASE ~subscribe(j)
      BY <1>1, <1>2, <1>5, <2>2 DEF CardAsked, Answers
    <2>. QED  BY <2>1, <2>2
  <1>6. CASE j # k
    <2>1. cards'[k] = cards[k] /\ (k \in refused => k \in refused')
      BY <1>1, <1>2, <1>6 DEF Answers
    <2>2. LastIsSubscribe(k) => LastIsSubscribe(k)'
      <3>1. SUFFICES ASSUME NEW n \in DOMAIN toServer,
                            toServer[n] = <<"SYMBOL:SUBSCRIBE", k>>,
                            \A m \in DOMAIN toServer : m > n => toServer[m][2] # k
                     PROVE  LastIsSubscribe(k)'
        BY DEF LastIsSubscribe
      <3>2. n \in DOMAIN toServer' /\ toServer'[n] = <<"SYMBOL:SUBSCRIBE", k>>
        BY <1>4, <3>1
      <3>3. \A m \in DOMAIN toServer' : m > n => toServer'[m][2] # k
        BY <1>4, <1>6, <3>1
      <3>. QED  BY <3>2, <3>3 DEF LastIsSubscribe
    <2>3. (\A n \in DOMAIN toServer : toServer[n][2] # k)
            => \A n \in DOMAIN toServer' : toServer'[n][2] # k
      BY <1>4, <1>6
    <2>. QED  BY <1>3, <2>1, <2>2, <2>3 DEF CardAsked
  <1>. QED  BY <1>5, <1>6

LEMMA SettleAsked ==
  ASSUME TypeOK, NEW k \in Symbols, NEW j \in Symbols, CardAsked(k), SelectSymbol(j) \/ Join(j)
  PROVE  CardAsked(k)'
  <1>1. asking \in [Symbols -> Nat] /\ found \in [Symbols -> Nat]
    BY DEF TypeOK
  <1>2. UNCHANGED <<toServer, cards>>
    BY DEF SelectSymbol, Join, pageVars
  <1>3. asking[k] > 0 \/ found[k] > 0 \/ k \in room \cup refused
          => asking'[k] > 0 \/ found'[k] > 0 \/ k \in (room \cup refused)'
    <2>1. CASE SelectSymbol(j)
      <3>1. room' = room
        BY <2>1 DEF SelectSymbol
      <3>2. CASE j = k
        <4>1. found'[k] = found[k] + 1 \/ k \in refused'
          BY <1>1, <2>1, <3>2 DEF SelectSymbol
        <4>. QED  BY <1>1, <4>1
      <3>3. CASE j # k
        <4>1. asking'[k] = asking[k]
          BY <1>1, <2>1, <3>3 DEF SelectSymbol
        <4>2. found'[k] = found[k] /\ (k \in refused => k \in refused')
          BY <1>1, <2>1, <3>3 DEF SelectSymbol
        <4>. QED  BY <3>1, <4>1, <4>2
      <3>. QED  BY <3>2, <3>3
    <2>2. CASE Join(j)
      <3>1. asking' = asking /\ refused' = refused /\ room' = room \cup {j}
        BY <2>2 DEF Join, joinSymbolRoom, historyVars
      <3>2. j # k => found'[k] = found[k]
        BY <1>1, <2>2 DEF Join
      <3>. QED  BY <3>1, <3>2
    <2>. QED  BY <2>1, <2>2
  <1>. QED  BY <1>2, <1>3 DEF CardAsked, LastIsSubscribe

LEMMA CardsAskedStep ==
  ASSUME TypeOK, CardsAreAsked, [Next]_vars
  PROVE  CardsAreAsked'
  <1>. SUFFICES ASSUME NEW k \in Symbols
                PROVE  CardAsked(k)'
    BY DEF CardsAreAsked, CardAsked, LastIsSubscribe
  <1>1. CardAsked(k)
    BY DEF CardsAreAsked, CardAsked
  <1>2. CASE TickerWrite
    BY <1>1, <1>2, CardAskedKept DEF TickerWrite, roomVars, pageVars
  <1>3. CASE Announce
    BY <1>1, <1>3, CardAskedKept DEF Announce, roomVars, pageVars
  <1>4. CASE WriteLost
    BY <1>1, <1>4, CardAskedKept DEF WriteLost, roomVars, pageVars, historyVars
  <1>5. CASE AdminUpdate
    BY <1>1, <1>5, CardAskedKept DEF AdminUpdate, roomVars, pageVars
  <1>6. CASE Receive
    BY <1>1, <1>6, ReceiveAsked
  <1>7. CASE PriceChanged
    <2>1. cards' = patch(cards, Head(toPage)[1], Head(toPage)[2]) /\ Head(toPage)[1] \in Symbols
          /\ Head(toPage)[2] \in Prices /\ cards \in Answers
      BY <1>7, HeadType DEF PriceChanged, upsertSymbolPrice, TypeOK
    <2>2. cards'[k] # None => cards[k] # None
      BY <2>1, PatchType
    <2>. QED  BY <1>1, <1>7, <2>2, CardAskedKept DEF PriceChanged, roomVars
  <1>8. ASSUME NEW j \in Symbols, SelectSymbol(j) \/ Join(j)
        PROVE  CardAsked(k)'
    BY <1>1, <1>8, SettleAsked
  <1>9. ASSUME NEW j \in Symbols, subscribe(j) \/ unsubscribe(j)
        PROVE  CardAsked(k)'
    BY <1>1, <1>9, EmitAsked
  <1>10. ASSUME NEW c \in Loads,
                loadClientSymbols(c) \/ ReadList(c) \/ ShowList(c) \/ LoadFails(c)
         PROVE  CardAsked(k)'
    <2>1. UNCHANGED <<toServer, asking, found, room, refused, cards>>
      BY <1>10 DEF loadClientSymbols, ReadList, ShowList, LoadFails, roomVars, historyVars
    <2>. QED  BY <1>1, <2>1, CardAskedKept
  <1>11. CASE UNCHANGED vars
    BY <1>1, <1>11, CardAskedKept DEF vars, roomVars, pageVars, historyVars
  <1>. QED
    BY <1>2, <1>3, <1>4, <1>5, <1>6, <1>7, <1>8, <1>9, <1>10, <1>11 DEF Next, Settle
-----------------------------------------------------------------------------
(* Updates.                                                                  *)

(* Where an update arrives last, or is still on its way.                     *)
LEMMA TakenUpdate ==
  ASSUME TypeOK, LastIsPrice, toPage # <<>>, toPage' = Tail(toPage), UNCHANGED <<price, heard>>,
         NEW k \in heard
  PROVE  /\ OnItsWay(k) =>
              OnItsWay(k)' \/ (Head(toPage)[1] = k /\ Head(toPage)[2] = price[k])
         /\ \A n \in DOMAIN toPage' :
              toPage'[n][1] = k /\ (\A m \in DOMAIN toPage' : m > n => toPage'[m][1] # k)
                => toPage'[n][2] = price[k]
  <1>1. toPage \in Seq(Symbols \X Prices)
    BY DEF TypeOK
  <1>2. /\ DOMAIN toPage \subseteq Nat /\ DOMAIN toPage' \subseteq Nat
        /\ 1 \in DOMAIN toPage /\ Head(toPage) = toPage[1]
        /\ \A n \in DOMAIN toPage' : n + 1 \in DOMAIN toPage /\ toPage'[n] = toPage[n + 1]
        /\ \A n \in DOMAIN toPage :
             n = 1 \/ (n > 1 /\ n - 1 \in DOMAIN toPage' /\ toPage'[n - 1] = toPage[n])
    BY <1>1, Taken
  <1>3. ASSUME NEW n \in DOMAIN toPage, toPage[n][1] = k, ~OnItsWay(k)'
        PROVE  Head(toPage)[1] = k /\ Head(toPage)[2] = price[k]
    <2>1. \A m \in DOMAIN toPage : m # 1 => toPage[m][1] # k
      BY <1>2, <1>3 DEF OnItsWay
    <2>2. n = 1 /\ \A m \in DOMAIN toPage : m > n => toPage[m][1] # k
      BY <1>2, <1>3, <2>1
    <2>. QED  BY <1>2, <1>3, <2>2 DEF LastIsPrice
  <1>4. ASSUME NEW n \in DOMAIN toPage', toPage'[n][1] = k,
               \A m \in DOMAIN toPage' : m > n => toPage'[m][1] # k
        PROVE  toPage'[n][2] = price[k]
    <2>1. n \in Nat /\ n + 1 \in DOMAIN toPage /\ toPage[n + 1] = toPage'[n]
      BY <1>2
    <2>2. \A m \in DOMAIN toPage : m > n + 1 => toPage[m][1] # k
      <3>1. SUFFICES ASSUME NEW m \in DOMAIN toPage, m > n + 1
                     PROVE  toPage[m][1] # k
        OBVIOUS
      <3>2. m \in Nat /\ m # 1
        BY <1>2, <2>1, <3>1
      <3>3. m - 1 \in DOMAIN toPage' /\ toPage'[m - 1] = toPage[m]
        BY <1>2, <3>2
      <3>4. m - 1 > n
        BY <2>1, <3>1, <3>2
      <3>. QED  BY <1>4, <3>3, <3>4
    <2>. QED  BY <1>4, <2>1, <2>2 DEF LastIsPrice
  <1>. QED  BY <1>3, <1>4 DEF OnItsWay

(* What is right about a symbol whose price has been announced.              *)
PlaceStands(k) ==
  /\ \A n \in DOMAIN toPage :
       toPage[n][1] = k /\ (\A m \in DOMAIN toPage : m > n => toPage[m][1] # k)
         => toPage[n][2] = price[k]
  /\ <<"card", k>> \in older \/ cards[k] \in {None, price[k]} \/ OnItsWay(k)
  /\ <<"row", k>> \in older \/ rows[k] \in {None, price[k]} \/ OnItsWay(k)
LoadsStand(k) ==
  \A c \in Loads : load[c] = "read" =>
    k \in updated[c] \/ answer[c][k] \in {None, price[k]} \/ OnItsWay(k)

LEMMA FeedInvIs ==
  FeedInv <=> SendingIsUnheard /\ \A k \in heard : PlaceStands(k) /\ LoadsStand(k)
  BY DEF FeedInv, LastIsPrice, AnswersCatchUp, CardsCatchUp, RowsCatchUp, UpToDate,
         PlaceStands, LoadsStand, OnItsWay

LEMMA PlaceKept ==
  ASSUME NEW k \in heard, PlaceStands(k), price'[k] = price[k],
         UNCHANGED <<toPage, cards, rows, older>>
  PROVE  PlaceStands(k)'
  BY DEF PlaceStands, OnItsWay

LEMMA LoadsKept ==
  ASSUME NEW k \in heard, LoadsStand(k), price'[k] = price[k],
         UNCHANGED <<toPage, load, answer, updated>>
  PROVE  LoadsStand(k)'
  BY DEF LoadsStand, OnItsWay

(* The announcement: a symbol joins the announced ones with its update under *)
(* way, the last of its updates.                                             *)
LEMMA AnnounceFeed ==
  ASSUME TypeOK, FeedInv, Announce
  PROVE  FeedInv'
  <1>1. PICK j \in Symbols, p \in Prices : j = sending[1] /\ p = sending[2]
    BY SendingType DEF Announce
  <1>2. j \notin heard /\ sending' = None
    BY <1>1, FeedInvIs DEF SendingIsUnheard, Announce
  <1>3. UNCHANGED <<price, cards, rows, older, load, answer, updated>>
    BY DEF Announce, pageVars
  <1>4. CASE j \notin room
    <2>1. UNCHANGED <<toPage, heard>>
      BY <1>1, <1>4 DEF Announce
    <2>2. \A k \in heard : PlaceStands(k)' /\ LoadsStand(k)'
      BY <1>3, <2>1, FeedInvIs, PlaceKept, LoadsKept
    <2>. QED
      BY <1>2, <2>1, <2>2 DEF FeedInv, LastIsPrice, AnswersCatchUp, CardsCatchUp, RowsCatchUp,
                              UpToDate, PlaceStands, LoadsStand, OnItsWay, SendingIsUnheard
  <1>5. CASE j \in room
    <2>1. /\ toPage' = Append(toPage, <<j, p>>)
          /\ heard' = IF price[j] = p THEN heard \cup {j} ELSE heard
      BY <1>1, <1>5 DEF Announce, emitSymbolPriceChanged
    <2>2. toPage \in Seq(Symbols \X Prices) /\ <<j, p>> \in Symbols \X Prices
      BY DEF TypeOK
    <2>3. PICK l \in Nat :
            /\ DOMAIN toPage' = DOMAIN toPage \cup {l}
            /\ toPage'[l] = <<j, p>>
            /\ \A n \in DOMAIN toPage : toPage'[n] = toPage[n] /\ n < l /\ n \in Nat
      BY <2>1, <2>2, Appended
    <2>4. ASSUME NEW k \in heard
          PROVE  PlaceStands(k)' /\ LoadsStand(k)'
      <3>1. k # j /\ PlaceStands(k) /\ LoadsStand(k)
        BY <1>2, FeedInvIs
      <3>2. OnItsWay(k) => OnItsWay(k)'
        BY <2>3 DEF OnItsWay
      <3>3. ASSUME NEW n \in DOMAIN toPage', toPage'[n][1] = k,
                   \A m \in DOMAIN toPage' : m > n => toPage'[m][1] # k
            PROVE  toPage'[n][2] = price[k]
        <4>1. n \in DOMAIN toPage /\ toPage[n] = toPage'[n]
          BY <2>3, <3>1, <3>3
        <4>2. \A m \in DOMAIN toPage : m > n => toPage[m][1] # k
          BY <2>3, <3>3
        <4>. QED  BY <3>1, <3>3, <4>1, <4>2 DEF PlaceStands
      <3>. QED  BY <1>3, <3>1, <3>2, <3>3 DEF PlaceStands, LoadsStand
    <2>5. ASSUME price[j] = p
          PROVE  PlaceStands(j)' /\ LoadsStand(j)'
      <3>1. OnItsWay(j)'
        BY <2>3 DEF OnItsWay
      <3>2. ASSUME NEW n \in DOMAIN toPage', \A m \in DOMAIN toPage' : m > n => toPage'[m][1] # j
            PROVE  toPage'[n][2] = price[j]
        <4>1. n = l
          BY <2>3, <3>2
        <4>. QED  BY <2>3, <2>5, <4>1
      <3>. QED  BY <1>3, <3>1, <3>2 DEF PlaceStands, LoadsStand
    <2>6. \A k \in heard' : PlaceStands(k)' /\ LoadsStand(k)'
      BY <2>1, <2>4, <2>5
    <2>. QED
      BY <1>2, <2>6 DEF FeedInv, LastIsPrice, AnswersCatchUp, CardsCatchUp, RowsCatchUp,
                        UpToDate, PlaceStands, LoadsStand, OnItsWay, SendingIsUnheard
  <1>. QED  BY <1>4, <1>5

(* The update arrives: what it leaves in the rows and the cards is the price *)
(* or there is a later one under way, and the loads that have read know it.  *)
LEMMA PriceChangedFeed ==
  ASSUME TypeOK, NEW k \in heard, LastIsPrice, PlaceStands(k), LoadsStand(k), PriceChanged
  PROVE  PlaceStands(k)' /\ LoadsStand(k)'
  <1>1. PICK j \in Symbols, p \in Prices : j = Head(toPage)[1] /\ p = Head(toPage)[2]
    BY HeadType DEF PriceChanged
  <1>2. /\ toPage # <<>> /\ toPage' = Tail(toPage)
        /\ UNCHANGED <<price, heard, load, answer>>
    BY DEF PriceChanged, serverVars
  <1>3. /\ OnItsWay(k) => OnItsWay(k)' \/ (j = k /\ p = price[k])
        /\ \A n \in DOMAIN toPage' :
             toPage'[n][1] = k /\ (\A m \in DOMAIN toPage' : m > n => toPage'[m][1] # k)
               => toPage'[n][2] = price[k]
    BY <1>1, <1>2, TakenUpdate
  <1>4. rows' = patch(rows, j, p) /\ cards' = patch(cards, j, p)
    BY <1>1 DEF PriceChanged, upsertSymbolPrice
  <1>5. rows \in Answers /\ cards \in Answers /\ k \in Symbols
    BY DEF TypeOK
  <1>6. /\ rows'[k] = IF k = j /\ rows[j] # None THEN p ELSE rows[k]
        /\ cards'[k] = IF k = j /\ cards[j] # None THEN p ELSE cards[k]
    BY <1>4, <1>5, PatchType
  <1>7. j # k => (<<"card", k>> \in older' <=> <<"card", k>> \in older)
                 /\ (<<"row", k>> \in older' <=> <<"row", k>> \in older)
    BY <1>1 DEF PriceChanged
  <1>8. j = k => OnItsWay(k)
    BY <1>1, <1>2, Taken DEF OnItsWay, TypeOK
  <1>9. PlaceStands(k)'
    <2>1. CASE OnItsWay(k)'
      BY <1>2, <1>3, <2>1 DEF PlaceStands
    <2>2. CASE ~OnItsWay(k)'
      <3>1. CASE j = k
        <4>1. p = price[k]
          BY <1>3, <1>8, <2>2, <3>1
        <4>2. rows'[k] \in {None, price[k]} /\ cards'[k] \in {None, price[k]}
          BY <1>6, <3>1, <4>1
        <4>. QED  BY <1>2, <1>3, <4>2 DEF PlaceStands
      <3>2. CASE j # k
        <4>1. ~OnItsWay(k)
          BY <1>3, <2>2, <3>2
        <4>2. rows'[k] = rows[k] /\ cards'[k] = cards[k]
          BY <1>6, <3>2
        <4>. QED  BY <1>2, <1>3, <1>7, <3>2, <4>1, <4>2 DEF PlaceStands
      <3>. QED  BY <3>1, <3>2
    <2>. QED  BY <2>1, <2>2
  <1>10. LoadsStand(k)'
    <2>1. SUFFICES ASSUME NEW c \in Loads, load[c] = "read"
                   PROVE  k \in updated'[c] \/ answer[c][k] \in {None, price[k]} \/ OnItsWay(k)'
      BY <1>2 DEF LoadsStand
    <2>2. updated'[c] = updated[c] \cup {j}
      BY <1>1, <2>1 DEF PriceChanged
    <2>. QED  BY <1>3, <2>1, <2>2 DEF LoadsStand
  <1>. QED  BY <1>9, <1>10

(* A card opens with what its row shows, up to date or older with it.        *)
LEMMA SubscribeFeed ==
  ASSUME TypeOK, NEW k \in heard, NEW j \in Symbols, PlaceStands(k), subscribe(j)
  PROVE  PlaceStands(k)'
  <1>1. UNCHANGED <<price, toPage, rows>>
    BY DEF subscribe, serverVars
  <1>2. cards' = [cards EXCEPT ![j] = rows[j]] /\ cards \in Answers /\ k \in Symbols
    BY DEF subscribe, TypeOK
  <1>3. <<"row", k>> \in older' <=> <<"row", k>> \in older
    BY DEF subscribe
  <1>4. CASE j = k
    <2>1. <<"card", k>> \in older' <=> <<"row", k>> \in older
      BY <1>4 DEF subscribe
    <2>2. cards'[k] = rows[k]
      BY <1>2, <1>4 DEF Answers
    <2>. QED  BY <1>1, <1>3, <2>1, <2>2 DEF PlaceStands, OnItsWay
  <1>5. CASE j # k
    <2>1. <<"card", k>> \in older' <=> <<"card", k>> \in older
      BY <1>5 DEF subscribe
    <2>2. cards'[k] = cards[k]
      BY <1>2, <1>5 DEF Answers
    <2>. QED  BY <1>1, <1>3, <2>1, <2>2 DEF PlaceStands, OnItsWay
  <1>. QED  BY <1>4, <1>5

(* The rows of an older answer replace newer ones, and are marked.           *)
LEMMA ShowListFeed ==
  ASSUME TypeOK, NEW k \in heard, NEW c \in Loads, PlaceStands(k), LoadsStand(k), ShowList(c)
  PROVE  PlaceStands(k)'
  <1>1. UNCHANGED <<price, toPage, cards>> /\ load[c] = "read" /\ rows' = answer[c]
    BY DEF ShowList, serverVars
  <1>2. /\ <<"card", k>> \in older => <<"card", k>> \in older'
        /\ k \in updated[c] => <<"row", k>> \in older'
    BY DEF ShowList
  <1>3. k \in updated[c] \/ rows'[k] \in {None, price[k]} \/ OnItsWay(k)
    BY <1>1 DEF LoadsStand
  <1>. QED  BY <1>1, <1>2, <1>3 DEF PlaceStands, OnItsWay

LEMMA EndLoadFeed ==
  ASSUME TypeOK, NEW k \in heard, NEW c \in Loads, LoadsStand(k), EndLoad(c),
         UNCHANGED <<price, toPage>>
  PROVE  LoadsStand(k)'
  <1>1. \A d \in Loads : load'[d] = "read" =>
          d # c /\ load[d] = "read" /\ answer'[d] = answer[d] /\ updated'[d] = updated[d]
    BY DEF EndLoad, TypeOK
  <1>. QED  BY <1>1 DEF LoadsStand, OnItsWay

LEMMA ReadListFeed ==
  ASSUME TypeOK, NEW k \in heard, NEW c \in Loads, LoadsStand(k), ReadList(c)
  PROVE  LoadsStand(k)'
  <1>1. UNCHANGED <<price, toPage, updated>> /\ k \in Symbols
    BY DEF ReadList, serverVars, historyVars, TypeOK
  <1>2. answer'[c][k] \in {None, price[k]}
    BY <1>1 DEF ReadList, selectManyAndCount, TypeOK
  <1>3. \A d \in Loads : d # c => load'[d] = load[d] /\ answer'[d] = answer[d]
    BY DEF ReadList, TypeOK
  <1>. QED  BY <1>1, <1>2, <1>3 DEF LoadsStand, OnItsWay

(* No other step makes a symbol an announced one.                            *)
LEMMA HeardShrinks ==
  ASSUME TypeOK, [Next]_vars, ~Announce
  PROVE  /\ heard' \subseteq heard
         /\ \A k \in heard' : price'[k] = price[k]
         /\ SendingIsUnheard => SendingIsUnheard'
  <1>0. heard \subseteq Symbols /\ price \in [Symbols -> Prices]
    BY DEF TypeOK
  <1>1. CASE TickerWrite
    <2>1. PICK j \in Symbols, p \in Prices :
            price' = [price EXCEPT ![j] = p] /\ sending' = <<j, p>> /\ heard' = heard \ {j}
      BY <1>1 DEF TickerWrite
    <2>. QED  BY <1>0, <2>1 DEF SendingIsUnheard
  <1>2. CASE AdminUpdate
    <2>1. PICK j \in Symbols :
            \/ heard' = heard \ {j} /\ \E p \in Prices : price' = [price EXCEPT ![j] = p]
            \/ UNCHANGED <<price, heard>>
      BY <1>2 DEF AdminUpdate
    <2>2. sending' = sending
      BY <1>2 DEF AdminUpdate
    <2>. QED  BY <1>0, <2>1, <2>2 DEF SendingIsUnheard
  <1>3. CASE WriteLost
    BY <1>3 DEF WriteLost, historyVars, SendingIsUnheard
  <1>4. CASE UNCHANGED <<price, heard, sending>>
    BY <1>4 DEF SendingIsUnheard
  <1>5. CASE UNCHANGED vars
    BY <1>4, <1>5 DEF vars, serverVars, historyVars
  <1>6. Next => TickerWrite \/ AdminUpdate \/ WriteLost \/ UNCHANGED <<price, heard, sending>>
    BY DEF Next, Settle, Receive, PriceChanged, SelectSymbol, Join, subscribe, unsubscribe,
           loadClientSymbols, ReadList, ShowList, LoadFails, serverVars, historyVars
  <1>. QED  BY <1>1, <1>2, <1>3, <1>4, <1>5, <1>6

LEMMA FeedStep ==
  ASSUME TypeOK, FeedInv, [Next]_vars
  PROVE  FeedInv'
  <1>1. CASE Announce
    BY <1>1, AnnounceFeed
  <1>2. CASE ~Announce
    <2>1. /\ heard' \subseteq heard
          /\ \A k \in heard' : price'[k] = price[k]
          /\ SendingIsUnheard'
      BY <1>2, HeardShrinks, FeedInvIs
    <2>2. SUFFICES ASSUME NEW k \in heard'
                   PROVE  PlaceStands(k)' /\ LoadsStand(k)'
      BY <2>1 DEF FeedInv, LastIsPrice, AnswersCatchUp, CardsCatchUp, RowsCatchUp,
                  UpToDate, PlaceStands, LoadsStand, OnItsWay, SendingIsUnheard
    <2>3. k \in heard /\ price'[k] = price[k] /\ PlaceStands(k) /\ LoadsStand(k) /\ LastIsPrice
      BY <2>1, <2>2, FeedInvIs DEF FeedInv
    <2>4. CASE TickerWrite \/ WriteLost \/ AdminUpdate
      BY <2>3, <2>4, PlaceKept, LoadsKept DEF TickerWrite, WriteLost, AdminUpdate, pageVars, historyVars
    <2>5. CASE Receive
      BY <2>3, <2>5, PlaceKept, LoadsKept DEF Receive, pageVars, historyVars
    <2>6. CASE PriceChanged
      BY <2>3, <2>6, PriceChangedFeed
    <2>7. ASSUME NEW j \in Symbols, Settle(j)
          PROVE  PlaceStands(k)' /\ LoadsStand(k)'
      BY <2>3, <2>7, PlaceKept, LoadsKept
         DEF Settle, SelectSymbol, Join, pageVars, historyVars
    <2>8. ASSUME NEW j \in Symbols, subscribe(j)
          PROVE  PlaceStands(k)' /\ LoadsStand(k)'
      <3>1. UNCHANGED <<toPage, load, answer, updated>>
        BY <2>8 DEF subscribe
      <3>. QED  BY <2>3, <2>8, <3>1, SubscribeFeed, LoadsKept
    <2>9. ASSUME NEW j \in Symbols, unsubscribe(j)
          PROVE  PlaceStands(k)' /\ LoadsStand(k)'
      <3>1. UNCHANGED <<toPage, load, answer, updated, rows, older>>
        BY <2>9 DEF unsubscribe, historyVars
      <3>2. cards'[k] = cards[k] \/ cards'[k] = None
        BY <2>3, <2>9 DEF unsubscribe, TypeOK, Answers
      <3>. QED  BY <2>3, <3>1, <3>2, LoadsKept DEF PlaceStands, OnItsWay
    <2>10. ASSUME NEW c \in Loads, loadClientSymbols(c)
           PROVE  PlaceStands(k)' /\ LoadsStand(k)'
      <3>1. UNCHANGED <<toPage, answer, updated, rows, cards, older>>
        BY <2>10 DEF loadClientSymbols, historyVars
      <3>2. \A d \in Loads : load'[d] = "read" => load[d] = "read"
        BY <2>10 DEF loadClientSymbols, TypeOK
      <3>. QED  BY <2>3, <3>1, <3>2, PlaceKept DEF LoadsStand, OnItsWay
    <2>11. ASSUME NEW c \in Loads, ReadList(c)
           PROVE  PlaceStands(k)' /\ LoadsStand(k)'
      <3>1. UNCHANGED <<toPage, rows, cards, older>>
        BY <2>11 DEF ReadList, historyVars
      <3>. QED  BY <2>3, <2>11, <3>1, PlaceKept, ReadListFeed
    <2>12. ASSUME NEW c \in Loads, ShowList(c)
           PROVE  PlaceStands(k)' /\ LoadsStand(k)'
      BY <2>3, <2>12, ShowListFeed, EndLoadFeed DEF ShowList, serverVars
    <2>13. ASSUME NEW c \in Loads, LoadFails(c)
           PROVE  PlaceStands(k)' /\ LoadsStand(k)'
      BY <2>3, <2>13, PlaceKept, EndLoadFeed DEF LoadFails, serverVars
    <2>14. CASE UNCHANGED vars
      BY <2>3, <2>14, PlaceKept, LoadsKept DEF vars, pageVars, historyVars
    <2>. QED
      BY <1>2, <2>4, <2>5, <2>6, <2>7, <2>8, <2>9, <2>10, <2>11, <2>12, <2>13, <2>14 DEF Next
  <1>. QED  BY <1>1, <1>2
-----------------------------------------------------------------------------
(* The theorems.                                                             *)
LEMMA LiveInit == Init => LiveInv
  <1>. SUFFICES ASSUME Init
                PROVE  LiveInv
    OBVIOUS
  <1>1. NoRows \in Answers
    BY DEF NoRows, Answers, Shown
  <1>2. TypeOK
    <2>1. toServer \in Seq(Requests) /\ toPage \in Seq(Symbols \X Prices)
      BY EmptySeq DEF Init
    <2>. QED  BY <1>1, <2>1 DEF Init, TypeOK
  <1>3. OnlyPublished
    BY DEF Init, OnlyPublished, NeverPublished, NoRows
  <1>4. CardsAreAsked
    BY DEF Init, CardsAreAsked, NoRows
  <1>5. FeedInv
    BY DEF Init, FeedInv, LastIsPrice, SendingIsUnheard, AnswersCatchUp, CardsCatchUp,
           RowsCatchUp, UpToDate
  <1>. QED  BY <1>2, <1>3, <1>4, <1>5 DEF LiveInv

LEMMA LiveInvariant == Spec => []LiveInv
  <1>1. LiveInv /\ [Next]_vars => LiveInv'
    BY LiveTypeStep, OnlyPublishedStep, CardsAskedStep, FeedStep DEF LiveInv
  <1>. QED  BY LiveInit, <1>1, PTL DEF Spec

(* The state of the feed and of the page is well formed.                     *)
THEOREM LiveTypeCorrect == Spec => []TypeOK
  <1>1. LiveInv => TypeOK
    BY DEF LiveInv
  <1>. QED  BY LiveInvariant, <1>1, PTL

(* Nothing of a symbol that was never public gets to the page, nor the page  *)
(* into its room: the query of the list, that of a subscription and the room *)
(* each keep it out (client-role selectManyAndCount, subscribeToSymbol).     *)
THEOREM NothingUnpublished == Spec => []NeverPublished
  <1>1. LiveInv => NeverPublished
    BY DEF LiveInv, OnlyPublished
  <1>. QED  BY LiveInvariant, <1>1, PTL

(* With its requests settled a card is in the room or was refused, for any   *)
(* number of requests under way (subscribe, subscribeToSymbol).              *)
THEOREM SettledCardsAreLive == Spec => []CardsAreLive
  <1>1. LiveInv => CardsAreLive
    <2>1. SUFFICES ASSUME CardsAreAsked, NEW k \in Symbols, cards[k] # None, Settled(k)
                   PROVE  k \in room \cup refused
      BY DEF LiveInv, CardsAreLive
    <2>2. ~LastIsSubscribe(k)
      BY <2>1 DEF Settled, LastIsSubscribe
    <2>3. asking[k] > 0 \/ found[k] > 0 \/ k \in room \cup refused
      BY <2>1, <2>2 DEF CardsAreAsked
    <2>. QED  BY <2>1, <2>3 DEF Settled
  <1>. QED  BY LiveInvariant, <1>1, PTL

(* When the last price written has been announced and every update has       *)
(* arrived, a card shows it, unless it was opened from an older row          *)
(* (upsertSymbolPrice, subscribe).                                           *)
THEOREM CardsAreUpToDate == Spec => []CardsCatchUp
  <1>1. LiveInv => CardsCatchUp
    BY DEF LiveInv, FeedInv
  <1>. QED  BY LiveInvariant, <1>1, PTL

(* So does a row, unless its list was read before an update and shown after  *)
(* it (upsertSymbolPrice, loadClientSymbols).                                *)
THEOREM RowsAreUpToDate == Spec => []RowsCatchUp
  <1>1. LiveInv => RowsCatchUp
    BY DEF LiveInv, FeedInv
  <1>. QED  BY LiveInvariant, <1>1, PTL
=============================================================================
