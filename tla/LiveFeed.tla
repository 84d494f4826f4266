------------------------------ MODULE LiveFeed ------------------------------
(* What a client sees: prices written by the ticker chain or by the          *)
(* administrator, the room of the page's socket, the messages both ways, the *)
(* rows of the page's list and the cards of its subscriptions.  The socket   *)
(* stays connected; ClientSession is about losing it.                        *)
EXTENDS Naturals, Sequences, SequencesExt

CONSTANTS
  Symbols,  \* provider symbols
  Prices,   \* what a symbol is quoted at
  Loads,    \* loads of the list that can be under way at once
  WireMax,  \* bound: messages under way to the page, requests and queries of a symbol
  None      \* no row, no card, no price to announce

ASSUME WireAssumption == WireMax \in Nat \ {0}
ASSUME NoneAssumption == None \notin Prices \cup Symbols

VARIABLES
  price,    \* the stored prices, which the registry shares
  public,   \* the symbols that are public
  sending,  \* the quote the ticker chain has written and is about to announce
  room,     \* the rooms of the page's socket
  asking,   \* subscriptions that wait for their query, per symbol
  found,    \* those whose query has found the symbol public, per symbol
  toServer, \* requests under way, in order
  toPage,   \* updates under way, in order
  load,     \* what each load of the list waits for
  answer,   \* the rows it has read
  rows,     \* clientSymbols.items: the price each row shows
  cards,    \* subscriptionMap: the price each card shows
  published, \* symbols that have ever been public
  heard,    \* symbols whose stored price is the last one announced to the page
  refused,  \* symbols the server refused since they were last subscribed to
  updated,  \* per load, the symbols updated since it read
  older     \* symbols whose row, or card, an older answer has set

serverVars == <<price, public, sending>>
roomVars == <<room, asking, found>>
pageVars == <<load, answer, rows, cards>>
historyVars == <<published, heard, refused, updated, older>>
vars == <<serverVars, roomVars, toServer, toPage, pageVars, historyVars>>

Shown == Prices \cup {None}
Requests == {"SYMBOL:SUBSCRIBE", "SYMBOL:UNSUBSCRIBE"} \X Symbols
Answers == [Symbols -> Shown]
NoRows == [k \in Symbols |-> None]
TypeOK ==
  /\ price \in [Symbols -> Prices]
  /\ public \subseteq Symbols
  /\ sending \in (Symbols \X Prices) \cup {None}
  /\ room \subseteq Symbols
  /\ asking \in [Symbols -> Nat] /\ found \in [Symbols -> Nat]
  /\ toServer \in Seq(Requests)
  /\ toPage \in Seq(Symbols \X Prices)
  /\ load \in [Loads -> {"idle", "asked", "read"}]
  /\ answer \in [Loads -> Answers]
  /\ rows \in Answers /\ cards \in Answers
  /\ published \subseteq Symbols
  /\ heard \subseteq Symbols
  /\ refused \subseteq Symbols
  /\ updated \in [Loads -> SUBSET Symbols]
  /\ older \subseteq {"row", "card"} \X Symbols
-----------------------------------------------------------------------------
(* The server: prices and rooms.                                             *)

\* A quote that changes the price is stored; its announcement follows.  The price
\* it is compared with is the registry's, which may differ from the stored one
\* after a lost answer and is not kept here: any quote may be written.
TickerWrite ==
  /\ sending = None
  /\ \E k \in Symbols, p \in Prices :
       /\ price' = [price EXCEPT ![k] = p]
       /\ sending' = <<k, p>>
       /\ heard' = heard \ {k}
  /\ UNCHANGED <<public, roomVars, toServer, toPage, pageVars, refused, updated, older,
                 published>>

\* The price that was quoted goes to the sockets in the symbol's room, whatever
\* has been stored since.
EmitSwapped(k, p) == toPage' = Append(toPage, <<p, k>>)
EmitFirst(k, p) == toPage' = <<<<k, p>>>> \o toPage
emitSymbolPriceChanged(k, p) == toPage' = Append(toPage, <<k, p>>)
Announce ==
  /\ sending # None
  /\ sending' = None
  /\ LET k == sending[1]  p == sending[2] IN
       IF k \in room
         THEN /\ Len(toPage) < WireMax
              /\ emitSymbolPriceChanged(k, p)
              /\ heard' = IF price[k] = p THEN heard \cup {k} ELSE heard
         ELSE UNCHANGED <<toPage, heard>>
  /\ UNCHANGED <<price, public, roomVars, toServer, pageVars, refused, updated, older,
                 published>>

\* The answer to the write is an error: nothing is announced.
WriteLost ==
  /\ sending # None
  /\ sending' = None
  /\ UNCHANGED <<price, public, roomVars, toServer, toPage, pageVars, historyVars>>

\* The administrator sets a price, hides a symbol or shows it; nobody is told.
AdminUpdate ==
  /\ \E k \in Symbols :
       \/ /\ \E p \in Prices : p # price[k] /\ price' = [price EXCEPT ![k] = p]
          /\ heard' = heard \ {k}
          /\ UNCHANGED <<public, published>>
       \/ /\ public' = IF k \in public THEN public \ {k} ELSE public \cup {k}
          /\ published' = published \cup public'
          /\ UNCHANGED <<price, heard>>
  /\ UNCHANGED <<sending, roomVars, toServer, toPage, pageVars, refused, updated, older>>

\* A subscription waits for its query, an unsubscription for nothing.
DropRequest(k) == UNCHANGED <<asking, room>>
subscribeToSymbol(k) ==
  asking' = [asking EXCEPT ![k] = @ + 1] /\ UNCHANGED room
unsubscribeFromSymbol(k) == room' = room \ {k} /\ UNCHANGED asking
Receive ==
  /\ toServer # <<>>
  /\ toServer' = Tail(toServer)
  /\ LET k == Head(toServer)[2] IN
       IF Head(toServer)[1] = "SYMBOL:SUBSCRIBE" THEN subscribeToSymbol(k)
                                                 ELSE unsubscribeFromSymbol(k)
  /\ UNCHANGED <<serverVars, found, toPage, pageVars, historyVars>>

\* The query: a symbol that is hidden by now is refused, with an error that the
\* page does not listen to.
SelectSymbol(k) ==
  /\ asking[k] > 0
  /\ asking' = [asking EXCEPT ![k] = @ - 1]
  /\ IF k \in public
       THEN found' = [found EXCEPT ![k] = @ + 1] /\ UNCHANGED refused
       ELSE refused' = refused \cup {k} /\ UNCHANGED found
  /\ UNCHANGED <<published, serverVars, room, toServer, toPage, pageVars, heard, updated, older>>

JoinNothing(k) == room' = room
joinSymbolRoom(k) == room' = room \cup {k}
Join(k) ==
  /\ found[k] > 0
  /\ found' = [found EXCEPT ![k] = @ - 1]
  /\ joinSymbolRoom(k)
  /\ UNCHANGED <<serverVars, asking, toServer, toPage, pageVars, historyVars>>
-----------------------------------------------------------------------------
(* The page.                                                                 *)

emit(event, k) ==
  /\ Len(toServer) + asking[k] + found[k] < WireMax
  /\ toServer' = Append(toServer, <<event, k>>)

\* A card opens with the price of its row.
subscribe(k) ==
  /\ rows[k] # None
  /\ cards[k] = None
  /\ emit("SYMBOL:SUBSCRIBE", k)
  /\ cards' = [cards EXCEPT ![k] = rows[k]]
  /\ refused' = refused \ {k}
  /\ older' = {o \in older : o # <<"card", k>>}
                \cup {<<"card", k>> : r \in older \cap {<<"row", k>>}}
  /\ UNCHANGED <<published, serverVars, roomVars, toPage, load, answer, rows, heard, updated>>

unsubscribe(k) ==
  /\ cards[k] # None
  /\ emit("SYMBOL:UNSUBSCRIBE", k)
  /\ cards' = [cards EXCEPT ![k] = None]
  /\ UNCHANGED <<serverVars, roomVars, toPage, load, answer, rows, historyVars>>

\* An update is shown where there is a row and where there is a card.
patch(shown, k, p) == IF shown[k] = None THEN shown ELSE [shown EXCEPT ![k] = p]
PatchCard(k, p) == rows' = rows /\ cards' = patch(cards, k, p)
upsertSymbolPrice(k, p) == rows' = patch(rows, k, p) /\ cards' = patch(cards, k, p)
PriceChanged ==
  /\ toPage # <<>>
  /\ toPage' = Tail(toPage)
  /\ upsertSymbolPrice(Head(toPage)[1], Head(toPage)[2])
  /\ updated' = [c \in Loads |-> IF load[c] = "read" THEN updated[c] \cup {Head(toPage)[1]}
                                                    ELSE updated[c]]
  /\ older' = older \ {<<w, Head(toPage)[1]>> : w \in {"row", "card"}}
  /\ UNCHANGED <<published, serverVars, roomVars, toServer, load, answer, heard, refused>>

\* The list is asked for, read on the server, and shown.
loadClientSymbols(c) ==
  /\ load[c] = "idle"
  /\ load' = [load EXCEPT ![c] = "asked"]
  /\ UNCHANGED <<serverVars, roomVars, toServer, toPage, answer, rows, cards, historyVars>>

SelectAll == [k \in Symbols |-> price[k]]
selectManyAndCount == [k \in Symbols |-> IF k \in public THEN price[k] ELSE None]
ReadList(c) ==
  /\ load[c] = "asked"
  /\ load' = [load EXCEPT ![c] = "read"]
  /\ answer' = [answer EXCEPT ![c] = selectManyAndCount]
  /\ UNCHANGED <<serverVars, roomVars, toServer, toPage, rows, cards, historyVars>>

EndLoad(c) ==
  /\ load' = [load EXCEPT ![c] = "idle"]
  /\ answer' = [answer EXCEPT ![c] = NoRows]
  /\ updated' = [updated EXCEPT ![c] = {}]

\* It replaces the rows and no card.
ShowList(c) ==
  /\ load[c] = "read"
  /\ rows' = answer[c]
  /\ EndLoad(c)
  /\ older' = {o \in older : o[1] = "card"} \cup ({"row"} \X updated[c])
  /\ UNCHANGED <<published, serverVars, roomVars, toServer, toPage, cards, heard, refused>>

LoadFails(c) ==
  /\ load[c] # "idle"
  /\ EndLoad(c)
  /\ UNCHANGED <<published, serverVars, roomVars, toServer, toPage, rows, cards, heard, refused, older>>
-----------------------------------------------------------------------------
Init ==
  /\ price \in [Symbols -> Prices]
  /\ public \in SUBSET Symbols
  /\ sending = None
  /\ room = {}
  /\ asking = [k \in Symbols |-> 0]
  /\ found = [k \in Symbols |-> 0]
  /\ toServer = <<>>
  /\ toPage = <<>>
  /\ load = [c \in Loads |-> "idle"]
  /\ answer = [c \in Loads |-> NoRows]
  /\ rows = NoRows
  /\ cards = NoRows
  /\ published = public
  /\ heard = {}
  /\ refused = {}
  /\ updated = [c \in Loads |-> {}]
  /\ older = {}

Settle(k) == SelectSymbol(k) \/ Join(k)
Next ==
  \/ TickerWrite \/ Announce \/ WriteLost \/ AdminUpdate \/ Receive \/ PriceChanged
  \/ \E k \in Symbols : Settle(k) \/ subscribe(k) \/ unsubscribe(k)
  \/ \E c \in Loads : loadClientSymbols(c) \/ ReadList(c) \/ ShowList(c) \/ LoadFails(c)

Spec == Init /\ [][Next]_vars
\* Messages arrive, and the queries of subscriptions are answered.
FairSpec ==
  /\ Spec
  /\ WF_vars(Receive)
  /\ WF_vars(PriceChanged)
  /\ \A k \in Symbols : WF_vars(SelectSymbol(k)) /\ WF_vars(Join(k))
-----------------------------------------------------------------------------
(* Properties.                                                               *)

(* When the last price written has been announced to the page and no update  *)
(* is under way, the card and the row show it; but a row whose list was read *)
(* before the update and shown after it, or a card opened from such a row,   *)
(* may be older (upsertSymbolPrice, loadClientSymbols, subscribe).           *)
UpToDate(place, shown) ==
  \A k \in heard :
    \/ <<place, k>> \in older \/ shown[k] \in {None, price[k]}
    \/ \E n \in DOMAIN toPage : toPage[n][1] = k
CardsCatchUp == UpToDate("card", cards)
RowsCatchUp == UpToDate("row", rows)

(* With its requests settled a card is live, unless the server refused it:   *)
(* no earlier unsubscription, and no answer out of order, takes it out of    *)
(* its room (subscribe, subscribeToSymbol, unsubscribeFromSymbol).           *)
Settled(k) == asking[k] = 0 /\ found[k] = 0 /\ \A n \in DOMAIN toServer : toServer[n][2] # k
CardsAreLive ==
  \A k \in Symbols : cards[k] # None /\ Settled(k) => k \in room \cup refused

(* Whatever is hidden and shown again, nothing of a symbol that has never    *)
(* been public gets to the page, nor the page into its room                  *)
(* (client-role selectManyAndCount, subscribeToSymbol).                      *)
NeverPublished ==
  \A k \in Symbols \ published :
    /\ rows[k] = None /\ cards[k] = None /\ k \notin room
    /\ \A n \in DOMAIN toPage : toPage[n][1] # k

(* A subscription ends in the room, refused, or taken back.                  *)
SubscriptionSettles ==
  \A k \in Symbols : cards[k] # None ~> (k \in room \cup refused \/ cards[k] = None)
=============================================================================
