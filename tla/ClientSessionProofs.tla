------------------------ MODULE ClientSessionProofs -------------------------
(* Proofs about ClientSession, for any users, symbols and sockets and any    *)
(* overlap of the page's flows.                                              *)
EXTENDS ClientSession, TLAPS

USE NoneAssumption, ClientAssumption

(* What a socket that has not lost a connection has been asked for, or will  *)
(* be once it is connected.                                                  *)
ListIsBuffered ==
  ~dropped => /\ link = "up" => listed = asked
              /\ link = "connecting" => listed = buffer

(* The promise stands for the one refresh under way, and who waits for it    *)
(* may repeat its call.                                                      *)
PromiseIsKept ==
  /\ refreshing = (IF refreshPromise THEN 1 ELSE 0)
  /\ \A f \in Flows : at[f] = "waiting" => refreshPromise /\ retry[f]
-----------------------------------------------------------------------------
(* What a step does to the user and the socket ...                           *)
SocketShapes ==
  \/ UNCHANGED <<user, socketVars>>
  \/ (user' \in Users \cup {None} /\ disconnectSocket)
  \/ (user' \in Clients /\ connectSocket)
  \/ (UNCHANGED user /\ (Connected \/ Kicked \/ Dropped))
  \/ (UNCHANGED user /\ \E k \in Symbols : subscribe(k) \/ unsubscribe(k))

LEMMA SocketSteps ==
  ASSUME TypeOK, [Next]_vars
  PROVE  SocketShapes
<1>1. ASSUME NEW S, Conclude(S)
      PROVE  SocketShapes
  BY <1>1 DEF Conclude, ResetPage, SocketShapes
<1>2. ASSUME NEW f \in Flows, NEW u \in Users, ShowUser(f, u)
      PROVE  SocketShapes
  BY <1>2 DEF ShowUser, SocketShapes
<1>3. CASE Click
  BY <1>3 DEF Click, refreshProfile, login, logout, work, subscribe, unsubscribe,
              SocketShapes, socketVars
<1>4. ASSUME NEW f \in Flows, Answer(f)
      PROVE  SocketShapes
  <2>1. CASE Unauthorized(f) \/ WorkDone \/ ListLoaded(f)
    BY <2>1 DEF Unauthorized, WorkDone, ListLoaded, SocketShapes, socketVars
  <2>2. CASE Failed(f) \/ LoggedOut
    BY <1>1, <2>2 DEF Failed, LoggedOut
  <2>3. CASE ProfileLoaded
    BY <1>2, <2>3 DEF ProfileLoaded, Accepted, TypeOK, Flows
  <2>4. CASE LoggedIn
    BY <1>2, <2>4 DEF LoggedIn, Flows
  <2> QED BY <1>4, <2>1, <2>2, <2>3, <2>4 DEF Answer
<1>5. CASE Refresh
  BY <1>1, <1>5 DEF Refresh, Refreshed, RefreshFailed, SocketShapes, socketVars
<1>6. CASE Connected \/ Kicked \/ Dropped
  BY <1>6 DEF Connected, Kicked, Dropped, SocketShapes
<1>7. CASE UNCHANGED vars
  BY <1>7 DEF vars, socketVars, SocketShapes
<1> QED BY <1>3, <1>4, <1>5, <1>6, <1>7 DEF Next

(* ... and to the flows and their refresh.                                   *)
Sends(f) ==
  /\ UNCHANGED refreshVars
  /\ at[f] = "idle" \/ (at[f] = "sent" /\ ~second[f])
  /\ at[f] = "sent" => second'[f]
  /\ second'[f] \in BOOLEAN
  /\ who'[f] \in Users \cup {None}
  /\ Send(f, second'[f], TRUE, who'[f])
Ends(f) == UNCHANGED refreshVars /\ at[f] = "sent" /\ End({f})
RefreshEnds == RefreshSettles /\ End(Waiting)

FlowShapes ==
  \/ UNCHANGED <<at, second, retry, who, refreshVars>>
  \/ \E f \in Flows : Sends(f) \/ Ends(f) \/ Unauthorized(f)
  \/ Refreshed
  \/ RefreshEnds

LEMMA FlowSteps ==
  ASSUME TypeOK, [Next]_vars
  PROVE  FlowShapes
<1>1. CASE Click
  <2>1. CASE refreshProfile \/ login \/ logout \/ work
    <3>1. ASSUME NEW f \in Flows, at[f] = "idle", Send(f, FALSE, TRUE, jar),
                 UNCHANGED refreshVars
          PROVE  FlowShapes
      <4>1. second'[f] = FALSE /\ who'[f] = jar
        BY <3>1 DEF Send, TypeOK
      <4>2. Sends(f)
        BY <3>1, <4>1 DEF Sends, TypeOK
      <4> QED BY <4>2 DEF FlowShapes
    <3> QED BY <2>1, <3>1 DEF refreshProfile, login, logout, work, Flows
  <2>2. CASE \E k \in Symbols : subscribe(k) \/ unsubscribe(k)
    BY <2>2 DEF subscribe, unsubscribe, callVars, FlowShapes
  <2> QED BY <1>1, <2>1, <2>2 DEF Click
<1>2. ASSUME NEW f \in Flows, Answer(f)
      PROVE  FlowShapes
  <2>1. CASE Unauthorized(f)
    BY <2>1 DEF FlowShapes
  <2>2. CASE ListLoaded(f) \/ Failed(f) \/ (f = "logout" /\ LoggedOut)
    BY <2>2 DEF ListLoaded, Failed, LoggedOut, Accepted, Ends, FlowShapes
  <2>3. ASSUME at[f] = "sent", ~second[f], jar' \in Users \cup {None},
               Send(f, TRUE, TRUE, jar'), UNCHANGED refreshVars
        PROVE  FlowShapes
    <3>1. second'[f] = TRUE /\ who'[f] = jar'
      BY <2>3 DEF Send, TypeOK
    <3>2. Sends(f)
      BY <2>3, <3>1 DEF Sends
    <3> QED BY <3>2 DEF FlowShapes
  <2>4. CASE f = "profile" /\ ProfileLoaded
    BY <2>3, <2>4 DEF ProfileLoaded, ShowUser, Accepted, TypeOK
  <2>5. CASE f = "login" /\ LoggedIn
    BY <2>3, <2>5 DEF LoggedIn, ShowUser
  <2>6. CASE f = "work" /\ WorkDone
    BY <2>3, <2>6 DEF WorkDone, Accepted, Ends, FlowShapes, TypeOK
  <2> QED BY <1>2, <2>1, <2>2, <2>4, <2>5, <2>6 DEF Answer
<1>3. CASE Refresh
  BY <1>3 DEF Refresh, RefreshFailed, RefreshEnds, FlowShapes
<1>4. CASE Connected \/ Kicked \/ Dropped \/ UNCHANGED vars
  BY <1>4 DEF Connected, Kicked, Dropped, vars, callVars, FlowShapes
<1> QED BY <1>1, <1>2, <1>3, <1>4 DEF Next
-----------------------------------------------------------------------------
(* The socket and what it has been asked for.                                *)
SocketType ==
  /\ user \in Users \cup {None}
  /\ socket \in Sockets \cup {None}
  /\ live \subseteq Sockets
  /\ link \in {"none", "connecting", "up", "kicked"}
  /\ listed \subseteq Symbols
  /\ asked \subseteq Symbols
  /\ buffer \subseteq Symbols
  /\ dropped \in BOOLEAN
SocketInv == SocketType /\ OneSocket /\ ListIsBuffered

LEMMA SocketStep ==
  ASSUME TypeOK, SocketInv, [Next]_vars
  PROVE  SocketInv'
<1> USE DEF SocketInv, SocketType, OneSocket, ListIsBuffered
<1>1. CASE UNCHANGED <<user, socketVars>>
  BY <1>1 DEF socketVars, feedVars
<1>2. CASE user' \in Users \cup {None} /\ disconnectSocket
  BY <1>2 DEF disconnectSocket, clearSocketState
<1>3. CASE user' \in Clients /\ connectSocket
  BY <1>3 DEF connectSocket, clearSocketState
<1>4. CASE UNCHANGED user /\ (Connected \/ Kicked \/ Dropped)
  BY <1>4 DEF Connected, Kicked, Dropped
<1>5. CASE UNCHANGED user /\ \E k \in Symbols : subscribe(k) \/ unsubscribe(k)
  BY <1>5 DEF subscribe, unsubscribe, emit
<1> HIDE DEF SocketInv
<1> QED BY <1>1, <1>2, <1>3, <1>4, <1>5, SocketSteps DEF SocketShapes

(* The flows and their refresh.                                              *)
FlowType ==
  /\ at \in [Flows -> {"idle", "sent", "waiting"}]
  /\ second \in [Flows -> BOOLEAN]
  /\ retry \in [Flows -> BOOLEAN]
  /\ who \in [Flows -> Users \cup {None}]
  /\ refreshPromise \in BOOLEAN
  /\ refreshing \in Nat
  /\ refreshWho \in Users \cup {None}
FlowInv == FlowType /\ PromiseIsKept

(* What the end of a refresh and the end of flows leave of each flow.        *)
LEMMA EndFacts ==
  ASSUME FlowType, NEW S, End(S)
  PROVE  /\ at' \in [Flows -> {"idle", "sent", "waiting"}]
         /\ second' \in [Flows -> BOOLEAN]
         /\ retry' \in [Flows -> BOOLEAN]
         /\ who' \in [Flows -> Users \cup {None}]
         /\ \A f \in Flows \cap S : at'[f] = "idle"
         /\ \A f \in Flows \ S :
              at'[f] = at[f] /\ second'[f] = second[f] /\ retry'[f] = retry[f]
<1>1. at' \in [Flows -> {"idle", "sent", "waiting"}] /\ who' \in [Flows -> Users \cup {None}]
  BY DEF FlowType, End
<1>2. /\ \A f \in Flows \cap S : at'[f] = "idle"
      /\ \A f \in Flows \ S : at'[f] = at[f]
  BY DEF End
<1>3. second' \in [Flows -> BOOLEAN] /\ retry' \in [Flows -> BOOLEAN]
  <2>1. \A f \in Flows : (f \notin S /\ second[f]) \in BOOLEAN /\ (f \notin S /\ retry[f]) \in BOOLEAN
    OBVIOUS
  <2> QED BY <2>1, Zenon DEF End
<1>4. ASSUME NEW f \in Flows \ S
      PROVE  second'[f] = second[f] /\ retry'[f] = retry[f]
  <2>1. second[f] \in BOOLEAN /\ retry[f] \in BOOLEAN
    BY DEF FlowType
  <2>2. second'[f] = (f \notin S /\ second[f]) /\ retry'[f] = (f \notin S /\ retry[f])
    BY Zenon DEF End
  <2> QED BY <2>1, <2>2
<1> QED BY <1>1, <1>2, <1>3, <1>4

LEMMA RefreshedFacts ==
  ASSUME FlowType, Refreshed
  PROVE  /\ retry' \in [Flows -> BOOLEAN]
         /\ \A f \in Flows \cap Waiting : ~retry'[f]
         /\ \A f \in Flows \ Waiting : retry'[f] = retry[f]
<1>1. retry' \in [Flows -> BOOLEAN]
  <2>1. \A f \in Flows : RetryOnce(f) \in BOOLEAN
    BY DEF RetryOnce
  <2> QED BY <2>1, Zenon DEF Refreshed
<1>2. \A f \in Flows : retry'[f] = RetryOnce(f)
  BY Zenon DEF Refreshed
<1>3. \A f \in Flows : retry[f] \in BOOLEAN
  BY DEF FlowType
<1> QED BY <1>1, <1>2, <1>3 DEF RetryOnce

LEMMA FlowStep ==
  ASSUME TypeOK, FlowInv, [Next]_vars
  PROVE  FlowInv'
<1> USE DEF FlowInv, FlowType, PromiseIsKept
<1>1. CASE UNCHANGED <<at, second, retry, who, refreshVars>>
  BY <1>1 DEF refreshVars
<1>2. ASSUME NEW f \in Flows, Sends(f)
      PROVE  FlowInv'
  BY <1>2 DEF Sends, Send, refreshVars
<1>3. ASSUME NEW f \in Flows, Ends(f)
      PROVE  FlowInv'
  <2>1. End({f}) /\ UNCHANGED refreshVars
    BY <1>3 DEF Ends
  <2> QED BY <2>1, EndFacts DEF refreshVars
<1>4. ASSUME NEW f \in Flows, Unauthorized(f)
      PROVE  FlowInv'
  <2>1. jar \in Users \cup {None}
    BY DEF TypeOK
  <2>2. CASE refreshPromise
    BY <1>4, <2>2 DEF Unauthorized, refreshTokens, refreshVars
  <2>3. CASE ~refreshPromise
    BY <1>4, <2>1, <2>3 DEF Unauthorized, refreshTokens, StartRefresh
  <2> QED BY <2>2, <2>3
<1>5. CASE Refreshed
  <2>1. /\ retry' \in [Flows -> BOOLEAN]
        /\ \A f \in Flows \ Waiting : retry'[f] = retry[f]
    BY <1>5, RefreshedFacts
  <2>2. /\ at' \in [Flows -> {"idle", "sent", "waiting"}]
        /\ who' \in [Flows -> Users \cup {None}]
        /\ second' = second
        /\ \A f \in Flows : at'[f] # "waiting"
    BY <1>5 DEF Refreshed, Waiting
  <2>3. refreshing' = 0 /\ refreshPromise' = FALSE /\ refreshWho' = None
    BY <1>5 DEF Refreshed, RefreshSettles
  <2> QED BY <2>1, <2>2, <2>3
<1>6. CASE RefreshEnds
  <2>1. /\ at' \in [Flows -> {"idle", "sent", "waiting"}]
        /\ second' \in [Flows -> BOOLEAN]
        /\ retry' \in [Flows -> BOOLEAN]
        /\ who' \in [Flows -> Users \cup {None}]
        /\ \A f \in Flows : at'[f] # "waiting"
    BY <1>6, EndFacts DEF RefreshEnds, Waiting
  <2>2. refreshing' = 0 /\ refreshPromise' = FALSE /\ refreshWho' = None
    BY <1>6 DEF RefreshEnds, RefreshSettles
  <2> QED BY <2>1, <2>2
<1> HIDE DEF FlowInv
<1> QED BY <1>1, <1>2, <1>3, <1>4, <1>5, <1>6, FlowSteps DEF FlowShapes

LEMMA RestStep ==
  ASSUME TypeOK, [Next]_vars
  PROVE  jar' \in Users \cup {None} /\ booting' \in BOOLEAN
<1> USE DEF TypeOK
<1>1. CASE Click
  BY <1>1 DEF Click, refreshProfile, login, logout, work, subscribe, unsubscribe, callVars
<1>2. ASSUME NEW f \in Flows, Answer(f)
      PROVE  jar' \in Users \cup {None} /\ booting' \in BOOLEAN
  BY <1>2 DEF Answer, Unauthorized, ListLoaded, Failed, ProfileLoaded, LoggedIn,
              WorkDone, LoggedOut, ShowUser, End
<1>3. CASE Refresh
  BY <1>3 DEF Refresh, Refreshed, RefreshFailed, RefreshSettles, End
<1>4. CASE Connected \/ Kicked \/ Dropped \/ UNCHANGED vars
  BY <1>4 DEF Connected, Kicked, Dropped, vars, callVars
<1> QED BY <1>1, <1>2, <1>3, <1>4 DEF Next

LEMMA SessionInvHolds == Spec => [](TypeOK /\ SocketInv /\ FlowInv)
<1>1. Init => TypeOK /\ SocketInv /\ FlowInv
  <2> SUFFICES ASSUME Init PROVE TypeOK /\ SocketInv /\ FlowInv
    OBVIOUS
  <2>1. SocketInv /\ jar \in Users \cup {None} /\ booting \in BOOLEAN
    BY DEF Init, SocketInv, SocketType, OneSocket, ListIsBuffered
  <2>2. second \in [Flows -> BOOLEAN] /\ retry \in [Flows -> BOOLEAN]
    <3>1. \A f \in Flows : (f = "profile") \in BOOLEAN
      OBVIOUS
    <3> QED BY <3>1, Zenon DEF Init
  <2>3. FlowInv
    BY <2>2 DEF Init, FlowInv, FlowType, PromiseIsKept
  <2> QED BY <2>1, <2>3 DEF SocketInv, SocketType, FlowInv, FlowType, TypeOK
<1>2. SocketInv' /\ FlowInv' /\ jar' \in Users \cup {None} /\ booting' \in BOOLEAN
        => TypeOK'
  BY DEF SocketInv, SocketType, FlowInv, FlowType, TypeOK
<1>3. TypeOK /\ SocketInv /\ FlowInv /\ [Next]_vars => (TypeOK /\ SocketInv /\ FlowInv)'
  BY <1>2, SocketStep, FlowStep, RestStep
<1> QED BY <1>1, <1>3, PTL DEF Spec
-----------------------------------------------------------------------------
(* The state of the page has its type.                                       *)
THEOREM ClientTypeCorrect == Spec => []TypeOK
BY SessionInvHolds, PTL

(* One live socket at most, the one the page knows, and only for a client    *)
(* (connectSocket, disconnectSocket, logout, refreshProfile).                *)
THEOREM SocketIsOne == Spec => []OneSocket
BY SessionInvHolds, PTL DEF SocketInv

(* One refresh at a time, and nobody waits for none (refreshTokens).         *)
THEOREM RefreshIsOne == Spec => []RefreshIsShared
<1>1. TypeOK /\ FlowInv => RefreshIsShared
  BY DEF FlowInv, FlowType, PromiseIsKept, RefreshIsShared, Waiting
<1> QED BY <1>1, SessionInvHolds, PTL

(* A connection that never broke has been asked for what the page lists      *)
(* (subscribe, unsubscribe and what waits for the connection).               *)
THEOREM ListsAreAsked == Spec => []ListIsAsked
<1>1. SocketInv => ListIsAsked
  BY DEF SocketInv, ListIsBuffered, ListIsAsked
<1> QED BY <1>1, SessionInvHolds, PTL

(* Every step that touches a flow brings it closer to its end (api).         *)
THEOREM FlowsComeToAnEnd == Spec => FlowsEnd
<1> DEFINE Closer(f) == at[f] = "idle" \/ StepsLeft(f)' < StepsLeft(f)
                          \/ UNCHANGED <<at[f], second[f], retry[f]>>
<1>1. TypeOK /\ FlowInv /\ [Next]_vars => [\A f \in Flows : Closer(f)]_vars
  <2> SUFFICES ASSUME TypeOK, FlowInv, [Next]_vars
               PROVE  \A f \in Flows : Closer(f)
    OBVIOUS
  <2> USE DEF FlowInv, FlowType, PromiseIsKept, StepsLeft
  <2>1. CASE UNCHANGED <<at, second, retry, who, refreshVars>>
    BY <2>1
  <2>2. ASSUME NEW f \in Flows, Sends(f)
        PROVE  \A g \in Flows : Closer(g)
    <3>1. \A g \in Flows \ {f} : UNCHANGED <<at[g], second[g], retry[g]>>
      BY <2>2 DEF Sends, Send
    <3>2. at'[f] = "sent" /\ retry'[f]
      BY <2>2 DEF Sends, Send
    <3>3. CASE at[f] = "idle"
      BY <3>1, <3>3
    <3>4. CASE at[f] = "sent" /\ ~second[f] /\ second'[f]
      BY <3>1, <3>2, <3>4
    <3> QED BY <2>2, <3>3, <3>4 DEF Sends
  <2>3. ASSUME NEW f \in Flows, Ends(f)
        PROVE  \A g \in Flows : Closer(g)
    <3>1. at[f] = "sent" /\ End({f})
      BY <2>3 DEF Ends
    <3> QED BY <3>1, EndFacts
  <2>4. ASSUME NEW f \in Flows, Unauthorized(f)
        PROVE  \A g \in Flows : Closer(g)
    BY <2>4 DEF Unauthorized
  <2>5. CASE Refreshed
    <3>1. /\ second' = second
          /\ \A f \in Flows : at'[f] = (IF f \in Waiting THEN "sent" ELSE at[f])
      BY <2>5 DEF Refreshed
    <3> QED BY <2>5, <3>1, RefreshedFacts DEF Waiting
  <2>6. CASE RefreshEnds
    BY <2>6, EndFacts DEF RefreshEnds, Waiting
  <2> HIDE DEF FlowInv, Closer
  <2> QED BY <2>1, <2>2, <2>3, <2>4, <2>5, <2>6, FlowSteps DEF FlowShapes
<1> QED BY <1>1, SessionInvHolds, PTL DEF Spec, FlowsEnd
=============================================================================
