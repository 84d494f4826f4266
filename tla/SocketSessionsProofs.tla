------------------------ MODULE SocketSessionsProofs ------------------------
(* Proofs about SocketSessions for every value of its constants.             *)
EXTENDS SocketSessions, TLAPS

USE NoneAssumption

(* What makes MapIsExact inductive: a socket is named when its handshake     *)
(* ends, and one that is not open during it has raced.                       *)
HandshakesStand ==
  \A s \in Sockets :
    /\ conn[s] = "new" <=> hand[s] = "none"
    /\ hand[s] # "done" => data[s] = None
    /\ hand[s] \in {"select", "found", "missing"} =>
         cookie[s] \in Users /\ (conn[s] = "open" \/ s \in raced)

(* What makes RoomsFollowRequests inductive: a socket that has not connected *)
(* has asked for nothing, and a pending subscribe is wanted or overtaken.    *)
NewAreClean ==
  \A s \in Sockets, k \in Symbols : conn[s] = "new" =>
    sub[s][k] = "none" /\ k \notin wanted[s] /\ s \notin rooms[k]
PendingAreWanted ==
  \A s \in Sockets, k \in Symbols : conn[s] = "open" /\ sub[s][k] # "none" =>
    /\ s \in rooms[k] => k \in wanted[s]
    /\ k \in wanted[s] \/ <<s, k>> \in overtaken

RoomInv ==
  RoomsHoldOpenSockets /\ NewAreClean /\ PendingAreWanted /\ RoomsFollowRequests

(* A bucket is a set of sockets.                                             *)
LEMMA BucketType ==
  ASSUME TypeOK, NEW u \in Users
  PROVE  Bucket(u) \subseteq Sockets
  BY DEF TypeOK, Bucket
-----------------------------------------------------------------------------
(* Types.                                                                    *)

(* The map stays a map of buckets.                                           *)
LEMMA MapType ==
  ASSUME TypeOK, NEW u \in Users, NEW s \in Sockets
  PROVE  /\ addOne(u, s) \in [Users -> (SUBSET Sockets) \cup {None}]
         /\ removeOne(u, s) \in [Users -> (SUBSET Sockets) \cup {None}]
         /\ [usersSockets EXCEPT ![u] = None] \in [Users -> (SUBSET Sockets) \cup {None}]
  BY BucketType DEF TypeOK, addOne, removeOne

LEMMA CloseType ==
  ASSUME TypeOK, NEW S, Close(S)
  PROVE  /\ conn' \in [Sockets -> {"new", "open", "closed"}]
         /\ rooms' \in [Symbols -> SUBSET Sockets]
  BY DEF TypeOK, Close

(* Every step of one of the four shapes Next has.                            *)
LEMMA TypeStep ==
  ASSUME TypeOK, HandshakesStand, [Next]_vars
  PROVE  TypeOK'
  <1>1. CASE UNCHANGED vars
    BY <1>1 DEF TypeOK, vars, userVars, handVars, roomVars
  <1>2. ASSUME NEW s \in Sockets, Connect(s)
        PROVE  TypeOK'
    BY <1>2 DEF TypeOK, Connect, userVars, roomVars
  <1>3. ASSUME NEW s \in Sockets, HandshakeStep(s)
        PROVE  TypeOK'
    <2>1. CASE HandshakeSelect(s)
      BY <2>1 DEF TypeOK, HandshakeSelect, userVars, roomVars
    <2>2. CASE HandshakeAccept(s)
      <3>1. cookie[s] \in Users
        BY <2>2 DEF HandshakesStand, HandshakeAccept
      <3> QED
        BY <2>2, <3>1, MapType DEF TypeOK, HandshakeAccept, NameUser, userVars, roomVars
    <2>3. CASE HandshakeReject(s)
      BY <2>3, CloseType DEF TypeOK, HandshakeReject, Reject, userVars
    <2> QED BY <1>3, <2>1, <2>2, <2>3 DEF HandshakeStep
  <1>4. ASSUME NEW s \in Sockets, ClientGoes(s)
        PROVE  TypeOK'
    <2>1. handleDisconnect(s) \in [Users -> (SUBSET Sockets) \cup {None}]
      BY MapType DEF TypeOK, handleDisconnect
    <2> QED BY <1>4, <2>1, CloseType DEF TypeOK, ClientGoes, userVars
  <1>5. ASSUME NEW s \in Sockets, NEW k \in Symbols,
               Subscribe(s, k) \/ SubscribeStep(s, k) \/ Unsubscribe(s, k)
        PROVE  TypeOK'
    <2>1. UNCHANGED <<userVars, isPublic, handVars>>
      BY <1>5 DEF Subscribe, SubscribeStep, SubscribeSelect, SubscribeRefused,
         SubscribeJoin, Unsubscribe
    <2>2. sub' \in [Sockets -> [Symbols -> {"none", "select", "found"}]]
      <3>1. sub' = sub \/ \E v \in {"none", "select", "found"} : sub' = [sub EXCEPT ![s][k] = v]
        BY <1>5 DEF Subscribe, SubscribeStep, SubscribeSelect, SubscribeRefused,
           SubscribeJoin, Unsubscribe
      <3>2. sub[s] \in [Symbols -> {"none", "select", "found"}]
        BY DEF TypeOK
      <3>3. sub \in [Sockets -> [Symbols -> {"none", "select", "found"}]]
        BY DEF TypeOK
      <3>4. ASSUME NEW v \in {"none", "select", "found"}
            PROVE  [sub EXCEPT ![s][k] = v] \in [Sockets -> [Symbols -> {"none", "select", "found"}]]
        <4>1. [sub[s] EXCEPT ![k] = v] \in [Symbols -> {"none", "select", "found"}]
          BY <3>2
        <4> QED BY <3>3, <4>1
      <3> QED BY <3>1, <3>3, <3>4
    <2>3. rooms' \in [Symbols -> SUBSET Sockets]
      BY <1>5 DEF TypeOK, Subscribe, SubscribeStep, SubscribeSelect, SubscribeRefused,
         SubscribeJoin, Unsubscribe, joinSymbolRoom, leaveSymbolRoom
    <2>4. wanted' \in [Sockets -> SUBSET Symbols]
      BY <1>5 DEF TypeOK, Subscribe, SubscribeStep, SubscribeSelect, SubscribeRefused,
         SubscribeJoin, Unsubscribe
    <2>5. overtaken' \subseteq Sockets \X Symbols
      BY <1>5 DEF TypeOK, Subscribe, SubscribeStep, SubscribeSelect, SubscribeRefused,
         SubscribeJoin, Unsubscribe
    <2> QED BY <2>1, <2>2, <2>3, <2>4, <2>5 DEF TypeOK, userVars, handVars
  <1>6. ASSUME NEW u \in Users, DisableSocket(u) \/ DeleteSweep(u)
        PROVE  TypeOK'
    <2>1. Close({s \in Bucket(u) : conn[s] = "open"})
      BY <1>6 DEF DisableSocket, DeleteSweep, disconnectMany
    <2>2. usersSockets' \in [Users -> (SUBSET Sockets) \cup {None}]
      BY <1>6, MapType DEF DisableSocket, DeleteSweep, disconnectMany, TypeOK
    <2> QED
      BY <1>6, <2>1, <2>2, CloseType DEF TypeOK, DisableSocket, DeleteSweep, userVars
  <1>7. ASSUME NEW u \in Users, CreateUser(u) \/ DeleteRemove(u)
        PROVE  TypeOK'
    BY <1>7 DEF TypeOK, CreateUser, DeleteRemove, handVars, roomVars
  <1>8. ASSUME NEW k \in Symbols, Publish(k)
        PROVE  TypeOK'
    BY <1>8 DEF TypeOK, Publish, userVars, handVars, roomVars
  <1> QED
    BY <1>1, <1>2, <1>3, <1>4, <1>5, <1>6, <1>7, <1>8 DEF Next
-----------------------------------------------------------------------------
(* The map.                                                                  *)

MapInv == TypeOK /\ HandshakesStand /\ MapIsExact

LEMMA MapStep ==
  ASSUME MapInv, [Next]_vars
  PROVE  MapInv'
  <1> USE DEF MapInv
  <1>0. TypeOK'
    BY TypeStep
  <1> USE <1>0
  <1>1. CASE UNCHANGED handVars
    BY <1>1 DEF handVars, HandshakesStand, MapIsExact, Bucket
  <1>2. ASSUME NEW s \in Sockets, Connect(s)
        PROVE  MapInv'
    <2>1. HandshakesStand'
      BY <1>2 DEF TypeOK, Connect, HandshakesStand
    <2>2. data[s] = None
      BY <1>2 DEF Connect, HandshakesStand
    <2>3. MapIsExact'
      BY <1>2, <2>2, BucketType DEF TypeOK, Connect, MapIsExact, Bucket
    <2> QED BY <2>1, <2>3
  <1>3. ASSUME NEW s \in Sockets, HandshakeSelect(s)
        PROVE  MapInv'
    BY <1>3 DEF TypeOK, HandshakeSelect, HandshakesStand, MapIsExact, Bucket
  <1>4. ASSUME NEW s \in Sockets, HandshakeAccept(s)
        PROVE  MapInv'
    <2>1. cookie[s] \in Users /\ data[s] = None /\ (conn[s] = "open" \/ s \in raced)
      BY <1>4 DEF HandshakeAccept, HandshakesStand
    <2>2. HandshakesStand'
      BY <1>4 DEF TypeOK, HandshakeAccept, HandshakesStand, NameUser
    <2>3. \A r \in Sockets : data'[r] = IF r = s THEN cookie[s] ELSE data[r]
      BY <1>4 DEF TypeOK, HandshakeAccept, NameUser
    <2>4. \A u \in Users :
            /\ Bucket(u)' = IF u = cookie[s] THEN Bucket(u) \cup {s} ELSE Bucket(u)
            /\ usersSockets'[u] # {}
      <3> SUFFICES ASSUME NEW u \in Users
                   PROVE  /\ Bucket(u)' = IF u = cookie[s] THEN Bucket(u) \cup {s} ELSE Bucket(u)
                          /\ usersSockets'[u] # {}
        OBVIOUS
      <3>1. usersSockets' = [usersSockets EXCEPT ![cookie[s]] = Bucket(cookie[s]) \cup {s}]
        BY <1>4 DEF HandshakeAccept, addOne
      <3>2. CASE u = cookie[s]
        <4>1. usersSockets'[u] = Bucket(u) \cup {s}
          BY <2>1, <3>1, <3>2 DEF TypeOK
        <4>2. usersSockets'[u] # None
          BY <4>1, BucketType
        <4> QED BY <3>2, <4>1, <4>2 DEF Bucket
      <3>3. CASE u # cookie[s]
        BY <2>1, <3>1, <3>3 DEF TypeOK, Bucket, MapIsExact
      <3> QED BY <3>2, <3>3
    <2>5. MapIsExact'
      <3> HIDE <1>0
      <3>1. conn' = conn /\ raced' = raced
        BY <1>4 DEF HandshakeAccept
      <3>2. \A r \in Sockets, u \in Users :
              conn'[r] = "open" /\ data'[r] = u => r \in Bucket(u)'
        BY <2>1, <2>3, <2>4, <3>1 DEF MapIsExact
      <3>3. \A u \in Users : \A r \in Bucket(u)' :
              data'[r] = u /\ (conn'[r] = "open" \/ r \in raced')
        BY <2>1, <2>3, <2>4, <3>1, BucketType DEF MapIsExact
      <3>4. data' \in [Sockets -> Users \cup {None}]
        BY <1>0 DEF TypeOK
      <3> HIDE DEF MapInv
      <3> QED BY <2>4, <3>2, <3>3, <3>4 DEF MapIsExact, Bucket
    <2> QED BY <2>2, <2>5
  <1>5. ASSUME NEW s \in Sockets, HandshakeReject(s)
        PROVE  MapInv'
    <2>1. data[s] = None
      BY <1>5 DEF HandshakeReject, HandshakesStand
    <2>2. conn' = [r \in Sockets |-> IF r = s THEN "closed" ELSE conn[r]]
      BY <1>5 DEF HandshakeReject, Reject, Close
    <2>3. HandshakesStand'
      BY <1>5, <2>2 DEF TypeOK, HandshakeReject, HandshakesStand
    <2>4. MapIsExact'
      BY <1>5, <2>1, <2>2, BucketType DEF TypeOK, HandshakeReject, MapIsExact, Bucket
    <2> QED BY <2>3, <2>4
  <1>6. ASSUME NEW s \in Sockets, ClientGoes(s)
        PROVE  MapInv'
    <2>1. conn' = [r \in Sockets |-> IF r = s THEN "closed" ELSE conn[r]]
      BY <1>6 DEF ClientGoes, Close
    <2>2. HandshakesStand'
      BY <1>6, <2>1 DEF TypeOK, ClientGoes, HandshakesStand
    <2>3. \A u \in Users :
            /\ Bucket(u)' = Bucket(u) \ {s} \/ (Bucket(u)' = Bucket(u) /\ s \notin Bucket(u))
            /\ usersSockets'[u] # {}
      <3>1. CASE data[s] = None
        BY <1>6, <3>1 DEF ClientGoes, handleDisconnect, MapIsExact, Bucket
      <3>2. CASE data[s] # None
        <4>1. usersSockets' = removeOne(data[s], s) /\ data[s] \in Users
          BY <1>6, <3>2 DEF ClientGoes, handleDisconnect, TypeOK
        <4>2. \A u \in Users \ {data[s]} : s \notin Bucket(u)
          BY DEF MapIsExact
        <4> QED BY <4>1, <4>2 DEF removeOne, TypeOK, Bucket, MapIsExact
      <3> QED BY <3>1, <3>2
    <2>4. raced \subseteq raced'
      BY <1>6 DEF ClientGoes
    <2>5. MapIsExact'
      <3> HIDE <1>0
      <3>0. data' = data
        BY <1>6 DEF ClientGoes
      <3>1. \A r \in Sockets, u \in Users :
              conn'[r] = "open" /\ data'[r] = u => r \in Bucket(u)'
        BY <2>1, <2>3, <3>0 DEF MapIsExact
      <3>2. \A u \in Users : \A r \in Bucket(u)' :
              data'[r] = u /\ (conn'[r] = "open" \/ r \in raced')
        BY <2>1, <2>3, <2>4, <3>0, BucketType DEF MapIsExact
      <3>3. data' \in [Sockets -> Users \cup {None}]
        BY <1>0 DEF TypeOK
      <3> HIDE DEF MapInv
      <3> QED BY <2>3, <3>1, <3>2, <3>3 DEF MapIsExact, Bucket
    <2> QED BY <2>2, <2>5
  <1>7. ASSUME NEW u \in Users, DisableSocket(u) \/ DeleteSweep(u)
        PROVE  MapInv'
    <2> DEFINE swept == {s \in Bucket(u) : conn[s] = "open"}
    <2>1. /\ conn' = [r \in Sockets |-> IF r \in swept THEN "closed" ELSE conn[r]]
          /\ usersSockets' = [usersSockets EXCEPT ![u] = None]
          /\ UNCHANGED <<cookie, hand, data, raced>>
      BY <1>7 DEF DisableSocket, DeleteSweep, disconnectMany, Close
    <2>2. \A s \in swept : data[s] = u /\ hand[s] = "done"
      BY BucketType DEF MapIsExact, HandshakesStand
    <2> HIDE DEF swept
    <2>3. HandshakesStand'
      BY <2>1, <2>2 DEF TypeOK, HandshakesStand
    <2>4. \A v \in Users : /\ Bucket(v)' = IF v = u THEN {} ELSE Bucket(v)
                           /\ usersSockets'[v] # {}
      BY <2>1 DEF TypeOK, Bucket, MapIsExact
    <2>5. \A s \in Sockets : conn[s] = "open" /\ data[s] = u => s \in swept
      BY DEF MapIsExact, swept
    <2>6. MapIsExact'
      <3> HIDE <1>0
      <3>1. \A r \in Sockets, v \in Users :
              conn'[r] = "open" /\ data'[r] = v => r \in Bucket(v)'
        BY <2>1, <2>4, <2>5 DEF MapIsExact
      <3>2. \A v \in Users : \A r \in Bucket(v)' :
              data'[r] = v /\ (conn'[r] = "open" \/ r \in raced')
        BY <2>1, <2>2, <2>4, BucketType DEF MapIsExact
      <3>3. data' \in [Sockets -> Users \cup {None}]
        BY <1>0 DEF TypeOK
      <3> HIDE DEF MapInv
      <3> QED BY <2>4, <3>1, <3>2, <3>3 DEF MapIsExact, Bucket
    <2> QED BY <2>3, <2>6
  <1>8. ASSUME NEW s \in Sockets, NEW k \in Symbols,
               Subscribe(s, k) \/ SubscribeStep(s, k) \/ Unsubscribe(s, k)
        PROVE  UNCHANGED handVars
    BY <1>8 DEF Subscribe, SubscribeStep, SubscribeSelect, SubscribeRefused,
       SubscribeJoin, Unsubscribe
  <1>9. ASSUME NEW u \in Users, CreateUser(u) \/ DeleteRemove(u)
        PROVE  UNCHANGED handVars
    BY <1>9 DEF CreateUser, DeleteRemove
  <1>10. ASSUME NEW k \in Symbols, Publish(k)
         PROVE  UNCHANGED handVars
    BY <1>10 DEF Publish
  <1>11. CASE UNCHANGED vars
    BY <1>1, <1>11 DEF vars
  <1> QED
    BY <1>1, <1>2, <1>3, <1>4, <1>5, <1>6, <1>7, <1>8, <1>9, <1>10, <1>11
    DEF Next, HandshakeStep

LEMMA MapInit == Init => MapInv
  BY DEF Init, MapInv, TypeOK, HandshakesStand, MapIsExact, Bucket

(* MapInv holds in every reachable state.                                    *)
THEOREM MapInvariant == Spec => []MapInv
  BY MapInit, MapStep, PTL DEF Spec

(* The types of the variables, whatever the constants.                       *)
THEOREM SocketTypeCorrect == Spec => []TypeOK
  BY MapInvariant, PTL DEF MapInv

(* The map of the sockets service is exact up to the sockets that left       *)
(* during their handshake, for any number of users and sockets (addOne,      *)
(* removeOne, disconnectMany, handleConnection, handleDisconnect).           *)
THEOREM MapExact == Spec => []MapIsExact
  BY MapInvariant, PTL DEF MapInv

(* A sweep of disableSocket or deleteOne leaves no authenticated socket of   *)
(* its user connected (disconnectMany).                                      *)
THEOREM SweepComplete == Spec => SweepIsComplete
  <1>1. MapInv /\ [Next]_vars =>
          [\A u \in Users : DisableSocket(u) \/ DeleteSweep(u) =>
             \A s \in Sockets : data[s] = u => conn'[s] = "closed"]_vars
    <2> SUFFICES ASSUME MapInv, NEW u \in Users, DisableSocket(u) \/ DeleteSweep(u),
                        NEW s \in Sockets, data[s] = u
                 PROVE  conn'[s] = "closed"
      OBVIOUS
    <2>1. conn'[s] = IF s \in Bucket(u) /\ conn[s] = "open" THEN "closed" ELSE conn[s]
      BY DEF DisableSocket, DeleteSweep, disconnectMany, Close
    <2>2. data[s] # None
      BY DEF MapInv, TypeOK
    <2>3. conn[s] = "open" => s \in Bucket(u)
      BY <2>2 DEF MapInv, MapIsExact
    <2>4. conn[s] # "new"
      BY <2>2 DEF MapInv, HandshakesStand
    <2> QED BY <2>1, <2>3, <2>4 DEF MapInv, TypeOK
  <1> QED
    BY <1>1, MapInvariant, PTL DEF Spec, SweepIsComplete
-----------------------------------------------------------------------------
(* The rooms.                                                                *)

(* A socket that closes leaves its rooms and keeps what else it had.         *)
LEMMA CloseKeepsRooms ==
  ASSUME TypeOK, RoomInv, NEW S, Close(S), UNCHANGED <<sub, wanted, overtaken>>
  PROVE  RoomInv'
  <1>1. /\ \A s \in Sockets : conn'[s] = IF s \in S THEN "closed" ELSE conn[s]
        /\ \A k \in Symbols : rooms'[k] = rooms[k] \ S
    BY DEF Close
  <1>2. RoomsHoldOpenSockets'
    <2>1. \A k \in Symbols : rooms[k] \subseteq Sockets
      BY DEF TypeOK
    <2> QED BY <1>1, <2>1 DEF RoomInv, RoomsHoldOpenSockets
  <1>3. NewAreClean' /\ PendingAreWanted' /\ RoomsFollowRequests'
    BY <1>1 DEF RoomInv, NewAreClean, PendingAreWanted, RoomsFollowRequests
  <1> QED BY <1>2, <1>3 DEF RoomInv

(* One socket's subscription to one symbol changes: the others stay.         *)
LEMMA OneRoomChanges ==
  ASSUME TypeOK, RoomInv, UNCHANGED conn,
         NEW s \in Sockets, NEW k \in Symbols, conn[s] # "new",
         \A r \in Sockets, l \in Symbols : r # s \/ l # k =>
           /\ sub'[r][l] = sub[r][l]
           /\ l \in wanted'[r] <=> l \in wanted[r]
           /\ r \in rooms'[l] <=> r \in rooms[l]
           /\ <<r, l>> \in overtaken' <=> <<r, l>> \in overtaken,
         rooms' \in [Symbols -> SUBSET Sockets],
         s \in rooms'[k] => conn[s] = "open",
         conn[s] = "open" /\ sub'[s][k] # "none" =>
           /\ s \in rooms'[k] => k \in wanted'[s]
           /\ k \in wanted'[s] \/ <<s, k>> \in overtaken',
         conn[s] = "open" /\ sub'[s][k] = "none" =>
           /\ k \in wanted'[s] => s \in rooms'[k]
           /\ s \in rooms'[k] => k \in wanted'[s] \/ <<s, k>> \in overtaken'
  PROVE  RoomInv'
  <1>1. RoomsHoldOpenSockets'
    <2> SUFFICES ASSUME NEW l \in Symbols, NEW r \in rooms'[l]
                 PROVE  conn[r] = "open"
      BY DEF RoomsHoldOpenSockets
    <2>1. r \in Sockets
      OBVIOUS
    <2>2. r # s \/ l # k => r \in rooms[l]
      BY <2>1
    <2> QED BY <2>2 DEF RoomInv, RoomsHoldOpenSockets
  <1>2. NewAreClean'
    <2> SUFFICES ASSUME NEW r \in Sockets, NEW l \in Symbols, conn[r] = "new"
                 PROVE  sub'[r][l] = "none" /\ l \notin wanted'[r] /\ r \notin rooms'[l]
      BY DEF NewAreClean
    <2>1. r # s
      OBVIOUS
    <2>2. sub[r][l] = "none" /\ l \notin wanted[r] /\ r \notin rooms[l]
      BY DEF RoomInv, NewAreClean
    <2> QED BY <2>1, <2>2
  <1>3. PendingAreWanted'
    <2> SUFFICES ASSUME NEW r \in Sockets, NEW l \in Symbols,
                        conn[r] = "open", sub'[r][l] # "none"
                 PROVE  /\ r \in rooms'[l] => l \in wanted'[r]
                        /\ l \in wanted'[r] \/ <<r, l>> \in overtaken'
      BY DEF PendingAreWanted
    <2>1. CASE r = s /\ l = k
      BY <2>1
    <2>2. CASE r # s \/ l # k
      BY <2>2 DEF RoomInv, PendingAreWanted
    <2> QED BY <2>1, <2>2
  <1>4. RoomsFollowRequests'
    <2> SUFFICES ASSUME NEW r \in Sockets, NEW l \in Symbols,
                        conn[r] = "open", sub'[r][l] = "none"
                 PROVE  /\ l \in wanted'[r] => r \in rooms'[l]
                        /\ r \in rooms'[l] => l \in wanted'[r] \/ <<r, l>> \in overtaken'
      BY DEF RoomsFollowRequests
    <2>1. CASE r = s /\ l = k
      BY <2>1
    <2>2. CASE r # s \/ l # k
      BY <2>2 DEF RoomInv, RoomsFollowRequests
    <2> QED BY <2>1, <2>2
  <1> QED BY <1>1, <1>2, <1>3, <1>4 DEF RoomInv

LEMMA RoomStep ==
  ASSUME MapInv, RoomInv, [Next]_vars
  PROVE  RoomInv'
  <1>0. TypeOK /\ TypeOK'
    BY TypeStep DEF MapInv
  <1> USE <1>0
  <1>1. CASE UNCHANGED <<conn, roomVars>>
    BY <1>1 DEF roomVars, RoomInv, RoomsHoldOpenSockets, NewAreClean, PendingAreWanted,
       RoomsFollowRequests
  <1>2. ASSUME NEW s \in Sockets, Connect(s)
        PROVE  RoomInv'
    <2>1. /\ conn[s] = "new"
          /\ \A r \in Sockets \ {s} : conn'[r] = conn[r]
          /\ conn'[s] # "new"
          /\ UNCHANGED <<sub, rooms, wanted, overtaken>>
      BY <1>2 DEF Connect, roomVars, TypeOK
    <2>2. \A k \in Symbols : sub[s][k] = "none" /\ k \notin wanted[s] /\ s \notin rooms[k]
      BY <2>1 DEF RoomInv, NewAreClean
    <2>3. RoomsHoldOpenSockets'
      BY <2>1, <2>2 DEF RoomInv, RoomsHoldOpenSockets, TypeOK
    <2>4. NewAreClean' /\ PendingAreWanted' /\ RoomsFollowRequests'
      BY <2>1, <2>2 DEF RoomInv, NewAreClean, PendingAreWanted, RoomsFollowRequests
    <2> QED BY <2>3, <2>4 DEF RoomInv
  <1>3. ASSUME NEW s \in Sockets, HandshakeStep(s)
        PROVE  RoomInv'
    <2>1. CASE HandshakeSelect(s) \/ HandshakeAccept(s)
      BY <1>1, <2>1 DEF HandshakeSelect, HandshakeAccept
    <2>2. CASE HandshakeReject(s)
      BY <2>2, CloseKeepsRooms DEF HandshakeReject, Reject
    <2> QED BY <1>3, <2>1, <2>2 DEF HandshakeStep
  <1>4. ASSUME NEW s \in Sockets, ClientGoes(s)
        PROVE  RoomInv'
    BY <1>4, CloseKeepsRooms DEF ClientGoes
  <1>5. ASSUME NEW u \in Users, DisableSocket(u) \/ DeleteSweep(u)
        PROVE  RoomInv'
    BY <1>5, CloseKeepsRooms DEF DisableSocket, DeleteSweep, disconnectMany
  <1>6. ASSUME NEW u \in Users, CreateUser(u) \/ DeleteRemove(u)
        PROVE  RoomInv'
    BY <1>1, <1>6 DEF CreateUser, DeleteRemove, handVars
  <1>7. ASSUME NEW k \in Symbols, Publish(k)
        PROVE  RoomInv'
    BY <1>1, <1>7 DEF Publish, handVars
  <1>8. ASSUME NEW s \in Sockets, NEW k \in Symbols,
               Subscribe(s, k) \/ SubscribeStep(s, k) \/ Unsubscribe(s, k)
        PROVE  RoomInv'
    <2>1. UNCHANGED conn
      BY <1>8 DEF Subscribe, SubscribeStep, SubscribeSelect, SubscribeRefused,
         SubscribeJoin, Unsubscribe, handVars
    <2>2. \A l \in Symbols : conn[s] = "new" => sub[s][l] = "none"
      BY DEF RoomInv, NewAreClean
    <2>3. conn[s] # "new"
      BY <1>8, <2>2 DEF Subscribe, SubscribeStep, SubscribeSelect, SubscribeRefused,
         SubscribeJoin, Unsubscribe
    <2> DEFINE Rest(r, l) ==
                 /\ sub'[r][l] = sub[r][l]
                 /\ l \in wanted'[r] <=> l \in wanted[r]
                 /\ r \in rooms'[l] <=> r \in rooms[l]
                 /\ <<r, l>> \in overtaken' <=> <<r, l>> \in overtaken
               Pending ==
                 /\ s \in rooms'[k] => k \in wanted'[s]
                 /\ k \in wanted'[s] \/ <<s, k>> \in overtaken'
               Settled ==
                 /\ k \in wanted'[s] => s \in rooms'[k]
                 /\ s \in rooms'[k] => k \in wanted'[s] \/ <<s, k>> \in overtaken'
    <2>4. \A r \in Sockets, l \in Symbols : r # s \/ l # k => Rest(r, l)
      BY <1>8 DEF TypeOK, Subscribe, SubscribeStep, SubscribeSelect, SubscribeRefused,
         SubscribeJoin, Unsubscribe, joinSymbolRoom, leaveSymbolRoom
    <2>5. s \in rooms'[k] => conn[s] = "open"
      <3>1. s \in rooms[k] => conn[s] = "open"
        BY DEF RoomInv, RoomsHoldOpenSockets
      <3> QED
        BY <1>8, <3>1 DEF TypeOK, Subscribe, SubscribeStep, SubscribeSelect,
           SubscribeRefused, SubscribeJoin, Unsubscribe, joinSymbolRoom, leaveSymbolRoom
    <2>6. conn[s] = "open" =>
            /\ sub'[s][k] # "none" => Pending
            /\ sub'[s][k] = "none" => Settled
      <3> SUFFICES ASSUME conn[s] = "open"
                   PROVE  /\ sub'[s][k] # "none" => Pending
                          /\ sub'[s][k] = "none" => Settled
        OBVIOUS
      <3>1. sub[s][k] # "none" =>
              /\ s \in rooms[k] => k \in wanted[s]
              /\ k \in wanted[s] \/ <<s, k>> \in overtaken
        BY DEF RoomInv, PendingAreWanted
      <3>2. sub[s][k] = "none" =>
              /\ k \in wanted[s] => s \in rooms[k]
              /\ s \in rooms[k] => k \in wanted[s] \/ <<s, k>> \in overtaken
        BY DEF RoomInv, RoomsFollowRequests
      <3>3. CASE Subscribe(s, k)
        BY <3>2, <3>3 DEF TypeOK, Subscribe
      <3>4. CASE SubscribeSelect(s, k)
        BY <3>1, <3>4 DEF TypeOK, SubscribeSelect
      <3>5. CASE SubscribeRefused(s, k)
        BY <3>1, <3>5 DEF TypeOK, SubscribeRefused
      <3>6. CASE SubscribeJoin(s, k)
        BY <3>1, <3>6 DEF TypeOK, SubscribeJoin, joinSymbolRoom
      <3>7. CASE Unsubscribe(s, k)
        BY <3>1, <3>2, <3>7 DEF TypeOK, Unsubscribe, leaveSymbolRoom
      <3> QED BY <1>8, <3>3, <3>4, <3>5, <3>6, <3>7 DEF SubscribeStep
    <2>7. rooms' \in [Symbols -> SUBSET Sockets]
      BY DEF TypeOK
    <2> QED BY <2>1, <2>3, <2>4, <2>5, <2>6, <2>7, OneRoomChanges
  <1>9. CASE UNCHANGED vars
    BY <1>1, <1>9 DEF vars, handVars
  <1> QED
    BY <1>2, <1>3, <1>4, <1>5, <1>6, <1>7, <1>8, <1>9 DEF Next

LEMMA RoomInit == Init => RoomInv
  BY DEF Init, RoomInv, RoomsHoldOpenSockets, NewAreClean, PendingAreWanted,
     RoomsFollowRequests

LEMMA RoomInvariant == Spec => []RoomInv
  BY RoomInit, RoomStep, MapInvariant, PTL DEF Spec

(* The rooms follow the clients' requests, except where an unsubscribe       *)
(* overtook its subscribe, for any number of sockets and symbols             *)
(* (subscribeToSymbol, unsubscribeFromSymbol).                               *)
THEOREM RoomsFollow == Spec => []RoomsFollowRequests
  BY RoomInvariant, PTL DEF RoomInv

(* No closed socket is in a room, whatever its handlers were awaiting when   *)
(* it closed (joinSymbolRoom, disconnectMany, handleConnection).             *)
THEOREM RoomsHoldOpen == Spec => []RoomsHoldOpenSockets
  BY RoomInvariant, PTL DEF RoomInv
=============================================================================
