--------------------------- MODULE SocketSessions ---------------------------
(* The socket gateway, the map of sockets per user (SocketsService), the     *)
(* symbol rooms, and the administrator's requests that sweep a user's        *)
(* sockets.  socket.io delivers a client's messages in order, but a handler  *)
(* that awaits the store (handleConnection, subscribeToSymbol) lets later    *)
(* messages and the disconnection overtake it.                               *)
EXTENDS FiniteSets, Naturals

CONSTANTS
  Users,    \* user ids
  Sockets,  \* socket ids; an id is never reused
  Symbols,  \* provider symbols, each naming a room
  None      \* no user, or no bucket

ASSUME NoneAssumption == None \notin Users /\ \A S \in SUBSET Sockets : S # None

VARIABLES
  users,     \* users in the collection
  everUsed,  \* user ids ever given out
  deleting,  \* users whose sockets deleteOne has swept, not yet removed
  isPublic,  \* the stored symbols a client may see
  conn,      \* new, open or closed
  cookie,    \* the user the handshake's access token names, None if invalid
  hand,      \* where handleConnection stands for each socket
  data,      \* socket.data.user, or None
  usersSockets, \* SocketsService.usersSockets: a set of sockets, None if no key
  raced,     \* sockets that disconnected before their handshake ended
  sub,       \* where the subscribeToSymbol call for each room stands
  rooms,     \* the sockets in each room
  wanted,    \* the rooms each client asked to be in: neither left nor refused
  overtaken  \* <<socket, symbol>> unsubscribed while the subscribe was pending

userVars == <<users, everUsed, deleting>>
handVars == <<conn, cookie, hand, data, usersSockets, raced>>
roomVars == <<sub, rooms, wanted, overtaken>>
vars == <<userVars, isPublic, handVars, roomVars>>

TypeOK ==
  /\ users \subseteq everUsed
  /\ everUsed \subseteq Users
  /\ deleting \subseteq Users
  /\ isPublic \subseteq Symbols
  /\ conn \in [Sockets -> {"new", "open", "closed"}]
  /\ cookie \in [Sockets -> Users \cup {None}]
  /\ hand \in [Sockets -> {"none", "select", "found", "missing", "done"}]
  /\ data \in [Sockets -> Users \cup {None}]
  /\ usersSockets \in [Users -> (SUBSET Sockets) \cup {None}]
  /\ raced \subseteq Sockets
  /\ sub \in [Sockets -> [Symbols -> {"none", "select", "found"}]]
  /\ rooms \in [Symbols -> SUBSET Sockets]
  /\ wanted \in [Sockets -> SUBSET Symbols]
  /\ overtaken \subseteq Sockets \X Symbols
-----------------------------------------------------------------------------
(* SocketsService.                                                           *)

Bucket(u) == IF usersSockets[u] = None THEN {} ELSE usersSockets[u]

addOne(u, s) == [usersSockets EXCEPT ![u] = Bucket(u) \cup {s}]

\* The bucket goes with its last socket.
RemoveBucket(u, s) == [usersSockets EXCEPT ![u] = None]
removeOne(u, s) ==
  [usersSockets EXCEPT ![u] = IF Bucket(u) \ {s} = {} THEN None ELSE Bucket(u) \ {s}]

\* socket.io: a socket that closes leaves all its rooms.
Close(S) ==
  /\ conn' = [s \in Sockets |-> IF s \in S THEN "closed" ELSE conn[s]]
  /\ rooms' = [k \in Symbols |-> rooms[k] \ S]

\* handleDisconnect removes the socket from the map if the handshake has named
\* its user already.
handleDisconnect(s) ==
  IF data[s] = None THEN usersSockets ELSE removeOne(data[s], s)

\* disconnectMany: each socket of the bucket is disconnected (one that is gone
\* already ignores it) and its handleDisconnect runs; the bucket goes.
DisconnectAllButOne(u) ==
  /\ \E s \in Sockets : Close({r \in Bucket(u) : conn[r] = "open"} \ {s})
  /\ usersSockets' = [usersSockets EXCEPT ![u] = None]
disconnectMany(u) ==
  /\ Close({s \in Bucket(u) : conn[s] = "open"})
  /\ usersSockets' = [usersSockets EXCEPT ![u] = None]
-----------------------------------------------------------------------------
(* Connections.                                                              *)

\* handleConnection up to its query: without a valid token the socket is
\* disconnected at once.
Connect(s) ==
  /\ conn[s] = "new"
  /\ \E u \in everUsed \cup {None} :
       /\ cookie' = [cookie EXCEPT ![s] = u]
       /\ conn' = [conn EXCEPT ![s] = IF u = None THEN "closed" ELSE "open"]
       /\ hand' = [hand EXCEPT ![s] = IF u = None THEN "done" ELSE "select"]
  /\ UNCHANGED <<userVars, isPublic, data, usersSockets, raced, roomVars>>

\* The query finds the user, or does not (or the store fails).
HandshakeSelect(s) ==
  /\ hand[s] = "select"
  /\ \/ cookie[s] \in users /\ hand' = [hand EXCEPT ![s] = "found"]
     \/ hand' = [hand EXCEPT ![s] = "missing"]
  /\ UNCHANGED <<userVars, isPublic, conn, cookie, data, usersSockets, raced,
                 roomVars>>

\* The user goes to socket.data, the socket to the map.
NameBySocket(s) == [data EXCEPT ![s] = s]
NameUser(s) == [data EXCEPT ![s] = cookie[s]]

\* handleConnection after its query: nothing asks whether the socket is still
\* there.
HandshakeAccept(s) ==
  /\ hand[s] = "found"
  /\ hand' = [hand EXCEPT ![s] = "done"]
  /\ data' = NameUser(s)
  /\ usersSockets' = addOne(cookie[s], s)
  /\ UNCHANGED <<userVars, isPublic, conn, cookie, raced, roomVars>>

\* handleConnection's catch: report and disconnect.
ReportOnly(s) == UNCHANGED <<conn, rooms>>
Reject(s) == Close({s})
HandshakeReject(s) ==
  /\ hand[s] = "missing"
  /\ hand' = [hand EXCEPT ![s] = "done"]
  /\ Reject(s)
  /\ UNCHANGED <<userVars, isPublic, cookie, data, usersSockets, raced, sub, wanted,
                 overtaken>>

\* The client goes away.
ClientGoes(s) ==
  /\ conn[s] = "open"
  /\ Close({s})
  /\ usersSockets' = handleDisconnect(s)
  /\ raced' = IF hand[s] = "done" THEN raced ELSE raced \cup {s}
  /\ UNCHANGED <<userVars, isPublic, cookie, hand, data, sub, wanted, overtaken>>
-----------------------------------------------------------------------------
(* Rooms.                                                                    *)

\* subscribeToSymbol asks the store for a public symbol of that name.  Message
\* handlers are bound before the handshake has ended.
Subscribe(s, k) ==
  /\ conn[s] = "open"
  /\ sub[s][k] = "none"
  /\ sub' = [sub EXCEPT ![s][k] = "select"]
  /\ wanted' = [wanted EXCEPT ![s] = @ \cup {k}]
  /\ UNCHANGED <<userVars, isPublic, handVars, rooms, overtaken>>

SubscribeSelect(s, k) ==
  /\ sub[s][k] = "select"
  /\ k \in isPublic
  /\ sub' = [sub EXCEPT ![s][k] = "found"]
  /\ UNCHANGED <<userVars, isPublic, handVars, rooms, wanted, overtaken>>

\* There is no public symbol of that name, or the store fails: the client gets
\* an error, and stays in the room if it was there.
SubscribeRefused(s, k) ==
  /\ sub[s][k] = "select"
  /\ sub' = [sub EXCEPT ![s][k] = "none"]
  /\ wanted' = IF s \in rooms[k] THEN wanted ELSE [wanted EXCEPT ![s] = @ \ {k}]
  /\ overtaken' = overtaken \ {<<s, k>>}
  /\ UNCHANGED <<userVars, isPublic, handVars, rooms>>

\* joinSymbolRoom; a closed socket joins nothing.
JoinByName(s, k) == rooms' = [rooms EXCEPT ![k] = @ \cup {s}]
joinSymbolRoom(s, k) ==
  rooms' = IF conn[s] = "open" THEN [rooms EXCEPT ![k] = @ \cup {s}] ELSE rooms
SubscribeJoin(s, k) ==
  /\ sub[s][k] = "found"
  /\ sub' = [sub EXCEPT ![s][k] = "none"]
  /\ joinSymbolRoom(s, k)
  /\ UNCHANGED <<userVars, isPublic, handVars, wanted, overtaken>>

\* unsubscribeFromSymbol awaits nothing.
leaveNothing(s, k) == UNCHANGED rooms
leaveSymbolRoom(s, k) == rooms' = [rooms EXCEPT ![k] = @ \ {s}]
Unsubscribe(s, k) ==
  /\ conn[s] = "open"
  /\ leaveSymbolRoom(s, k)
  /\ wanted' = [wanted EXCEPT ![s] = @ \ {k}]
  /\ overtaken' = IF sub[s][k] = "none" THEN overtaken \ {<<s, k>>}
                                        ELSE overtaken \cup {<<s, k>>}
  /\ UNCHANGED <<userVars, isPublic, handVars, sub>>
-----------------------------------------------------------------------------
(* Administrator requests that matter here.                                  *)

CreateUser(u) ==
  /\ u \notin everUsed
  /\ users' = users \cup {u}
  /\ everUsed' = everUsed \cup {u}
  /\ UNCHANGED <<deleting, isPublic, handVars, roomVars>>

\* disableSocket, for any id.
DisableSocket(u) ==
  /\ disconnectMany(u)
  /\ UNCHANGED <<userVars, isPublic, cookie, hand, data, raced, sub, wanted,
                 overtaken>>

\* deleteOne sweeps the sockets, then asks the store to remove the user.
DeleteSweep(u) ==
  /\ u \notin deleting
  /\ disconnectMany(u)
  /\ deleting' = deleting \cup {u}
  /\ UNCHANGED <<users, everUsed, isPublic, cookie, hand, data, raced, sub, wanted,
                 overtaken>>

\* The store removes the user, or has none, or fails.
DeleteRemove(u) ==
  /\ u \in deleting
  /\ deleting' = deleting \ {u}
  /\ users' \in {users, users \ {u}}
  /\ UNCHANGED <<everUsed, isPublic, handVars, roomVars>>

\* A symbol is created public, published, hidden or deleted.
Publish(k) ==
  /\ isPublic' \in {isPublic \cup {k}, isPublic \ {k}}
  /\ UNCHANGED <<userVars, handVars, roomVars>>
-----------------------------------------------------------------------------
Init ==
  /\ users \in SUBSET Users
  /\ everUsed = users
  /\ deleting = {}
  /\ isPublic \in SUBSET Symbols
  /\ conn = [s \in Sockets |-> "new"]
  /\ cookie = [s \in Sockets |-> None]
  /\ hand = [s \in Sockets |-> "none"]
  /\ data = [s \in Sockets |-> None]
  /\ usersSockets = [u \in Users |-> None]
  /\ raced = {}
  /\ sub = [s \in Sockets |-> [k \in Symbols |-> "none"]]
  /\ rooms = [k \in Symbols |-> {}]
  /\ wanted = [s \in Sockets |-> {}]
  /\ overtaken = {}

HandshakeStep(s) == HandshakeSelect(s) \/ HandshakeAccept(s) \/ HandshakeReject(s)
SubscribeStep(s, k) ==
  SubscribeSelect(s, k) \/ SubscribeRefused(s, k) \/ SubscribeJoin(s, k)

Next ==
  \/ \E s \in Sockets :
       \/ Connect(s) \/ HandshakeStep(s) \/ ClientGoes(s)
       \/ \E k \in Symbols : Subscribe(s, k) \/ SubscribeStep(s, k) \/ Unsubscribe(s, k)
  \/ \E u \in Users :
       CreateUser(u) \/ DisableSocket(u) \/ DeleteSweep(u) \/ DeleteRemove(u)
  \/ \E k \in Symbols : Publish(k)

Spec == Init /\ [][Next]_vars

(* The driver answers every query, with a result or with an error.           *)
FairSpec ==
  /\ Spec
  /\ \A s \in Sockets :
       /\ WF_vars(HandshakeStep(s))
       /\ \A k \in Symbols : WF_vars(SubscribeStep(s, k))
-----------------------------------------------------------------------------
(* Properties.                                                               *)

(* The map holds every authenticated open socket under its user, and beside  *)
(* those only sockets that disconnected while their handshake was awaited;   *)
(* a user without sockets has no bucket (addOne, removeOne, disconnectMany). *)
MapIsExact ==
  /\ \A s \in Sockets : conn[s] = "open" /\ data[s] # None => s \in Bucket(data[s])
  /\ \A u \in Users : \A s \in Bucket(u) :
       data[s] = u /\ (conn[s] = "open" \/ s \in raced)
  /\ \A u \in Users : usersSockets[u] # {}

(* disableSocket and deleteOne leave no authenticated socket of the user     *)
(* connected.                                                                *)
SweepIsComplete ==
  [][\A u \in Users : DisableSocket(u) \/ DeleteSweep(u) =>
       \A s \in Sockets : data[s] = u => conn'[s] = "closed"]_vars

(* With no subscribe under way, an open socket is in the rooms its client    *)
(* asked for and has not left, and in no other, except in one it left while  *)
(* the subscribe was still awaited.                                          *)
RoomsFollowRequests ==
  \A s \in Sockets, k \in Symbols : conn[s] = "open" /\ sub[s][k] = "none" =>
    /\ k \in wanted[s] => s \in rooms[k]
    /\ s \in rooms[k] => k \in wanted[s] \/ <<s, k>> \in overtaken

(* Broadcasts go to rooms: no closed socket stays in one, also when it closed*)
(* while its subscribe was awaited.                                          *)
RoomsHoldOpenSockets ==
  \A k \in Symbols : \A s \in rooms[k] : conn[s] = "open"

(* A socket that was accepted is authenticated or disconnected in the end:   *)
(* none stays in between, where it may subscribe.                            *)
HandshakeEnds ==
  \A s \in Sockets : conn[s] = "open" ~> (data[s] # None \/ conn[s] = "closed")
=============================================================================
