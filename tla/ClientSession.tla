---------------------------- MODULE ClientSession ---------------------------
(* The browser page (public/app.js): its API calls with their shared token   *)
(* refresh, the user it shows, its socket and its subscriptions.  Calls of   *)
(* different flows overlap; what a flow does once an answer is there runs to *)
(* the next await at once.                                                   *)
EXTENDS Naturals, FiniteSets

CONSTANTS
  Users,    \* user ids
  Clients,  \* those with the role CLIENT; the others are administrators
  Symbols,  \* provider symbols on the page
  Sockets,  \* socket objects
  None      \* nobody, or no socket

ASSUME NoneAssumption == None \notin Users \cup Sockets
ASSUME ClientAssumption == Clients \subseteq Users

(* profile: bootstrap or refreshProfile; login; logout; work: whatever else  *)
(* the page asks the API (saving, deleting, turning a page).  loadingProfile *)
(* and busy.auth allow one of each of the first two.                         *)
Flows == {"profile", "login", "logout", "work"}

VARIABLES
  user,       \* the user the page shows
  jar,        \* the user the cookies name
  at,         \* where the current API call of each flow stands
  second,     \* is the flow at the list it loads afterwards?
  retry,      \* may the call be repeated after a refresh?
  who,        \* the user whose cookies a call that was sent carries
  booting,    \* is bootstrap's profile flow under way?
  refreshPromise, \* is there one?
  refreshing, \* refresh requests under way
  refreshWho, \* the user whose cookies the last of them carries
  socket,     \* this.socket
  live,       \* the socket objects the page has not disconnected
  link,       \* state of the current socket
  listed,     \* subscribedSymbols
  asked,      \* subscriptions sent over the current connection
  buffer,     \* subscriptions that wait for the connection
  dropped     \* has the current socket lost its connection before?

callVars == <<at, second, retry, who, booting>>
refreshVars == <<refreshPromise, refreshing, refreshWho>>
feedVars == <<listed, asked, buffer, dropped>>
socketVars == <<socket, live, link, feedVars>>
vars == <<user, jar, callVars, refreshVars, socketVars>>

TypeOK ==
  /\ user \in Users \cup {None}
  /\ jar \in Users \cup {None}
  /\ at \in [Flows -> {"idle", "sent", "waiting"}]
  /\ second \in [Flows -> BOOLEAN]
  /\ retry \in [Flows -> BOOLEAN]
  /\ who \in [Flows -> Users \cup {None}]
  /\ booting \in BOOLEAN
  /\ refreshPromise \in BOOLEAN
  /\ refreshing \in Nat
  /\ refreshWho \in Users \cup {None}
  /\ socket \in Sockets \cup {None}
  /\ live \subseteq Sockets
  /\ link \in {"none", "connecting", "up", "kicked"}
  /\ listed \subseteq Symbols
  /\ asked \subseteq Symbols
  /\ buffer \subseteq Symbols
  /\ dropped \in BOOLEAN
-----------------------------------------------------------------------------
(* The socket.                                                               *)

\* A new, empty list of subscriptions, on a page without a connection.
KeepSocketState == UNCHANGED listed /\ asked' = {} /\ buffer' = {} /\ dropped' = FALSE
clearSocketState == listed' = {} /\ asked' = {} /\ buffer' = {} /\ dropped' = FALSE

disconnectSocket ==
  /\ socket' = None
  /\ live' = live \ {socket}
  /\ link' = "none"
  /\ clearSocketState

\* The previous socket is disconnected first.
ConnectAnother ==
  \E s \in Sockets \ live :
    /\ socket' = s
    /\ live' = live \cup {s}
    /\ link' = "connecting"
    /\ clearSocketState
connectSocket ==
  \E s \in Sockets \ (live \ {socket}) :
    /\ socket' = s
    /\ live' = (live \ {socket}) \cup {s}
    /\ link' = "connecting"
    /\ clearSocketState

\* The connection stands: what was emitted before is sent.
Connected ==
  /\ link = "connecting"
  /\ link' = "up"
  /\ asked' = buffer
  /\ buffer' = {}
  /\ UNCHANGED <<user, jar, callVars, refreshVars, socket, live, listed, dropped>>

\* The server disconnects it: the library does not reconnect.
Kicked ==
  /\ link = "up"
  /\ link' = "kicked"
  /\ asked' = {}
  /\ UNCHANGED <<user, jar, callVars, refreshVars, socket, live, listed, buffer,
                 dropped>>

\* The transport is lost: the library reconnects, the server has forgotten the
\* rooms, and no handler of the page asks for them again.
Dropped ==
  /\ link = "up"
  /\ link' = "connecting"
  /\ asked' = {}
  /\ dropped' = TRUE
  /\ UNCHANGED <<user, jar, callVars, refreshVars, socket, live, listed, buffer>>

\* emit sends, or waits for the connection.
emit(added, removed) ==
  IF link = "up" THEN asked' = (asked \cup added) \ removed /\ buffer' = buffer
                 ELSE buffer' = (buffer \cup added) \ removed /\ asked' = asked

subscribe(k) ==
  /\ user \in Clients
  /\ socket # None
  /\ k \notin listed
  /\ emit({k}, {})
  /\ listed' = listed \cup {k}
  /\ UNCHANGED <<user, jar, callVars, refreshVars, socket, live, link, dropped>>

unsubscribe(k) ==
  /\ user \in Clients
  /\ socket # None
  /\ k \in listed
  /\ emit({}, {k})
  /\ listed' = listed \ {k}
  /\ UNCHANGED <<user, jar, callVars, refreshVars, socket, live, link, dropped>>
-----------------------------------------------------------------------------
(* API calls.                                                                *)

\* fetch sends the call with the cookies of the moment.
Send(f, again, mayRetry, cookies) ==
  /\ at' = [at EXCEPT ![f] = "sent"]
  /\ second' = [second EXCEPT ![f] = again]
  /\ retry' = [retry EXCEPT ![f] = mayRetry]
  /\ who' = [who EXCEPT ![f] = cookies]

\* The flows in S end.
End(S) ==
  /\ at' = [f \in Flows |-> IF f \in S THEN "idle" ELSE at[f]]
  /\ second' = [f \in Flows |-> f \notin S /\ second[f]]
  /\ retry' = [f \in Flows |-> f \notin S /\ retry[f]]
  /\ who' = [f \in Flows |-> IF f \in S THEN None ELSE who[f]]
  /\ booting' = (booting /\ "profile" \notin S)

\* What the page does at the end of the flows in S, all of which but a logout
\* have failed: logout always, and refreshProfile when the profile itself did
\* not come, leave it without user and socket.
ResetPage == user' = None /\ disconnectSocket
Conclude(S) ==
  IF "logout" \in S \/ ("profile" \in S /\ ~second["profile"] /\ ~booting)
    THEN ResetPage
    ELSE UNCHANGED <<user, socketVars>>

\* A 401, because there are no cookies or because the token expired or was
\* revoked: the first one waits for a refresh, shared with whoever waits already.
StartRefresh ==
  /\ refreshPromise' = TRUE
  /\ refreshing' = refreshing + 1
  /\ refreshWho' = jar
refreshTokens == IF refreshPromise THEN UNCHANGED refreshVars ELSE StartRefresh
Unauthorized(f) ==
  /\ at[f] = "sent"
  /\ f # "login" \/ second[f]
  /\ retry[f]
  /\ refreshTokens
  /\ at' = [at EXCEPT ![f] = "waiting"]
  /\ who' = [who EXCEPT ![f] = None]
  /\ UNCHANGED <<user, jar, second, retry, booting, socketVars>>

Waiting == {f \in Flows : at[f] = "waiting"}

\* finally: the next 401 starts a refresh of its own.
RefreshSettles ==
  /\ refreshing > 0
  /\ refreshing' = refreshing - 1
  /\ refreshPromise' = FALSE
  /\ refreshWho' = None

\* The refresh succeeds: everybody who waited repeats the call.
RetryAgain(f) == f \in Waiting \/ retry[f]
RetryOnce(f) == f \notin Waiting /\ retry[f]
Refreshed ==
  /\ refreshWho # None
  /\ jar' = refreshWho
  /\ RefreshSettles
  /\ at' = [f \in Flows |-> IF f \in Waiting THEN "sent" ELSE at[f]]
  /\ retry' = [f \in Flows |-> RetryOnce(f)]
  /\ who' = [f \in Flows |-> IF f \in Waiting THEN refreshWho ELSE who[f]]
  /\ UNCHANGED <<user, second, booting, socketVars>>

\* It fails: everybody who waited fails with it.
RefreshFailed ==
  /\ RefreshSettles
  /\ End(Waiting)
  /\ Conclude(Waiting)
  /\ UNCHANGED jar
-----------------------------------------------------------------------------
(* The flows.  An answer is accepted with cookies only, but for login's own.  *)

Accepted(f) == at[f] = "sent" /\ who[f] # None

refreshProfile ==
  /\ at["profile"] = "idle"
  /\ Send("profile", FALSE, TRUE, jar)
  /\ UNCHANGED <<user, jar, booting, refreshVars, socketVars>>

login ==
  /\ at["login"] = "idle"
  /\ user = None
  /\ Send("login", FALSE, TRUE, jar)
  /\ UNCHANGED <<user, jar, booting, refreshVars, socketVars>>

logout ==
  /\ at["logout"] = "idle"
  /\ user # None
  /\ Send("logout", FALSE, TRUE, jar)
  /\ UNCHANGED <<user, jar, booting, refreshVars, socketVars>>

work ==
  /\ at["work"] = "idle"
  /\ user # None
  /\ Send("work", FALSE, TRUE, jar)
  /\ UNCHANGED <<user, jar, booting, refreshVars, socketVars>>

\* loadProfile and login, once they have the user: a client gets a socket, then
\* the lists are loaded.
ShowUser(f, u) ==
  /\ user' = u
  /\ IF u \in Clients THEN connectSocket ELSE disconnectSocket
  /\ Send(f, TRUE, TRUE, jar')
  /\ UNCHANGED <<booting, refreshVars>>

ProfileLoaded ==
  /\ Accepted("profile")
  /\ ~second["profile"]
  /\ jar' = jar
  /\ ShowUser("profile", who["profile"])

LoggedIn ==
  /\ at["login"] = "sent"
  /\ ~second["login"]
  /\ \E u \in Users : jar' = u /\ ShowUser("login", u)

\* work goes on to reload its list, or was only that.
WorkDone ==
  /\ Accepted("work")
  /\ ~second["work"]
  /\ \/ Send("work", TRUE, TRUE, jar) /\ booting' = booting
     \/ End({"work"})
  /\ UNCHANGED <<user, jar, refreshVars, socketVars>>

\* logout cleared the cookies.
LoggedOut ==
  /\ Accepted("logout")
  /\ jar' = None
  /\ End({"logout"})
  /\ Conclude({"logout"})
  /\ UNCHANGED refreshVars

\* A list is there.
ListLoaded(f) ==
  /\ Accepted(f)
  /\ second[f]
  /\ End({f})
  /\ UNCHANGED <<user, jar, refreshVars, socketVars>>

\* An answer that is an error, no answer, or a 401 to a call that may not be
\* repeated.
Failed(f) ==
  /\ at[f] = "sent"
  /\ End({f})
  /\ Conclude({f})
  /\ UNCHANGED <<jar, refreshVars>>
-----------------------------------------------------------------------------
(* mounted: bootstrap has sent for the profile of whoever the cookies name.   *)
Init ==
  /\ user = None
  /\ jar \in Users \cup {None}
  /\ at = [f \in Flows |-> IF f = "profile" THEN "sent" ELSE "idle"]
  /\ second = [f \in Flows |-> FALSE]
  /\ retry = [f \in Flows |-> f = "profile"]
  /\ who = [f \in Flows |-> IF f = "profile" THEN jar ELSE None]
  /\ booting = TRUE
  /\ refreshPromise = FALSE
  /\ refreshing = 0
  /\ refreshWho = None
  /\ socket = None
  /\ live = {}
  /\ link = "none"
  /\ listed = {}
  /\ asked = {}
  /\ buffer = {}
  /\ dropped = FALSE

Click == refreshProfile \/ login \/ logout \/ work
  \/ \E k \in Symbols : subscribe(k) \/ unsubscribe(k)
Refresh == Refreshed \/ RefreshFailed
Answer(f) ==
  \/ Unauthorized(f) \/ ListLoaded(f) \/ Failed(f)
  \/ f = "profile" /\ ProfileLoaded
  \/ f = "login" /\ LoggedIn
  \/ f = "work" /\ WorkDone
  \/ f = "logout" /\ LoggedOut

Next ==
  \/ Click
  \/ \E f \in Flows : Answer(f)
  \/ Refresh
  \/ Connected \/ Kicked \/ Dropped

Spec == Init /\ [][Next]_vars
-----------------------------------------------------------------------------
(* Properties.                                                               *)

(* However logins, profile answers and logouts overlap, the page holds on to *)
(* no socket but the one it knows, and to that only while it shows a client  *)
(* (connectSocket, disconnectSocket, logout, refreshProfile).                *)
OneSocket == live \subseteq {socket} /\ (live # {} => user \in Clients)

(* Calls that get a 401 at once share one refresh, and none waits for a      *)
(* refresh that is not under way.                                            *)
RefreshIsShared ==
  /\ refreshing <= 1
  /\ Waiting # {} => refreshing = 1

(* Until its connection breaks, a socket has been asked for exactly what the *)
(* page lists, whatever was clicked before it stood.                         *)
ListIsAsked == link = "up" /\ ~dropped => listed = asked

(* No flow refreshes for ever: whatever the other flows and their shared     *)
(* refresh do, each step that touches a flow brings it closer to its end. A  *)
(* call is repeated once, and only the profile, login and work have a second *)
(* call to make (api with retry: false, refreshTokens, loadProfile).         *)
StepsLeft(f) ==
  IF at[f] = "idle"
    THEN 0
    ELSE (IF second[f] THEN 0 ELSE 3)
           + (IF ~retry[f] THEN 1 ELSE IF at[f] = "waiting" THEN 2 ELSE 3)
FlowsEnd ==
  [][\A f \in Flows : at[f] = "idle" \/ StepsLeft(f)' < StepsLeft(f)
                      \/ UNCHANGED <<at[f], second[f], retry[f]>>]_vars

(* "live ticker subscriptions over Socket.IO": while the page is connected,  *)
(* the server knows the subscriptions it lists.                              *)
SubscriptionsAreLive == link = "up" => listed \subseteq asked
=============================================================================
