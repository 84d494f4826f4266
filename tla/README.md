# A verification project for symbols-backend

The repository is a NestJS service with a small browser client. It keeps a
MongoDB collection of tradable symbols, listens to one Binance mini-ticker
stream, writes every new price of a stored symbol back to the collection and
pushes it to the browser sockets subscribed to that symbol. Administrators
manage symbols and users over HTTP; users log in with a password and hold an
access and a refresh token in cookies. Seed commands fill both collections.

Paths below are those of the repository (`src/modules/...`); PROJECT.json maps
every definition to the lines it models.

## 1. Inventory

| part | state it keeps | operations | where it is hard | module |
|---|---|---|---|---|
| Symbol registry and Binance provider (`binance-provider.service.ts`) | `desiredSymbols`, the connection, the stream, the promise chain of ticker batches, the shutdown flag | bootstrap, registerSymbol, syncSymbol, unregisterSymbol, ticker batches, onModuleDestroy | a memory copy of a collection, kept by three kinds of writer that each await the store between reading and applying | `SymbolRegistry`, `PriceFeed` |
| Symbol requests (`symbols.controller.ts`, admin) | none; the `symbols` collection | create, update, delete | two awaits per request; updates read the old key before they write | `SymbolRegistry` |
| Store access (`common.service.ts`) | the collections | create, find, update, delete, find with count | error answers after the write was made; rows and count come from two queries | in all of them |
| Socket gateway and socket map (`sockets.gateway.ts`, `sockets.service.ts`) | `usersSockets`, rooms, `socket.data` | handshake, disconnect, subscribe, unsubscribe, price broadcast | handshake and subscribe await the store while the socket may go | `SocketSessions`, `LiveFeed` |
| User requests (`users.controller.ts`, admin) | the `users` collection | create, update, delete, disable-socket | delete disconnects first and deletes afterwards; what they store as a password | `SocketSessions`, `Seeding`, `PageLists` |
| Login and tokens (`auth.service.ts`, `auth.controller.ts`, `user-refresh-tokens.service.ts`, the JWT strategies and guards) | the `user_refresh_tokens` collection, cookies | login, refresh, logout, validation of both tokens | pruning reads and deletes in two operations; refresh creates a token and keeps the old one | `AuthSessions` |
| Attempt limit (`limit-attempts.guard.ts`) | counters with a time to live in the cache | canActivate | get and set are separate awaits | `LimitAttempts` |
| Browser client (`public/app.js`, `index.html`) | session, socket, subscriptions, lists, form, busy flags | login, refresh on 401, subscribe, reconnect; load, page, save, delete | single-flight refresh; the socket library reconnects without the rooms; only the submit button is ever disabled | `ClientSession`, `PageLists`, `LiveFeed` |
| Symbol requests of the client (`symbols.controller.ts`, client) | none | the list of public symbols | read before a live update and shown after it | `LiveFeed` |
| Seeds (`database/cli.ts`, `database/seeds`) | the collections | seed:all | look-up and write are two operations; other seeds and the administrator run beside it | `Seeding` |
| Configuration (`config.service.ts`) | values read from files and the environment | get with an initial value | the initial value wins over the variable | `Seeding` |
| Query options (`find-many-options.dto.ts`, `transform.helper.ts`) | none | skip, take, limit; order; projections | both ends of the last page | `PageLists` |
| DTOs, filters, pipes, interceptors, decorators, Swagger, module wiring | none | - | declarations | none |

What makes each part correct, in the order of importance:

1. *Registry*: with nothing under way it holds exactly the collection; each
   entry sits under its own key; what is broadcast is stored; one bad batch does
   not silence the feed; nothing is opened after shutdown.
2. *Sockets*: the map holds the connected, authenticated sockets of each user
   and no others; a disabled user keeps no socket; rooms follow the client's
   last request.
3. *Attempt limit*: at most `maxAttempts` in a window; nobody is locked without
   having earned it; a locked key opens again.
4. *Tokens*: a logged-out session validates nowhere; the tokens of a user stay
   bounded; a login answers with a token that is still there.
5. *Client*: one refresh at a time; what it shows as subscribed is subscribed;
   no flow repeats its call for ever.
6. *Lists*: the page shows the rows of its number; a form is not sent twice;
   the submit button comes back.
7. *Seeds*: a seed that ends has installed its entries, under unique keys, and
   has overwritten nothing else.
8. *Live prices*: with nothing under way the page shows the last price
   announced; nothing that was never public reaches a client.

PROJECT.json "hazards" lists what is hard to test, at its line.

## 2. How the project is built

Each module models one component, or the components that share the state in
question: `SymbolRegistry` composes registry, requests and ticker chain on one
collection, `Seeding` several processes on two, `LiveFeed` the ticker chain's
announcements, the gateway's rooms, both wires and the page. `PriceFeed` is the
abstract specification of the ticker chain; `SymbolRegistry` implements it.
`MC*` modules name the instances, the symmetry sets and, for `Seeding`, the
environment. `*Proofs` modules extend a component with its theorems.

What would come next, were the code to grow: the composition of `AuthSessions`
with `ClientSession` (the page's cookies are one user's name in the latter), and
an atomic registry that `SymbolRegistry` refines while nothing clashes, of which
`DivergenceIsInFlight` is the invariant form.

## 3. The modules and the code

Every `await` is a point where other code may run, so a handler is cut there:
the step that reaches the store and the step that runs on its answer are two
actions. Between two awaits JavaScript runs to completion, and that stretch is
one action. A request that fails before it changed anything is a stuttering step.

### SymbolRegistry

State: `stored` (the collection), `desired` (`desiredSymbols`), `boot`,
`snapshot`, `connection`, `stream`, `shuttingDown` (the fields and locals of
`bootstrap()` and `onModuleDestroy`), `heard`/`batch`/`entry`/`tick`/`subject`
(the promise chain: batches received, how far it is, the await it stands at and
the local `current`/`updated`), `pc`/`prev`/`held` (administrator requests),
`emit` (the last broadcast).

| action | code |
|---|---|
| `CreateInsert`, `CreateRegister` | `createOne` of the admin controller before and after the store's answer |
| `UpdateSelect`, `UpdateWrite`, `UpdateFail`, `UpdateSync` | `updateOne`: read the old key, write, sync |
| `DeleteRemove`, `DeleteUnregister` | `deleteOne` |
| `AnswerLost` | the write was made, its answer is an error |
| `BootSelect`, `BootLoad`, `BootConnect`, `BootFail` | `bootstrap`, `loadExistingSymbols`, `connect` |
| `Shutdown`, `Crash` | `onModuleDestroy`; the process dies and starts again with the store as it is |
| `StreamMessage` | `enqueueTickerBatch` |
| `StartBatch`, `SkipEntry`, `SendPrice`, `WritePrice`, `WriteRefused`, `WriteLost`, `Broadcast` | `handleTickerBatch` and `handleTickerEntry`, cut at their await |

The registry is *not* always in step with the collection: `registry_in_sync`
shows that overlapping actors can leave it wrong for good. To say exactly when
it is right, the model has one history variable, `clash`, set by `Endangers` at
each write that meets one of five overlaps: another answer for the document
under way; an answer about to drop the key it takes; a request that has read
the key it leaves; the ticker chain renaming a document back; bootstrap holding
an older copy. A lost answer sets it as well. `DivergenceIsInFlight` says that
*without* one of these the registry differs from the collection only where an
answer is under way. `Endangers` never looks at `desired`: the condition is
on the overlap, not on its outcome.

`PriceFeed` is what the chain promises to the outside: every broadcast is a
quote that was sent, in the order sent, at most once; quotes may be dropped, one
at a time or the rest of a batch together; every quote is settled in the end.
`Feed == INSTANCE PriceFeed WITH full <- ..., part <- ...` maps "idle behind
batch n" to "n batches settled".

### SocketSessions

State: `usersSockets`, `rooms`, `data` (`socket.data.user`), `conn`, `cookie`,
`hand` (where `handleConnection` stands), `sub` (where `subscribeToSymbol`
stands), `users`, `deleting`, `isPublic`; and three history variables, `raced`
(sockets that left during their handshake), `wanted` (rooms asked for), and
`overtaken` (unsubscribes that came while the subscribe was awaited).

`Connect`, `HandshakeSelect`, `HandshakeAccept`, `HandshakeReject` are
`handleConnection`; `ClientGoes` is the client leaving, with `handleDisconnect`;
`Subscribe`, `SubscribeSelect`, `SubscribeRefused`, `SubscribeJoin`,
`Unsubscribe` the two message handlers; `DisableSocket`, `DeleteSweep`,
`DeleteRemove`, `CreateUser` the administrator's requests; `Publish` any change
of which symbols clients may see. socket.io itself (a closed socket leaves its
rooms and joins none) is external, modelled from how the gateway uses it.

`MapIsExact` and `RoomsFollowRequests` name their exceptions. A socket that
disconnects while its handshake is awaited stays in the map for ever (`raced`),
and an unsubscribe sent after a subscribe can take effect before it
(`overtaken`): both are what the code does, and the properties say there is
nothing else.

### AuthSessions

State: `users`, `stored` (`user_refresh_tokens`), `owner`, `createdAt`, `jar`
(cookies), and per request `step`, `browser`, `pair`, `list` (what
`deleteOldRefreshTokens` selected). `stale`, `seen`, `unpruned` and `closed` are
history. An access and a refresh token name the same user and the same stored
token, so one pair stands for both; `createdAt` is the order of creation.

`Login`, `LoginCreate`, `LoginList`, `LoginPrune`, `Answer` are `createToken`
with `AuthService.login`; `Access`, `Refresh` and `Logout` are the requests
behind `JwtAuthGuard` and `JwtRefreshGuard`, each with the two lookups of its
strategy (`GuardUser`, `GuardToken`); `Fail` is every refusal, error, lost
answer or crash; `DeleteUser` the administrator.

### LimitAttempts

State: `counter` and `left` (the cache entry and the seconds it still stands),
per attempt `identifier` and `attempts` (the local of `canActivate`). `alone`,
`recent` (the ages of the last `maxAttempts + 1` attempts granted alone, newest
first: what a window of `ttlSeconds` holds) and `chain` are history.
`Get` is the read, `Refuse` and `Grant` what follows, `Second` the clock. The
cache is in memory: its answers come in microtasks, so attempts overlap only if they arrive together, all of these read
before the first one writes, and no time passes meanwhile (`deciding`).

### ClientSession

State: `user`, `jar`, `socket`, `live` (socket objects not disconnected),
`link`, `listed` (`subscribedSymbols`), `asked` (what the server was asked over
this connection), `buffer`, `refreshPromise` with the refreshes under way, and
per flow `at`, `second`, `retry`, `who`. The flows are the profile load, login,
logout, and whatever else asks the API; each has at most one call.
`Unauthorized`, `Refreshed` and `RefreshFailed` are the 401 path of `api` and
`refreshTokens`; `ShowUser` is the common end of `loadProfile` and `login`;
`Connected`, `Kicked`, `Dropped` are events of the socket library. What a flow
does when its answer is there, up to its next await, is one step.

`FlowsEnd` is a variant in the form of an action property: `StepsLeft` falls
with every step that touches a flow, another flow's refresh included, so no 401
makes the page ask for ever.

### PageLists

One list of the administrator's page, of symbols or of clients. State: `stored`
(the documents the list is of), `others` (clients that have been given another
role), `page`, `items`, `count` (the list shown), `busy`, `form`, and per call
`stage`, `target`, `asked`, `ready`, `rows`, `total`. `Turn` is a paging button
or the first load, `FindRows` and `CountRows` the two queries of `find`, `Show`
and `LoadFails` the answer; `submit`, `Save`, `Saved` and `delete`, `Delete`,
`Deleted` the two writing calls up to the reload they end in; `Failed` the error
path of a save (that of a deletion changes nothing); `edit`, `reset`, `logout`
what changes the form and the list at once; `Elsewhere` another administrator.

The page asks for the users in the role CLIENT and saves a user with a role, so
a save can take a row out of the list (`demote`) or bring it back (`restore`);
`enter` and `leave` are what that, `createOne` and `deleteOne` do to the list. A user
made with another role is new to the list only when it first becomes a client.
The list of symbols is the case in which nobody has another role.

The page sends no `asc` and no `desc`, so `sort` is empty and the rows come in
the order in which MongoDB finds them. The model assumes of it only that it does
not change from query to query: a document that comes in may appear anywhere,
and those that are there keep their order.

Every `finally` resets `busy`, whoever else is under way (`Release`): the history
variable `cleared` remembers the saves it happened to. `astray` says that the
last load failed or overlapped another, or that rows came or went since it began
(or were cleared by a logout). `skip` and `lastPage` are the arithmetic of the
DTO and of the page.

### Seeding

`seed:all` runs three seeds one after the other, which here are the entries of
one process: two users, then the symbols of the list. State: `stored` (both
collections; a document is its unique key and a body), and per seed `stage`,
`at` (its entry), `found` (`existing`). `Select` is the look-up, whose error
counts as "not there"; `CreateOrUpdate` and `Refused` the write; `Fail` a failing
store or a dying process, before or after the write; `AdminCreate`,
`AdminUpdate`, `AdminDelete` the requests of a server beside it. `disturbed` and
`failed` are history. `get` is `ConfigService.get` with an initial value, which
wins: the unique index and the e-mails of the two default users depend on it. A
password is typed text or a hash of it (`hash`), which `validatePassword` can
tell apart.

### LiveFeed

State: `price`, `public`, `sending` (the quote between its write and its
announcement), `room`, `asking`/`found` (subscriptions at their two points of
waiting), `toServer` and `toPage` (messages under way, in order), `load`,
`answer`, `rows`, `cards`. `TickerWrite` and `Announce` are the two halves of
`handleTickerEntry`, `Receive`, `SelectSymbol`, `Join` the gateway's handlers,
`subscribe`, `unsubscribe`, `PriceChanged` (`upsertSymbolPrice`) and the load of
the list the page. The administrator's price changes are announced to nobody,
which is why `heard` holds the symbols whose stored price is the one announced
last. The code writes a quote if it differs from the registry's price, which is
not kept here and may differ from the stored one after a lost answer or an
administrator's update: any quote may be written, an unchanged one too.

## 4. The runs

| run | states | what it shows |
|---|---|---|
| `registry_races` | 2.5 million | two requests, two ids, two keys, bootstrap, shutdown, one batch with both keys: keys match entries, divergence is in flight, broadcasts are stored, no stream after shutdown |
| `registry_feed` | 640 thousand | one document, two batches with two prices, an empty one and a price that is no number, failing stores, a crash: the chain implements `PriceFeed` with fairness, every batch settles, the reloaded registry is right again |
| `registry_in_sync` | violation | see the findings |
| `socket_map` | 135 thousand | a user, two sockets, one room: map, rooms and sweeps; handshakes end |
| `auth_sessions` | 1.2 million | two users, browsers and calls, three tokens: revoked means refused, logout ends the session, pruning bounds the tokens and answers live ones |
| `client_page` | 880 thousand | two symbols, two sockets, a client and an administrator: one socket, one refresh, list and server agree until the connection breaks, every flow moves towards its end |
| `client_reconnect` | violation | see the findings |
| `limit_attempts` | 230 thousand | two identifiers, two attempts together, limit and time to live of three: window, lock and its end |
| `page_lists` | 2.9 million | three ids, two rows a page, two calls, changes of role and another administrator: the page shown, one save at a time, busy has an owner |
| `seeding` | 370 thousand | two seeds, two users and a symbol, an administrator, failures: entries installed, keys unique, one seed gets through, nothing else overwritten |
| `accounts_login` | violation | see the findings |
| `live_feed` | 328 thousand | one symbol at two prices, two updates and two requests under way, one load: cards and rows catch up, cards are live, nothing unpublished gets out |

### Bounds, and why they are enough

- *Registry*. A wrong registry needs two actors and one document, or two
  documents and one key; both fit in two ids, two keys and two requests. Ids are
  never reused, so a request deletes and creates another document, not the same
  one again. `MaxBatches` is 1 with two requests, 2 where order between batches
  matters (`registry_feed`). `MaxCrashes = 1`: a crash forgets everything but
  the store, and `Init` already allows any store. Prices matter only as equal or
  different: two of them suffice.
- *Sockets*. A race is between one socket and a sweep, or two sockets in one
  bucket (the bucket must survive the first and go with the last). Nothing in
  the map relates two users; the theorems hold for any number of them.
- *Tokens*. `MaxTokens` is 1 instead of 10: pruning goes by rank only, and three
  tokens let two logins overlap and a refresh add one. Two calls are the least
  that race; the theorems hold for any number.
- *Client*. One client and one administrator, since a user of either role may
  replace the other; two sockets, the one before and the one after; one call per
  flow.
- *Attempts*. Two together show an overlap; a limit and a time to live of three
  are the least where a counter is renewed twice inside a window.
- *Lists*. Two rows a page and three ids give an empty list, a full page, a
  second page and a page emptied by a deletion. Two calls are a save or a deletion
  beside a load, or two of either. `MaxOthers = 1`: one client at a time has another
  role, which moves the rows of both pages; another administrator takes a role
  away but gives none back, which this page's form does. The theorems hold for any
  `MaxOthers`.
- *Seeds*. Two seeds, the three kinds of entry, and one id more than entries, so
  that a document can be deleted and created again. The variable is set to an
  address that is neither default and the index is "switched off", the setting
  under which a `get` that read it would go wrong.
- *Live prices*. Symbols do not meet, so there is one. `WireMax = 2` bounds the
  updates under way to the page, and the requests of a symbol that have not taken
  effect, on the wire or in their query: a subscription and what overtakes it. A
  third only waits behind them.

TLC uses symmetry only in runs without liveness. Deadlock is checked where the
program never stops (sockets, page, lists, attempts, live prices). The registry
may be shut down with every id used, all users of `AuthSessions` may be removed,
and ids of `Seeding` run out, so there it is not.

### Fairness

- `WF(ChainStep)`: the event loop runs the continuations of the chain, and the
  driver answers every write with a result or an error.
- `WF` of the handshake's steps: the driver answers its query.
- `WF(Decide)`: the in-memory cache answers. `SF(Second)`: time passes although
  attempts keep coming, since each holds the event loop for a moment only.
- `LiveFeed`: messages arrive, on a connection that stands, and the queries of
  subscriptions are answered.

Nothing is assumed of requests, clients, failures, crashes or the exchange.

## 5. What is proved

`tlapm` checks these for every value of the constants, from the assumptions in
the modules: the value for "nothing" differs from the others, batches are
sequences of quotes, bounds are numbers, tokens and attempts at a time are
finite in number, keys of users and symbols differ, the seed's list names each
symbol once and some seed runs.

| module | theorems | inductive invariant |
|---|---|---|
| `SymbolRegistryProofs` | `TypeCorrect`, `KeysMatch`, `NoStreamOpensDuringShutdown`, `RegistryCoherent`, `BroadcastsAreStored`, `ChainImplementsFeed` | `RegistryInv`, then `Coherent` |
| `SocketSessionsProofs` | `SocketTypeCorrect`, `MapExact`, `SweepComplete`, `RoomsFollow`, `RoomsHoldOpen` | `MapInv`, then `RoomInv` |
| `AuthSessionsProofs` | `AuthTypeCorrect`, `RevokedRefused`, `LogoutEnds`, `PruningBounds`, `AnswersAreLive` | `AuthInv`, then `PruneInv` |
| `LimitAttemptsProofs` | `LimitTypeCorrect`, `LocksAreEarned`, `OverlapsBounded`, `WindowsAreBounded` | `LimitInv`, `OverlapInv`, then `WindowInv` |
| `ClientSessionProofs` | `ClientTypeCorrect`, `SocketIsOne`, `RefreshIsOne`, `ListsAreAsked`, `FlowsComeToAnEnd` | `SocketInv`, `FlowInv` |
| `PageListsProofs` | `SavesAreAlone`, `BusyEnds`, `ListTypeCorrect`, `RightPage` | `FlagInv`, `ListInv` |
| `SeedingProofs` | `SeedTypeCorrect`, `UniqueKeys`, `SeedsFinish`, `SeedsWriteTheirOwn`, `SeedsDoNotBlockEachOther` | `SeedInv`, then `OneGoesOn` |
| `LiveFeedProofs` | `LiveTypeCorrect`, `NothingUnpublished`, `SettledCardsAreLive`, `CardsAreUpToDate`, `RowsAreUpToDate` | `LiveInv` |

*Registry.* `TypeOK` is not inductive: that a broadcast is well-typed needs the
chain to stand inside a batch (`ChainStands`) and to hold an entity of the
quoted key (`ChainHolds`), and a request to hold what it will set
(`RequestsHold`). `KeyMatchesEntry` rests on `ChainHolds`: the write carries the
key that was looked up, so its answer lands under the right one.
`DivergenceIsInFlight` needs more. `Coherent` says, while nothing clashed, of
each party what it relies on: a request's write is still the last one of its
document and the key it will drop is free (`RequestRight`), the chain's write is
the last one (`ChainRight`), bootstrap's copy is still the store's (`BootRight`),
and each key is right or in flight. A write preserves this because `Endangers` is false: the
lemmas `WriteKeepsOtherKeys`, `WriteKeepsRequest` and `WriteKeepsRest` are the
frame, used by requests and ticker writes alike. `BroadcastsAreStored` follows from
`ChainRight`.

*Refinement.* `ChainImplementsFeed` maps every step of the registry to one of
`PriceFeed` or to none. Requests, bootstrap and shutdown leave the feed where it
is (`FeedKept`); a batch heard is a batch heard and a crash a restart. Of the chain's
own steps (`ChainStepFeeds`) the one that goes on settles an entry
(`NextEntrySettles`), the one that gives up the batch settles the rest of it
(`AbandonDrops`), and a broadcast publishes the quote it stands at. That the
chain stands at a quote that was heard, and at one with a price, is `ChainStands`
and `ChainHolds` of `RegistryInv`: the mapping holds on reachable states only.

*Sockets.* `MapIsExact` needs that a socket is named exactly when its handshake
ends and that one closed during it has raced (`HandshakesStand`).
`RoomsFollowRequests` needs that a pending subscribe is wanted or overtaken
(`PendingAreWanted`), and that a socket which has not connected is in no room.
`SweepIsComplete` is an action property and follows from `MapInv` alone.

*Tokens.* A stale pair may pass the user's lookup and must then fail at the
token's. `StaleStaysRevoked` says where it still can be and why it stays
revoked, which needs that a pair's token belongs to its user (`PairsOwned`) and
that ids are not reused. `LogoutEndsSession` needs `ClosedAreQuiet`: no call of
a closed browser is under way.

*Pruning.* Two facts carry `PruneInv`. `SkipKeepsFew`: of tokens with different
times of creation, skipping all but the n newest leaves n, by the pigeonhole
principle on the number of newer ones. And `ListsAreNested`: of two lists taken
of one user's tokens the later one has seen everything of the earlier one that
is still there, so the tokens looked at after a prune are those its login kept,
or fewer than were looked at before. That an answered token is there, or has
`MaxTokens` newer ones, needs besides that nobody else can name it before it is
answered (`PendingAreUnknown`), so that no logout removes it.

*Attempts.* That a counter is earned needs that what an attempt has read is
(`ReadsAreEarned`), which holds as no second passes while it waits.
`OverlapsAreBounded` is an argument about slots: a count of c stands for at most
c times as many granted attempts as there are slots (`CountsCover`), and those
that wait have all read the same count, each one decided having made room for
itself (`ReadsCover`). `WindowBound` rests on what the counter and its time to live say
together (`RecentIsCounted`): the n-th last attempt granted alone is counted as
long as it is not older than `ttlSeconds`, since its age and what is left of the counter
never add up to less. An attempt alone writes one more than the count that
still stands (`ReadsStand`), so it moves all others one place on and stays within;
those that overlap write the same count, which takes nothing away (`ReadsAgree`).

*Page.* Socket and flows are two separate inductions over what a step does to
either (`SocketShapes`, `FlowShapes`). `SocketInv` adds to `OneSocket` what the
library holds back until it is connected (`ListIsBuffered`); `FlowInv` that the
promise stands for the one refresh under way and that who waits may still repeat
its call (`PromiseIsKept`), from which `FlowsEnd` follows step by step.

*Lists.* The flag stands for every save that no other call has cleared
(`SavesAreBusy`). What the list shows is a second induction, `ListInv`. While
loads did not overlap there is one at most and it asks for the page shown
(`LoadsOnePage`); while no row came or went what it has gathered, and what is shown once it
is done, is what the collection holds (`GatheredIsRight`, `ShownIsRight`). Each
load starts with nothing gathered (`NothingGathered`). The rest is arithmetic:
`SliceFacts` says which rows a page has, `Quotients` and `LastPage` relate it to
the division the page rounds up with, and that each is shown once needs
rows to be distinct, which `RowEnters` and `RowLeaves` preserve: a row that comes
in was not there, being new or one of the users with another role, who are never
in the list (`RowsAreDistinct`). What is put in and taken out at any place is
`InsertAtFacts` and `RemoveAtFacts`.

*Seeds.* `KeysAreUnique` follows from the index alone, which is on because `get`
prefers its initial value (`IndexIsOn`). `SeedsComplete` needs that an
undisturbed seed still finds its entry's key on what it found (`FoundIsEntry`),
that the entries it has passed are installed (`PassedInstalled`), and that
other undisturbed seeds leave both alone, as their entries are the same. That the
seeds never all abort is not inductive: all of them but one may have, and that one be
about to be refused. `OneGoesOn` says that some seed is not about to be refused
(`Blocked`). A seed that writes goes on itself; one that is refused was blocked,
so it is not the one that goes on; and a query answers with what is there.

*Live prices.* `CardsCatchUp` and `RowsCatchUp` say that an update is under way,
not which: `LastIsPrice` adds that the *last* one of a symbol on the wire carries its
price, so each update taken off the queue either leaves a later one or is
right. The symbol whose quote is written and not yet announced is not among those
meant (`SendingIsUnheard`), and what a load has read is right, or about to be
corrected, or has been overtaken (`AnswersCatchUp`). For cards, `CardsAreAsked` looks
at the last request under way, not at the first: it is the subscription, or
there is none and the query that is under way decides. `OnlyPublished` adds to
`NeverPublished` what queries have found and loads have read. `Appended` and
`Taken` say what sending and receiving do to a queue; they are used for both
wires.

*Only model-checked*: what is temporal under fairness (`EveryBatchSettles`,
`HandshakeEnds`, `LockOpens`, `SubscriptionSettles`, and of `ImplementsFairFeed`
the fairness, whose safety part is `ChainImplementsFeed`), which the proof
system does not handle. Every invariant and every action property of a passing
run is a theorem. The types of the page, the lists, the attempts and the seeds
are theorems and not repeated in a run.

## 6. Findings

Each is a run that TLC ends with a counterexample.

1. `registry_in_sync`: "Keeps Binance websocket streams in sync with stored
   symbols". Overlapping requests, bootstrap and ticker writes can leave the
   registry different from the collection with nothing under way, until the
   symbol is written again or the process restarts.
2. `client_reconnect`: after a reconnect by the socket library the page lists
   subscriptions the server has forgotten.
3. `accounts_login`: "Password is required when creating a client". The
   administrator's requests store the password as it is typed and login compares
   with a hash, so the account cannot log in; only seeded users can.

Some hazards are ones the code does not prevent. The properties that hold name
those cases and demand the rest, so of the case itself they say nothing: `clash`
stands for overlaps on a document and lost answers in the registry, `raced` for
sockets that left during their handshake, `overtaken` for unsubscribes that take
effect before their subscribe, `unpruned` for tokens no finished pruning has
looked at, `dropped` for connections that broke, `older` for prices an older
answer has set, `astray` and `cleared` for lists whose calls overlapped. A sweep
is judged by the sockets that had finished their handshake, a logout by whether
it overlapped a refresh. `registry_in_sync` and `client_reconnect` are the runs
that show two of these cases, `clash` and `dropped`; the hazards of PROJECT.json
say which case is exempt where.

Met on the way and visible in the models, each without a run of its own:

- *Registry*: one refused entry drops the rest of its batch
  (`binance-provider.service.ts:213`); the ticker write renames a document back
  to the key it had when the quote was looked up; a connection that opens during
  shutdown is never closed (line 78), a failed start-up never retried (line 96).
- *Sockets*: a socket that leaves during its handshake stays in the map; a sweep
  misses sockets of its user still in their handshake (`users.controller.ts:105`);
  an unsubscribe can be overtaken by its subscribe; a symbol that is hidden keeps
  the subscribers it has.
- *Accounts*: `updatePassword` compares with a password that the request's user
  does not carry, so it always refuses, and would store plain text if it did not.
- *Configuration*: a variable whose reader passes an initial value is never read,
  `MONGODB_AUTO_INDEX` of `.env.production` and the seeds' variable among them;
  both user seeds name the same one.
- *Seeds*: a running server's registry does not hear of seeded symbols.
- *Attempts*: those that arrive together are counted once.
- *Page*: it does not listen to the error a refused subscription is answered
  with, so the card stays; the administrator's price changes are announced to
  nobody; deleting the only row of the last page leaves an empty page under a
  number beyond the last; a client made an administrator by a save whose answer is
  lost stays in the list until it is loaded again; pages in an order nobody asked for
  rest on MongoDB's keeping it.

## 7. Not modelled, and why

- *Store*: a write that reaches the collection only after the process that sent
  it has crashed; queries that read in several batches, so that bootstrap's
  answer mixes two moments; the methods of `CommonService` that nobody calls
  (`insert`, `createMany`, `updateMany`, the plain count).
- *Registry*: other processes writing symbols beside a live server; `Seeding` has
  the collection without the registry.
- *Page*: toasts, formatting and templates; the administrator's two list loads
  count as one call in `ClientSession`, as do several overlapping calls of one
  flow; a socket object's id may be used again once it is disconnected; headers
  and body of an answer come in one step. `LiveFeed` keeps its connection; losing
  it is `ClientSession`'s.
- *Sockets*: several pending subscribes of one socket to one room count as one,
  except in `LiveFeed`.
- *Tokens*: an access token marked `isDev`, whose document is not looked up
  (`jwt.strategy.ts:59`), since nothing in the repository issues one; expiry is a refusal at arrival; changing the profile or the password
  touches no token and no cookie; documents created in the same millisecond have
  an order.
- *Attempts*: a restart empties the cache, and with it every lock; an attempt
  without an identifier is let through uncounted.
- *Seeds*: a unique index that is not there yet. Mongoose builds it in the
  background after connecting (`database.module.ts:19`), so two seeds of the very first
  start may both write a key before it is; `Seeding` has it from the start.
- *Query options and transformers*: projections, relations, sort parsing and the
  functions of `transform.helper` are pure string and object work with no state
  of their own.
- *Configuration*: `getDest`, `getRedisOptions` and the like build an object once
  at start.
- *DTOs, filters, pipes, interceptors, Swagger, wiring*: declarations; what they
  reject never reaches the handlers modelled here.
