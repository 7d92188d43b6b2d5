# A TLA+ model of GoATAK

GoATAK is a TAK server (`cmd/goatak_server`) with a web client and two
command-line tools. Devices connect over TCP, TLS, UDP or a websocket and send
Cursor-on-Target (CoT) events; the server passes them on to the devices that may
see them, keeps track of who is online, stores chat, and serves missions and
data packages. This directory holds TLA+ models of its concurrent core, the TLC
runs that check them, and theorems that TLAPS checks. Paths below are those of
the repository, and a number after a colon is a line.

## 1. Inventory

| component | state | operations | met by |
|---|---|---|---|
| connection handler, `internal/client/client_handler.go` | `active`, `ctx`, `sendChan`, `conn`, `uids`, `ver`, `lastActivity`, `closeTimer` | `Start`, `handleRead`, `handleWrite`, `pinger`, `SendMsg`, `SendCot`, `sendEvent`, `tryAddPacket`, `setActivity`, `closeIdle`, `Stop` | the loop sends; the reader hands messages to `messageCb`; `Stop` calls `removeCb` |
| protocol switch, same file and `pkg/cot` | `ver` and two `bufio.Reader`s at each end | offer, request, answer, `SetVersion` | the peer, over TCP |
| listeners, `tcpserver.go`, `udpserver.go` | the socket | accept, log in, start a handler; a datagram is a message | `AddClientHandler`, `NewCotMessage` |
| message loop and router, `main.go` | `app.ch`, `handlers` | `NewCotMessage`, `messageProcessLoop`, `route`, `sendBroadcast`, `sendToUID`, `sendToCallsign`, `AddClientHandler`, `RemoveHandlerCb` | every reader writes `app.ch`; the loop walks `handlers` |
| processors, `processors.go` | none of their own | metrics, remove, chat, items, filter, router, in this order | items, chat store, handlers |
| items, `items_repo.go`, `pkg/model/unit.go` | uid to item: class, online, last seen, message | `Store`, `Get`, `Remove`, the cleaner, `Update`, `SetOnline`, `SetOffline` | the loop, `RemoveHandlerCb`, the cleaner, HTTP |
| chat store, `pkg/chat` | uid to message | `Add`, `GetFor`, `clean` | the loop, a timer |
| websocket handlers, `tak_ws.go`, `wshandler/ws.go` | `active`, a channel | `SendMsg`, `writer`, `reader`, `Stop` | the loop, the items' callbacks |
| outgoing connections, `ConnectTo`, webclient `Run` | one handler at a time | connect, wait for its removal, again | handlers |
| devices, `user_repo_db.go`, `internal/cache` | rows, a cache with expiry | `CheckAuth`, `Get`, `SaveSignInfo`, `SaveConnectInfo`, `Clean` | listeners, HTTP |
| missions, `internal/database`, `mission_api.go` | missions, subscriptions, invitations, contents, points, changes | create, delete, subscribe, invite, add and remove content and points | HTTP, the loop (`processMissionPoint`) |
| data packages, `internal/pm`, `marti_api.go` | files named by hash, rows | `PutFile`, `GetFile`, `Delete` | HTTP |
| framing and data model, `pkg/cot` | none | `MakeProtoPacket`, `ReadProto`, `ReadTag`, `MatchPattern`, conversions | handlers, processors |
| certificates, profiles, configuration, templates, web client pages, `mm`, `takreplay`, GPS, coordinates | | | |

The hard parts are where goroutines meet without a lock: a handler has a reader,
a writer, a timer and any number of senders; one loop reads what many readers
write and walks a map that connections enter and leave; items are changed by the
loop, by removals and by a cleaner; devices and missions are read, changed and
written back. `PROJECT.json` lists each such place under "hazards", at its line.

What makes the components correct:

- handler: it is stopped once, the channel is open while the handler says it is
  active, a silent or departed peer is noticed, its contacts are reported, and
  what it sends is a bounded FIFO that may lose packets and does nothing worse;
- protocol switch: both ends reach the new version, and no reader is given the
  wrong encoding;
- router: scopes stay apart, everybody sees one order, nothing comes back to its
  sender, no peer can stall the loop, a departure is told to everyone;
- presence and chat: a contact without a connection is offline in the end, and
  chat for a contact that was away reaches it when it is back;
- missions: a change is recorded once, and who may see a mission depends on its
  scope and the subscription alone;
- devices: what the cache answers is never older than its expiry.

## 2. Plan

| step | module | proof | state |
|---|---|---|---|
| 1 | `SendQueue` (abstract), `ConnHandler` | `ConnHandlerProofs`, with the refinement | done |
| 2 | `ProtoSwitch` | `ProtoSwitchProofs` | done |
| 3 | `Delivery` (abstract), `Router` | `RouterProofs`, with the refinement | done |
| 4 | `Presence`: contacts, processors, stored chat, cleaner, stale removals | `PresenceProofs` | done |
| 5 | `Missions`: subscriptions, invitations, contents, points, change log | `MissionsProofs` | done |
| 6 | `Accounts`: the cache of devices, logins, certificates | `AccountsProofs` | done |
| 7 | `Packages`: resource rows and the blob directory, feeds | `PackagesProofs` | done |
| 8 | `Links`: `ConnectTo`, webclient `Run` | `LinksProofs` | done |
| 9 | `Browsers`: map and WebTAK websockets | `LinksProofs`, as its instance `Web` | done |
| 10 | `Messages`: conversions, kinds, type filter | `ConnHandlerProofs`, as its instance `Msg`: patterns and kinds | done; conversions checked |
| 11 | `Profiles`: a device's configuration | `ProtoSwitchProofs`, as its instance `Prof` | done |

The modules compose by contract. What `Router` assumes of a handler (it is
stopped once, hands on at most one message after that, then reports the contacts
it saw) is what the runs and theorems of `ConnHandler` establish; `Links` takes
the life of a handler from it in the same way. `Presence` takes from `Router` that
the loop handles one message after the other. `Browsers` has the callbacks of the
items repository `Presence` writes. `Accounts` gives a connection the device whose
scopes `Router` keeps apart. `Missions` and `Packages` are requests against the
database, with the message loop as one more process where it writes points.

## 3. Modules

### ConnHandler, SendQueue

One `ConnClientHandler`. `pc` holds the place of the reader, the writer and
every sender; an action is a step between two accesses to shared state.

| model | code |
|---|---|
| `active`, `cancelled`, `chan`, `chanOpen`, `connOpen` | the atomic flag, `ctx`, `sendChan` and whether it is closed, `conn` |
| `timerArmed`, `idle`, `fresh` | `closeTimer`, a running `closeIdle`, whether `lastActivity` is younger than the timeout |
| `peerOpen`, `inbuf` | the far end of the socket and what has arrived |
| `CheckActive`, `Push`, `PushPanics` | `tryAddPacket`: the test, and the send that may find the channel closed |
| `ReadLoop` to `Reply` | `handleRead`, `processXMLRead`, `processProtoRead` |
| `Recv`, `RecvClosed`, `WriteOk`, `WriteFails` | `handleWrite` |
| `StopSwap` to `StopDisarm` | `Stop`, statement by statement, by whichever goroutine runs it |
| `TimerFires`, `IdleLoad`, `IdleClose` | `time.AfterFunc`, `closeIdle` |
| `Arrive`, `PeerCloses` | the network (external) |

`SendQueue` is what the sending side promises: a bounded lossy FIFO that accepts
nothing once closed. `ImplementsSendQueue` is the refinement, with the packet in
the writer's hand counted as queued.

A panic in a sender ends the process, as it does in Go: `Crashed` stops `Next`.
That this can happen is what the code does; the properties say how far the
window reaches (`OpenWhileActive`) and do not exclude it.

### ProtoSwitch

A server handler and a client handler on one TCP connection, from the XML start
to protobuf. `stream[e]` is everything end `e` has queued, and `written`,
`fetched` and `consumed` are how far the writer, the other end's `bufio.Reader`
and its parser have come; the order of the marks says where a frame is. The XML
reader and the protobuf reader have a buffer each (`handleRead`, :221), so
`SwitchReader` drops what was fetched and not parsed. `Encode` and `Queue` are
the two halves of `SendCot`, which reads the version first and queues later.
Connections that end are left out; they are `ConnHandler`'s.

### Router, Delivery

`NewCotMessage` and `app.ch`, the loop, `route` and its walks over `handlers`.
A message is stamped with the order in which it entered (`id`), where it came
from, its scope, its destination and, for the `t-x-d-d` of `RemoveHandlerCb`,
the contact it reports. A destination is a sequence of walks: one for a
broadcast, one for each callsign or uid named. `Visit` is one step of
`sync.Map.Range`: a key that was there at the start or is there now, each at most
once; `EndRange` needs every key that stayed. A handler is reduced to `state`,
`uids`, the length of its queue and `got`, the history of what it accepted.
Scopes are sets: `Visible[c]` holds the device's scope and its ReadScope.

Left out: sends that do not pass `app.ch` (the welcome message and stored chat
of `processNewContact`, mission notifications), destinations that are missions,
the handlers of `ConnectTo` and of the websockets, and the processors before the
router. No device scope is called "local", which is the name the server uses for
messages of its own (`RouterAssumption`).

`Delivery` says what all this promises to a connection: one bounded queue of posted
messages, of which the first is delivered, copy by copy, to whoever is open, is meant
and may see it, until it is retired. It knows no handlers map, no walks, no writers and
no loop: a copy may be missing, and none is invented, repeated, out of order, or sent
to a connection that is closed. In the refinement mapping (`Path` in `Router`) what
waits is the message in hand followed by `app.ch`, the members are the connections in
state "open", and their contacts are the uids tables. A message is refused only at
a full `app.ch`.

### Presence

The items of contacts and the chat store, changed by the loop, by
`RemoveHandlerCb` in the goroutine of the handler that ends, by the cleaner and
by the administrator.

| model | code |
|---|---|
| `stored`, `online`, `seen`, `age` | `items`, and of an item its online flag and `lastSeen`, as the time and as how long ago it is |
| `pc`, `msg`, `was`, `batch` | the processor at work, its message, `online` and `lastSeen` in `saveItemProcessor`, `msgs` in `processNewContact` |
| `kept`, `received` | `app.messages`, and when each entered |
| `walk`, `fading`, `doomed` | the `ForEach` of `cleanOldUnits`, the item between its test and `SetOffline`, `toDelete` |
| `state`, `known`, `late` | the handlers, whose `uids` has the contact, whose reader has spent its last message |
| `FindItem` or `CreateItem`, `UpdateItem`, `StoreItem`, `GetFor`, `SendKept` | `saveItemProcessor`, `processNewContact` |
| `KeepChat`, `RouteChat`; `Metrics`; `Bye` | `chatProcessor` and `route`; `metricsProcessor`; `removeItemProcessor` |
| `SetOffline`, `TellOffline` | `RemoveHandlerCb` |
| `StartPass`, `Inspect`, `Fade`, `Remove` | `cleanOldUnits` |

`got` and `owed` are histories: what each handler accepted, and the chat that
reached nobody because the item of its recipient was missing or offline. Time is
the number of messages the loop has taken; how old an item looks to the cleaner
is `age`, which grows at any moment. A removed item keeps its flags in the
variables, because the loop may still hold it and store it again.

Left out: items of class UNIT and POINT, chat to rooms and callsigns, the welcome
message, and more than one contact behind a connection. The walk of `sendToUID`
is one step, `Router` has it in full.

Two things `OwedChatWaits` does not promise, since the code does not: metrics set
a contact online without sending anything, so they forfeit what it was owed
(`processors.go`:187); and stored chat that finds the connection gone while it is
sent is not offered again, because `lastSeen` has moved on (:155).

### Missions

A request is a process; each of its statements or transactions is a step, taken on
the copy of the mission it has read before. `req[p]` is what it is doing, `txn`
who is inside a transaction, and `Serializable` says whether transactions exclude
one another: SQLite's do, MySQL's check and write can be separated, and then two
missions of a name do appear. The runs take SQLite.

| model | code |
|---|---|
| `missions`, `live`, `subs`, `invites`, `links`, `pointOf` | the tables; ids are never given again |
| `log`, `changes` | the changes table, a set of rows each with the number `at` of its creation, which stands for `created_at`; `changes` counts them |
| `Get`, `One` | `query.go`: the rows with fewer than the limit before them in a column, or any one |
| `getMission...Handler`, `getInvite...Handler`, `processMissionPoint` | the handlers of `mission_api.go` and the loop's: they read the mission and begin |
| `CreateBegin` to `Announce`, `Delete`, `SubscribeBegin`, `SubscribeCommit`, `InviteFind`, `InviteSave`, `AddMissionResource`, `RemoveContent`, `SavePoint`, `LinkPoint`, `LogChange` | the statements of `internal/database` |
| `GetChanges` | `manager.go`:318: the squashing, after the limit of `change_query.go` |
| `ToldOf`, `Notify` | the notifications, to the subscribers found before; one without a connection, or with a full queue, is not told (`main.go`:421, `client_handler.go`:541) |
| `getMetadataPutHandler`, `ResourceId`, `edited` | PUT of a resource's metadata, which looks for the id of the resource among the missions and writes the column the request names (`marti_api.go`:436); which were written so is a history |
| `belief`, `follows` | histories: what a client that reads and is notified takes the contents for |
| `raced`, `broken`, `owing` | histories: contents two requests worked on at once or a failed statement left open, and the rows requests could still write when their mission was deleted |

A metadata request may give a scope two missions of one name, or open a mission of
others, in one statement; `RowsAreSound` says what holds of the missions no such
request has written. Of their columns the model has the scope, the name, the
kind (which stands for `invite_only` and `password`) and the creator. A request
may name `id` as well, and so change the key of a row; that is not modelled, nor are
columns that decide nothing here.

Left out: keywords, the list of all invitations (two queries and a lookup that may
panic), the mission log, the rendering of roles, and packages uploaded into a
mission.

### Packages

The `resources` table and the blob directory, which a request changes one after
the other. A body stands for its hash. An upload holds the lock of the blob store
while it reads the body (`PutBegin`, `PutEnds`, `PutFails`), so a peer that stalls
holds up all others; `stalled` is that place. `lost`, `hurt` and `ended` are
histories that say which mismatches the code has by design: an upload whose row
could not be written, a file deleted because another row named it, an inactive
feed that is not deleted.

A client may name anything for a hash. `Path` is the file that `filepath.Join` makes of a
scope and a name (`blob_manager.go`:39): for a hash it is the file of that scope and
hash (`PackagesAssumption`), and for another name, such as one that begins with "..", it
may be a file of another scope. `Hashes` are the names, the hashes among them, and the
run has one that leads from either scope to the file of one. Names that lead out of the
store are not modelled.

Behaviour worth knowing, and kept as the code has it: such a name is answered with
the file its path leads to, counts as known where that is there, and is written into rows; a multipart POST is
stored with its envelope; a content request by uid alone is always answered "not found";
a file of a known hash is neither read nor compared; the administrator's deletion
of a file removes a blob that other rows may name.

### Accounts

Devices, their certificates, and the cache in front of them. A request has a
program: loads from the cache (`Hit`, `Miss`, `Fill`), and statements. An entry has
a lock, a time and a value. A row is its version, so that "how old is what this
request goes by" can be asked; `ended` says when each version was replaced. A
load that fails hands out `Empty`, as `One` does (`query.go`:50). Statements that write
may fail as well, and the requests go on: `SaveSignInfo` does not look at the error of the
deletion, signs the new certificate and leaves the old ones (`left`), which is the third
way for a uid to have two beside signings that overlap and old certificates used again.
`LetInRightly` says what the rows were that a request was let in by; that the password
given was theirs is enforced by `Passes` and not stated again.

Left out: the expiry of certificates, empty logins, the blacklist of uids,
`Cache.Clean`, which only a test calls, and the file repository. What `Start` loads
or makes by default is `First`.

### Links

`ConnectTo` of the server and `Run` of the web client: dial, make a handler, start
it, wait on a `WaitGroup`, again. `wg`, the places of the loop and of each link's
goroutines are the state. The server's callback calls `Done` before it deletes the
name from the map, all links share the name, and so the new link may be the one
that is deleted. The client's position sender calls `wg.Add` in its own goroutine,
so it may join a group the loop has already left; when it joins just as the loop
wakes up, the library panics ("WaitGroup is reused before previous Wait has
returned", `WaitPanics`). `SenderTests` and `SenderSends`, `CallerTests` and
`CallerSends` are the two halves of `tryAddPacket`, in `myPosSender` and in a
goroutine that stands for the message loop or for the requests of the client's pages:
a Stop in between makes the send panic, which ends the process (`SendPanics`).
`LateJoins` names both panics and excludes a third, a `Done` at zero. The queue of a
link is taken never to be full; `ConnHandler` has it in full.

`ConnectTo`'s callback reports none of the contacts of its handler offline and leaves
`connectionsMetric` as it is; `IsConnected` is used by nobody. TLS, enrolment and what travels over
the link are left out.

### Browsers

The two kinds of websocket. A map handler subscribes to the callbacks of the items
repository (a library, external: it calls in the goroutine of the change and
drops a subscriber that returns false); a WebTAK handler is a client of the message
loop. Both have a flag, a channel of capacity ten, a writer and a reader, and both
`Stop` by swapping the flag first. `page` is what the browser shows: its GET of all
items, merged with what its socket brings.

`MapIsTrue` names the five ways a page may show something else when all is quiet: a
full channel dropped the change, two goroutines changed the item at once and told in
the other order, the change fell between the page's GET and its subscription, the
answer to GET overtook the socket, or the status was changed without a word. The last
is what `metricsProcessor` and `RemoveHandlerCb` do (`processors.go`:188, `main.go`:186):
they set a contact online or offline and neither store it nor call anybody, so that
pages show the old status until the next change that is told of (`unsaid`). After
`RemoveHandlerCb` that is the offline message, if `app.ch` has room for it.

A map handler has no read deadline, so a page
that falls silent keeps it for ever; a WebTAK handler gives up after a minute.
Panics in `Listen`, which the websocket library recovers before `RemoveHandlerCb`
is reached, and the chat callback are left out.

### Messages

What a message says, as functions: elements and attributes, the conversions
between XML and protobuf, the accessors, the kinds and classes, type patterns,
what a page is shown and posts back, chat. The state machine is a journey of at
most three hops over connections of either version. A name or value is a member of
a small set, an element a record of tag, attributes and children. What every
server reads is compared with what the sender wrote (`Wrote`), by the rules of
`detail.proto`, and with what the first server read.

`encoding/xml` is external. `Encode` is what it writes, as read again: the same
elements, but each element in a namespace has one more `xmlns`, since the one it was
read with is kept among its attributes (`node.go`:12, :72, `converter.go`:201).
`Rewritten` walks the elements, at most `MaxDepth` deep, without a recursive operator.

What is not preserved is named:

- `Nameless`: a contact with an endpoint and no callsign is not written;
- `Doubled`: a field and an element of the same name that share an attribute; the field
  is read, and both are written, the attribute twice;
- `Wrapped`: an XmlDetail that is a whole `detail` element becomes a detail in a detail;
- `Hidden`: so does the detail of an event that has attributes or a namespace, because
  `DetailsFromString` looks for `<detail>` (`node.go`:40); no accessor looks there;
- `Dropped`: of an element that becomes a field, the attributes the field has no place
  for, such as `exrole`, the `readiness` of a status and the `phone` of a contact
  with one attribute beside it; all of a status whose battery is no number;
- the further `xmlns`, which `OthersStay` and `WrittenOnce` leave out.

What is posted back loses team, endpoint and missions, and the callsign of a parent that
has no uid, for which `ToMsg` writes no link (`http.go`:160). Prefixed names, texts that
are no XML, and a second element of a field's name are not modelled.

### Profiles

The table of profiles, the four reads of a device's request and their merge, and
the requests of administrators. `past` is every table there was, so that an answer
can be compared with what was due at one moment. The zip package is left out. The
handlers' answer 204 is never given, as `deviceProfileEnableOnConnect` is always
among the options. That no device has the uid `"*"` is an assumption: the code does not
exclude it, since `checkUID` (`main.go`:433) only has a list of uids it refuses.

## 4. Runs

| run | module, cfg | distinct states | what it checks |
|---|---|---|---|
| `connection` | `MCConnHandler.cfg` | 1.12 M | `TypeOK`, `OpenWhileActive`, `StopOnce`, `ContactsCovered`, `IdleWatched`, `ImplementsSendQueue`, `HandlersEnd` |
| `switch` | `MCProtoSwitch.cfg` | 345 k | `OrderlyNegotiation`, `XmlReadersSeeXml`, `BothSwitch` |
| `switch_server_xml` | `MCProtoSwitchServerXml.cfg` | | section 6 |
| `router` | `MCRouter.cfg` | 467 k | `TypeOK`, `ScopeIsolation`, `OneOrder`, `LoopServes`, `ImplementsDelivery` |
| `presence` | `MCPresence.cfg` | 453 k | `TypeOK`, `OwedChatWaits`, `GhostsFade` |
| `missions` | `MCMissions.cfg` | 669 k | `RowsAreSound`, `SubscribersFollow`, `SquashedShowsContents`, `LeftoversBounded` |
| `packages` | `MCPackages.cfg` | 441 k | `StoreAgrees`, `AnswersAreRight`, `RequestsFinish` |
| `accounts` | `MCAccounts.cfg` | 638 k | `StaleAtMost`, `LetInRightly`, `OneCertPerUid`, `LostOnlyByOverlap` |
| `links` | `MCLinks.cfg` | 89 k | `LinkIsKnown`, `LateJoins`, `LinksLive` |
| `browsers` | `MCBrowsers.cfg` | 354 k | `StopIsClean`, `MapIsTrue`, `NobodyWaits` |
| `messages` | `MCMessages.cfg` | 92 k | `ConversionsKeep`, `PostingKeeps`, `TypesUnderstood` |
| `profiles` | `MCProfiles.cfg` | 329 k | `AnswerIsOfOneMoment`, `RowsAreMeant` |

A property that is a conjunction has its parts named and commented in the module:
`LinkIsKnown`, for one, is the type invariant with `OneLink`, `LiveIsRegistered` and
`FlagIsTrue`. Each property has a mutant in `PROJECT.json`: an operator in the
module, marked "Mutant", that changes one definition as a plausible bug would, and
under which TLC finds the property violated.

Bounds, and why they are enough:

- `Cap`, `QueueCap`, `SendCap` are 1 or 2 where the code has 50, 128 and 10: full,
  not full and, where order counts, two waiting packets all occur.
- `MaxSends`, `MaxReads` (1 to 3) bound what senders offer and the peer sends:
  enough for a queue that overflows and for a message that arrives while Stop
  runs. `ContactsCovered` is about a second contact, so `connection` has two and
  a blocked one.
- `router` has two connections in scopes red and blue, one of which may read the
  other, two contacts with one callsign, and destinations of each kind, one with
  two walks. `MaxMsgs = 2` counts the messages of peers; the offline messages come
  on top.
- `presence` has one contact, an old and a new connection of it, one chat and the
  messages of peers: enough for chat that finds the contact offline, a position
  before and one after, a removal, the cleaner and the administrator between any
  two steps. Contacts do not touch one another's items, and `KeepsOwedChat` is
  proved for any number.
- `missions`, `packages`, `accounts` and `browsers` are several small instances in
  one run: the MC module chooses a scenario at the start, which says who takes part
  and which operations go on. Two requests at a time, two scopes of which one reads
  the other, and one failing statement let a check and its write be separated
  in every way two requests can. `SubLimit = 1` and `ChangeLimit = 3` stand for the
  100 rows a query returns.
- `accounts`: a cache entry lives for one unit of time and a statement takes up
  to one, so an answer can be fresh, stale within the bound, and refilled late; the
  clock goes to 4 and a row to its third version.
- `links` makes two links: a goroutine of the first can meet the second.
- `messages` has its messages in `MCMessages`: contacts, groups, statuses and links with
  the combinations of attributes that the conversions tell apart, the other elements
  once, elements and details in a namespace or with attributes, and a chain of three
  hops, after which every conversion has met its own result.
- `profiles`: two administrators, one device, rows for all, for the login and for the
  device, and options and columns of one name.
- `CHECK_DEADLOCK FALSE` stands wherever the system may rightly stop: a handler
  is gone for good, peers fall silent, requests end, the process has panicked.

Fairness, and why the code justifies it: goroutines are scheduled, timers and
deadlines fire, the loop runs and a `Stop` that began goes on. Nothing is assumed of
a peer or a page: it need not send, close, or take what is written to it; a server
that is dialled may stay out of reach. `ProtoSwitch` assumes in
addition that TCP delivers and that the writers write, since a peer that reads
nothing negotiates nothing. `HandlersEnd` of `ConnHandler` and the removal of a
handler in `Router` and `Presence` (`Leave`) are the same promise, checked in the one
and assumed in the others. `Presence` adds that the cleaner ticks and that time
passes; `Packages` that a `sync.RWMutex` is fair to those who wait (strong fairness),
and its `RequestsFinish` excuses everyone while an upload stalls.

## 5. Proofs

Eight modules hold the proofs, each named after its component; `LinksProofs` treats
`Browsers` as well, as its instance `Web`, `ProtoSwitchProofs` treats `Profiles`, as
`Prof`, and `ConnHandlerProofs` treats the types of `Messages`, as `Msg`. `PROJECT.json` lists the theorems under "theorems".

`ConnHandlerProofs` proves `TypeOK`, `OpenWhileActive`, `StopOnce`,
`ContactsCovered`, `IdleWatched` and `ImplementsSendQueue` for every set of contacts and senders, every
capacity and every bound, from `ConnAssumption`. None of `StopOnce`,
`ContactsCovered` and `IdleWatched` is inductive. `IInv` adds: the winner of the swap is the only goroutine inside Stop
(`OneStopper`); how far Stop has come says what it has done (`StopProgress`);
which places of the reader exclude a missed contact (`OneLateContact`); a
`closeIdle` that will find fresh activity leaves a timer behind
(`FreshIsRearmed`).

Of `Messages` the same module proves two of the three parts of `TypesUnderstood`, for
any messages, patterns and number of hops: `FilterAgrees` (`PatternsMeanTheirTokens`)
and `KindsApart` (`KindsStayApart`). It assumes that types and patterns are
nonempty sequences of tokens and that no pattern ends in two dashes, where
`MatchPattern` and the meaning of its tokens part ("a--" does not match "a-f"). The
invariant is that a message keeps the type it was sent with (`TypeIsKept`), through
every conversion and a page's post; the rest is a chain of lemmas about the operators:
what `TrimRight` leaves (`TrimIs`), when a prefix is one (`PrefixIs`), that the
shortcuts of `MatchPattern` decide what the tokens mean (`MatchIs`), and what the
literal patterns of the kinds select (`PlainMatch`, `DashMatch`, `ControlIs`,
`MapItemIs`).

That a handler implements `SendQueue` (`RefinesSendQueue`) goes step by step. What
waits is the packet in the writer's hand followed by `sendChan`; taking a packet from
the channel changes nothing of it, a write, failed or not, takes its head, a push adds
to its end or drops, the close of the channel is the abstract one, and every other
step is a stutter (`QuietStutters`). Two invariants are needed beside `TypeOK`: the
writer holds one packet where it writes and none elsewhere (`WriterHolds`), and
no sender offers more packets, and the reader no more answers, than are counted
(`SerialsFit`).

`RouterProofs` proves `TypeOK`, `ScopeIsolation`, `OneOrder` and `NoEcho` for
every set of connections, contacts and scopes, every table of visibility and
every capacity, from `RouterAssumption`. `IInv` says that every message of a
connection carries the scope of that connection wherever the path holds it
(`ScopesStamped`), that ids grow along the path, from the handlers' histories
over the message in hand to the channel (`Stages`), and that a broadcast is a
single walk (`OneWalk`). The hard step is `Visit`: the copy it makes is newer
than all the handler has, because the walk visits no handler twice.

That the path implements `Delivery` (`RefinesDelivery`) goes step by step. What a
reader, the server or a departing handler offers to `app.ch` is a post or a refusal
(`PostStep`, `ReaderPosts`); the loop's read of the channel is a stutter, because the
message stays the first of those that wait (`DequeueStutters`); the end of its last walk
retires it (`EndRangeRetires`); and a visit that sends is a delivery
(`VisitDelivers`), which rests on `IInv` for the order of the copies and on one more
invariant, that the walks still to make are the last targets of the message in hand
(`RestOfDest`). A handler that is taken out of the map, or whose writer takes a message,
changes nothing of it.

`PresenceProofs` proves `TypeOK` and `OwedChatWaits` for every set of contacts,
connections and chat, from `PresenceAssumption`. What makes `OwedChatWaits` hold
is what the loop remembers: `IInv` adds that `was` agrees with the chat owed to
the contact in hand, even while the cleaner has taken its item out of the
repository (`HandRemembers`), that a contact whose item the loop marks offline
keeps waiting, that chat owed is in the store, and that no item was seen after
`now` (`ClockAhead`). Everything that happens beside the loop is one lemma
(`BesideTheLoop`): it may set items offline or remove them, and never online.

`LinksProofs` proves `LinkIsKnown` and `LateJoins` for any number of links, from
`LinksAssumption`. `IInv` adds that the counter of a link's WaitGroup is its handler,
until it has called Done, plus its position sender, between Add and Done
(`GroupCounts`); that a link the loop has left behind has no handler, and a sender
only if it joined late (`BehindIsOver`); that what the loop has not made yet is
not there (`AheadIsNothing`); and that a link somebody is about to send to was made,
as `app.cl` is there before anybody sends (`AimsKnown`).

Of `Browsers` the same module proves `StopIsClean` (`StopsClean`) and `MapIsTrue`
(`MapsAreTrue`) for any handlers, writers and uids. Their hypothesis `WebConstants`
is the assumption of `Browsers` in the names of the instance. `WebInv` has four parts:

- `Types`;
- `ItemsInv`: an operation has a number of its own, which it leaves on what it writes
  (`Fresh`), an object of the repository is of one uid (`ObjectsApart`), and a uid that
  some page still has to show rightly is changed by one goroutine at a time
  (`OneWorker`), which has in hand what the repository has (`OpsKnow`);
- `StopInv`: how far `Stop` has come says what is closed (`StopOrder`) and where the
  handler is subscribed (`Subscribed`), and an operation still to tell a handler may
  tell it (`TellsWell`);
- `PagesKnow`, the heart of it: for a page that is watched, that is not excused from an
  item (which a change without a word excuses everywhere) and that no operation has
  still to tell of it, the last message on its way about
  the item says what the item says; with none on its way, the page or the answer it
  awaits has it.

The page's own steps and the writer of its socket move a message along this path, a
change of an item puts an operation in front of it, and an operation that tells the
page puts the message at its end (`Applied`, `Queued`, `TakenInHand`).

`PackagesProofs` proves `StoreAgrees` and `AnswersAreRight` for any users, bodies,
uids, scopes and requests, from `PackagesAssumption`: the empty string, which the code
takes for "none", is no name of anything. `IInv` adds what a request holds at each of
its places (`Fits`); that an upload has an id nobody else writes (`IdsApart`), without
which one row could be written over another; that a file holds what its name says
(`BlobsTrue`); and that the file of a row about to be written is in its place already,
unless a deletion hurt it (`FilesWait`). Most steps are one request that moves
on without writing a row, and one lemma treats all of these. That files are found under
keys, and keys only (`KeyTyped`), is all that is used of `Path` beside the assumption.
`AnswersAreRight` is about hashes; a name that is none is given the file of its path,
unchecked.

`ProtoSwitchProofs` proves `OrderlyNegotiation` and `XmlReadersSeeXml` for any
senders, capacity and number of messages, from `SwitchAssumption`. `IInv` follows the
negotiation along the two streams: which kinds of frame each end writes
(`KindsApart`), one offer, one request after it was read (`OfferedOnce`, `AskedOnce`),
the answer before the server's switch and the client's switch at the answer
(`AnsweredFirst`), and every protobuf frame of the server behind the answer
(`ProtoAfterSwitch`). The last is what XML readers live by: a client that still reads
XML has not consumed the answer, and so none of the protobuf behind it. Where the
answer was dropped, `garbled` may become true, and the property says so.

Of `Profiles` the same module proves `AnswerIsOfOneMoment` (`AnswersAreOfOneMoment`) and
`RowsAreMeant` (`RowsStayMeant`) for any logins, uids, rows, options and requests, from
`ProfilesConstants`, the part of `ProfilesAssumption` that is needed: no login or uid is
`""` or `"*"`, and the table starts without rows that lack them. `ProfilesInv` says that
a statement writes one row (`OneRowAtATime`), that each row a device has read is the one
its key had in some table since it asked (`DeviceFits`), and that a PUT under way has
found its row or had a failure (`AdminFits`). That an answer is of one moment takes two
more steps. With at most one write the four reads, which have four different keys, agree
with the table before it, or else one of them differs and all agree with the table after
it; and merging four rows of one table in their order is the same as taking each option
from the most particular row that gives it (`MergedIsDue`).

`AccountsProofs` proves `StaleAtMost`, `LetInRightly`, `OneCertPerUid` and
`LostOnlyByOverlap` for any logins, requests and times, from `AccountsAssumption`. The
assumption says that requests are finitely many and that what the database starts with
is in order: the owner of a certificate has a row, and proper uids have one
certificate. Nothing in `src/` calls the `Delete` of `DeviceQuery`, so a row that is
there stays. `IInv` has five parts. `Shape` is the types, with the programs of requests
as the rests of those they began with. `Ages` says that an entry was filled from a
version that had not ended when its statement began, which with the time a statement
takes and the life of an entry bounds the age of what a request goes by. `Admissions`
needs that rows are shown in order: neither the cache nor a load under way holds an
older row than one that a connection has been found valid by (`NoStepBack`).
`Certificates` says that a signing which has deleted the others, and did not fail to, still finds room
(`RoomForCert`), and `Edits` that an edit nobody came before saves what it read.

`MissionsProofs` proves `RowsAreSound`, `LeftoversBounded`, `SquashedShowsContents`
and `SubscribersFollow` for any users, scopes, clients, names, contents, requests and
limits, from `MissionsAssumption`. One inductive invariant serves all four:

- what a request at each place has read, and that the mission it read is still what
  the table said, since ids are never given again (`RequestsFit`, `IdsInOrder`,
  `TablesFit`);
- a subscription is saved only for who was admitted by that copy (`AdmittedFirst`),
  which gives `SubscribersAdmitted`, with or without serialized transactions;
- `txn` is who is between the two halves of a transaction (`TransactionsKnown`), and,
  if transactions exclude one another, what it found still holds (`FoundHolds`): no
  mission of the name, or the row it will overwrite, since a metadata request, which is
  one statement, falls between no two halves. `RowsStaySound` therefore assumes
  `Serializable`, as SQLite has it; where it is FALSE, two missions of a name are a
  behaviour of the code, and `SubscribersStayAdmitted` is what remains;
- the rows still due to a mission are counted as a finite set, one element for each
  (`Dues`), so that a write takes one away and adds one row (`LeftoversBounded`);
- only one request is at work on a content that did not race (`OneAtWork`), and what
  it has left to do accounts for every difference between the three places that tell
  of a content: it is linked, then the change is logged, then subscribers are told
  (`InOrder`, from `LinkFirst`, `ChangeNext` and `MessageLast`).

The last is stated without the limits of the queries: `SquashedShowsContents` follows
for logs that fit a query, because then the squashed answer is made of all changes
(`ChangesAll`), and a message reaches all subscribers while they fit theirs
(`SubscribersAll`).

All follow the same lines: lemmas that the invariant is preserved with a step per
action, one for the initial states, and theorems that combine them with temporal
reasoning. Each inductive invariant was an invariant of its component's run before it
was proved.

Model-checked only:

- everything about liveness (`HandlersEnd`, `BothSwitch`, `LoopServes`, `GhostsFade`,
  `RequestsFinish`, `LinksLive`, `NobodyWaits`), which the prover does not treat;
- of `Messages`, `ConversionsKeep`, `PostingKeeps` and the third part of
  `TypesUnderstood` (`SidcFits`): their functions recur over the elements of a message
  or the tokens of a type, and what they compute for every input is induction over data,
  which the prover cannot do.

## 6. Where the code and its documents differ

`protobuf/protocol.txt` describes the negotiation of the protocol version, and
three of its demands are not met. The run `switch_server_xml` finds the first:

- ":246 The server MUST NOT send additiona CoT XML after the "true" response". The
  message loop may have encoded XML before the switch and queue it after the
  answer; and the version changes only after the answer is queued.
- ":213 Once the client sends the message in #5, it MUST NOT send additional CoT
  XML to the server". The client keeps version 0, and keeps sending, until it reads
  the answer.
- ":219 The server MUST then respond as soon as possible to the client". At a full
  `sendChan` the answer is dropped, `sendEvent` returns nil all the same, and the
  server switches.

`XmlReadersSeeXml` and `BothSwitch` show what holds in spite of this: protobuf
never reaches an XML reader, because a protobuf reader skips XML and the server
switches after its answer; and both ends switch unless a control message was
dropped.

`protobuf/detail.proto` describes the protobuf form of a message, and `ConversionsKeep`
passes only because it names where the conversions differ from it:

- ":18 WHOLE ELEMENTS MUST BE CONVERTED TO MESSAGES ... omit the message and put the
  entire element in xmlDetail!". Only a contact with three attributes or more stays an
  element. Of the others, and of a contact with fewer, `EventToProto` takes the attributes
  it knows and removes the element with the rest (`Dropped`).
- ":49 data for the same element appears in xmlDetail, the data in xmlDetail should
  be left alone and the data in the equivalent message should ignored". The accessors
  look at the field first, and `CotToEvent` appends the field's attributes to those of the
  element (`Doubled`).
- ":41 Prepend <detail> and append </detail>". `DetailsFromString` leaves an XmlDetail
  that begins with `<detail>` as it is (`Wrapped`), while `CotToEvent` does prepend; and
  the sender's own `<detail>` with attributes is not removed (:35-38, `Hidden`).

Beside that, an element in a namespace is written with `xmlns` once more at every hop,
which from the first on is twice in one tag and no well-formed XML (`node.go`:72).

## 7. Not modelled

- Framing by bytes. Frames are whole in `ProtoSwitch`; that `MakeProtoPacket` sends
  one byte more than the packet has and has room for a length of three bytes, that
  `ReadTag` gives up after 2048 bytes and reads the first byte of an empty tag, and
  that `logMessage` keeps two bytes of a length is listed as a hazard.
- Cryptography, the TLS handshake, the expiry of certificates.
- The configuration file, templates and browser code: no behaviour over time that the
  server depends on, beyond the pages of `Browsers` and `Messages`.
- Coordinates (floating point), the GPS reader, map layers, log formatting.
- Generated protobuf types.
- The command-line tools `mm` and `takreplay`, which are sequential.
- Within modelled components, what section 3 says is left out of each.

Reasons are in `PROJECT.json` under "components", one entry for each.
