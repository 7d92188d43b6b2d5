------------------------------ MODULE Browsers ------------------------------
(***************************************************************************)
(* Websockets: the maps of browsers, which follow the items through the    *)
(* repository's callbacks, and WebTAK clients, which are handlers like     *)
(* those of TCP.                                                           *)
(*                                                                         *)
(* An item is an object that several goroutines change in place; object n  *)
(* is the one made by operation n, and what it says is the number of the   *)
(* operation that changed it last.  A callback runs its subscribers in the *)
(* goroutine of the change, and drops one that returns false (external).   *)
(* A page reads all items once and then applies what its socket brings.    *)
(***************************************************************************)
EXTENDS Naturals, Sequences, FiniteSets

CONSTANTS Uids,
          Handlers, Kind,   \* connections, and whether each is a "map" or a "tak"
          Writers,          \* goroutines that change items, or send to clients
          Cap,              \* capacity of a handler's channel (10 in the code)
          MaxOps, MaxReads  \* bounds: operations of writers, messages of a WebTAK client

ASSUME BrowsersAssumption == /\ Kind \in [Handlers -> {"map", "tak"}]
                             /\ Cap \in Nat \ {0} /\ MaxOps \in Nat /\ MaxReads \in Nat

Vers == 0..MaxOps   \* 0: no item, or a deletion
Message == [uid : Uids, ver : Vers]

VARIABLES
  items,    \* the object each uid has, 0 if none
  content,  \* what each object says
  unsaid,   \* the uids whose last change nobody was told of
  ops,      \* operations begun
  op,       \* what each writer does, and the handlers it has still to tell
  subs,     \* the handlers either callback calls, and those of the clients
  conn,     \* each handler: its flag, channel and websocket, and where its goroutines are
  page,     \* each page: what it shows, and its GET /api/unit
  tak,      \* each WebTAK client: contacts, those set offline, messages
  crashed   \* a send on a closed channel has ended the process

vars == <<items, content, unsaid, ops, op, subs, conn, page, tak, crashed>>

Idle == [kind |-> "idle", at |-> "idle", uid |-> "", n |-> 0, obj |-> 0, todo |-> {}, to |-> {}]
Stops == {"swap", "close", "shut"}
Blank == [u \in Uids |-> 0]

NewConn == [active |-> TRUE, open |-> TRUE, socket |-> TRUE, ch |-> <<>>, hand |-> <<>>,
            reader |-> "off", writer |-> "off", peer |-> "away"]

\* looked: the uids the server has looked at; touched: those the socket brought
\* since; off: those the page may show wrongly.
NewPage == [view |-> Blank, answer |-> Blank, looked |-> {}, arrived |-> FALSE, touched |-> {}, off |-> {}]
NewTak == [uids |-> {}, told |-> {}, inbox |-> {}, reads |-> 0]

ConnOK(c) ==
  /\ c.ch \in Seq(Message) /\ Len(c.ch) <= Cap /\ c.hand \in Seq(Message) /\ Len(c.hand) <= 1
  /\ c.reader \in Stops \cup {"off", "half", "read", "got", "left", "gone"}
  /\ c.writer \in Stops \cup {"off", "recv", "write", "end"}
  /\ c.peer \in {"away", "there", "silent", "left"} /\ {c.active, c.open, c.socket} \subseteq BOOLEAN
PageOK(g) ==
  /\ {g.view, g.answer} \subseteq [Uids -> Vers] /\ g.looked \cup g.touched \cup g.off \subseteq Uids
  /\ g.arrived => g.looked = Uids
TypeOK ==
  /\ items \in [Uids -> Vers] /\ content \in [1..MaxOps -> Vers] /\ unsaid \subseteq Uids
  /\ ops \in Vers /\ crashed \in BOOLEAN
  /\ subs \in [{"change", "delete", "clients"} -> SUBSET Handlers]
  /\ \A h \in Handlers : ConnOK(conn[h]) /\ PageOK(page[h]) /\ tak[h].uids \cup tak[h].told \subseteq Uids
  /\ \A p \in Writers : op[p] = Idle \/ (op[p].uid \in Uids /\ op[p].to \subseteq op[p].todo)

Init ==
  /\ items = Blank /\ content = [n \in 1..MaxOps |-> 0] /\ unsaid = {} /\ ops = 0
  /\ op = [p \in Writers |-> Idle]
  /\ subs = [l \in {"change", "delete", "clients"} |-> {}]
  /\ conn = [h \in Handlers |-> NewConn] /\ page = [h \in Handlers |-> NewPage]
  /\ tak = [h \in Handlers |-> NewTak] /\ crashed = FALSE

-----------------------------------------------------------------------------
(* Changes of items. *)

Becomes(p, r) == op' = [op EXCEPT ![p] = r]
Spoil(hs, u) == page' = [h \in Handlers |-> IF h \in hs THEN [page[h] EXCEPT !.off = @ \cup {u}] ELSE page[h]]

Begin(p, kind, at, u) ==
  /\ op[p] = Idle /\ ops < MaxOps /\ ops' = ops + 1
  /\ Becomes(p, [Idle EXCEPT !.kind = kind, !.at = at, !.uid = u, !.n = ops + 1, !.obj = items[u], !.todo = Handlers])
  /\ Spoil(IF \E q \in Writers : op[q] # Idle /\ op[q].uid = u THEN Handlers ELSE {}, u)
  /\ UNCHANGED <<items, content, unsaid, subs, conn, tak, crashed>>

\* A message about an item, or a web page that adds or edits one.
saveItemProcessor(p, u) == Begin(p, "save", "find", u)
addItemHandler(p, u) == Begin(p, "save", "find", u)

\* A t-x-d-d: a contact is set offline and stored, anything else is removed.
\* The class of an item is that of its last message.
removeItemProcessor(p, u) ==
  items[u] # 0 /\ (Begin(p, "save", "update", u) \/ Begin(p, "remove", "find", u))

deleteItemHandler(p, u) == Begin(p, "remove", "find", u)

\* A contact not seen for long is set offline, which is told and not stored; an
\* item that was old when it was looked at is removed.
cleanOldUnits(p, u) ==
  items[u] # 0 /\ (Begin(p, "fade", "update", u) \/ Begin(p, "remove", "find", u))

\* Metrics set a contact online, the end of its connection sets it offline, and
\* neither stores it nor tells of it.
metricsProcessor(p, u) == items[u] # 0 /\ Begin(p, "mark", "update", u)
SetOffline(p, u) == items[u] # 0 /\ Begin(p, "mark", "update", u)

\* The message loop sends to the clients, WebTAK's among them.
SendMsg(p, u) == Begin(p, "send", "tell", u)

\* Get, and FromMsg if there is nothing to update.
Find(p) ==
  LET r == op[p] IN
  /\ r.at = "find" /\ r.kind = "save"
  /\ IF items[r.uid] # 0
       THEN Becomes(p, [r EXCEPT !.at = "update", !.obj = items[r.uid]]) /\ UNCHANGED <<content, unsaid>>
       ELSE /\ Becomes(p, [r EXCEPT !.at = "put", !.obj = r.n]) /\ content' = [content EXCEPT ![r.n] = r.n]
            /\ unsaid' = unsaid \ {r.uid}
  /\ UNCHANGED <<items, ops, subs, conn, page, tak, crashed>>

\* Update, which Store follows, or SetOffline and SetOnline, which it does not:
\* the cleaner tells of what it did, others do not.
Update(p) ==
  LET r == op[p] IN
  /\ r.at = "update"
  /\ content' = [content EXCEPT ![r.obj] = r.n]
  /\ unsaid' = IF r.kind = "mark" THEN unsaid \cup {r.uid} ELSE unsaid \ {r.uid}
  /\ Becomes(p, IF r.kind = "mark" THEN Idle ELSE [r EXCEPT !.at = IF r.kind = "fade" THEN "tell" ELSE "put"])
  /\ UNCHANGED <<items, ops, subs, conn, page, tak, crashed>>

Store(p) ==
  LET r == op[p] IN
  /\ r.at = "put" /\ items' = [items EXCEPT ![r.uid] = r.obj] /\ Becomes(p, [r EXCEPT !.at = "tell"])
  /\ UNCHANGED <<content, unsaid, ops, subs, conn, page, tak, crashed>>

\* LoadAndDelete, and the callback if there was something.
Remove(p) ==
  LET r == op[p] IN
  /\ r.at = "find" /\ r.kind = "remove" /\ items' = [items EXCEPT ![r.uid] = 0]
  /\ IF items[r.uid] # 0 THEN Becomes(p, [r EXCEPT !.at = "tell"]) /\ unsaid' = unsaid \ {r.uid}
                         ELSE Becomes(p, Idle) /\ UNCHANGED unsaid
  /\ UNCHANGED <<content, ops, subs, conn, page, tak, crashed>>

List(r) == CASE r.kind = "remove" -> "delete" [] r.kind = "send" -> "clients" [] OTHER -> "change"

\* SendItem, DeleteItem, tryAddPacket test the flag first; a map's handler that
\* is stopped is dropped from the list.
Visit(p, h) ==
  LET r == op[p] IN
  /\ r.at = "tell" /\ r.to = {} /\ h \in r.todo
  /\ IF h \in subs[List(r)] /\ conn[h].active
       THEN Becomes(p, [r EXCEPT !.to = {h}]) /\ UNCHANGED <<subs, page>>
       ELSE /\ Becomes(p, [r EXCEPT !.todo = @ \ {h}])
            /\ subs' = IF r.kind = "send" THEN subs ELSE [subs EXCEPT ![List(r)] = @ \ {h}]
            /\ Spoil(IF r.uid \in page[h].looked \/ conn[h].reader = "half" THEN {h} ELSE {}, r.uid)
  /\ UNCHANGED <<items, content, unsaid, ops, conn, tak, crashed>>

\* What is sent is what the object says now.
Says(r) == CASE r.kind = "remove" -> 0 [] r.kind = "send" -> r.n [] OTHER -> content[r.obj]

Fits(h) == Len(conn[h].ch) < Cap

\* Mutant: a full channel is waited for.
DropsNever(h) == FALSE

Drops(h) == ~Fits(h)

\* The channel is written afterwards: a closed one panics, a full one drops.
Push(p, h) ==
  LET r == op[p] IN
  /\ r.at = "tell" /\ h \in r.to /\ Becomes(p, [r EXCEPT !.to = {}, !.todo = @ \ {h}])
  /\ \/ ~conn[h].open /\ crashed' = TRUE /\ UNCHANGED <<conn, page>>
     \/ /\ conn[h].open /\ Fits(h)
        /\ conn' = [conn EXCEPT ![h].ch = Append(@, [uid |-> r.uid, ver |-> Says(r)])]
        /\ UNCHANGED <<page, crashed>>
     \/ conn[h].open /\ Drops(h) /\ Spoil({h}, r.uid) /\ UNCHANGED <<conn, crashed>>
  /\ UNCHANGED <<items, content, unsaid, ops, subs, tak>>

Finish(p) ==
  /\ op[p].at = "tell" /\ op[p].todo = {} /\ Becomes(p, Idle)
  /\ UNCHANGED <<items, content, unsaid, ops, subs, conn, page, tak, crashed>>

-----------------------------------------------------------------------------
(* The handler. *)

Turn(h, c) == conn' = [conn EXCEPT ![h] = c]
ConnOnly == UNCHANGED <<items, content, unsaid, ops, op, subs, page, tak, crashed>>

Listening(c) == [c EXCEPT !.reader = "read", !.writer = "recv"]
Add(h, l) == subs' = [subs EXCEPT ![l] = @ \cup {h}] /\ UNCHANGED <<items, content, unsaid, ops, op, page, tak, crashed>>

\* The two subscriptions, one after the other; then Listen.
getWsHandler(h) ==
  /\ Kind[h] = "map"
  /\ \/ conn[h].reader = "off" /\ conn[h].peer = "there" /\ Turn(h, [conn[h] EXCEPT !.reader = "half"]) /\ Add(h, "change")
     \/ conn[h].reader = "half" /\ Turn(h, Listening(conn[h])) /\ Add(h, "delete")

\* AddClientHandler and Listen.
getTakWsHandler(h) ==
  /\ Kind[h] = "tak" /\ conn[h].reader = "off" /\ conn[h].peer = "there"
  /\ Turn(h, Listening(conn[h])) /\ Add(h, "clients")

\* A WebTAK client sends a position or the removal of a contact.
Receive(h, u) ==
  /\ conn[h].reader = "read" /\ conn[h].socket /\ conn[h].peer = "there" /\ Kind[h] = "tak"
  /\ tak[h].reads < MaxReads /\ tak' = [tak EXCEPT ![h].inbox = {u}, ![h].reads = @ + 1]
  /\ Turn(h, [conn[h] EXCEPT !.reader = "got"])
  /\ UNCHANGED <<items, content, unsaid, ops, op, subs, page, crashed>>

Parse(h) ==
  /\ conn[h].reader = "got" /\ Turn(h, [conn[h] EXCEPT !.reader = "read"])
  /\ \/ tak' = [tak EXCEPT ![h].uids = @ \cup tak[h].inbox, ![h].inbox = {}]
     \/ tak' = [tak EXCEPT ![h].uids = @ \ tak[h].inbox, ![h].inbox = {}]
  /\ UNCHANGED <<items, content, unsaid, ops, op, subs, page, crashed>>

\* A WebTAK client has a minute for each message, a map for ever.
Deadline(h) == Kind[h] = "tak" /\ conn[h].peer = "silent"

ReadFails(h) ==
  /\ conn[h].reader = "read" /\ (conn[h].peer = "left" \/ ~conn[h].socket \/ Deadline(h))
  /\ Turn(h, [conn[h] EXCEPT !.reader = "swap"]) /\ ConnOnly

\* Stop, by either goroutine g: the flag, the channel, the websocket.
Stop(h, g, to) ==
  LET c == conn[h] IN
  CASE c[g] = "swap" -> Turn(h, IF c.active THEN [c EXCEPT ![g] = "close", !.active = FALSE] ELSE [c EXCEPT ![g] = to])
    [] c[g] = "close" -> Turn(h, [c EXCEPT ![g] = "shut", !.open = FALSE])
    [] c[g] = "shut" -> Turn(h, [c EXCEPT ![g] = to, !.socket = FALSE])

ReaderStops(h) == conn[h].reader \in Stops /\ Stop(h, "reader", "left") /\ ConnOnly
WriterStops(h) == conn[h].writer \in Stops /\ Stop(h, "writer", "end") /\ ConnOnly

\* The writer empties the channel even when it is closed; a map's looks at the
\* flag before it writes.
Recv(h) ==
  LET c == conn[h] IN
  /\ c.writer = "recv" /\ ConnOnly
  /\ \/ c.ch # <<>> /\ Turn(h, [c EXCEPT !.ch = Tail(@), !.hand = <<Head(c.ch)>>, !.writer = "write"])
     \/ c.ch = <<>> /\ ~c.open /\ Turn(h, [c EXCEPT !.writer = "end"])

\* The page applies what arrives, deletions and all.
Write(h) ==
  LET c == conn[h]
      m == Head(c.hand) IN
  /\ c.writer = "write" /\ c.socket /\ c.peer = "there" /\ (Kind[h] = "map" => c.active)
  /\ Turn(h, [c EXCEPT !.hand = <<>>, !.writer = "recv"])
  /\ page' = IF Kind[h] = "tak" THEN page
             ELSE [page EXCEPT ![h].view[m.uid] = m.ver, ![h].touched = @ \cup (page[h].looked \cap {m.uid})]
  /\ UNCHANGED <<items, content, unsaid, ops, op, subs, tak, crashed>>

\* Errors end the writer of a WebTAK client, and mean nothing to a map's, which
\* ends when the flag is down.  What a silent peer does not take blocks.
WriteFails(h) ==
  LET c == conn[h] IN
  /\ c.writer = "write" /\ ConnOnly
  /\ \/ ~c.active /\ Kind[h] = "map" /\ Turn(h, [c EXCEPT !.hand = <<>>, !.writer = "end"])
     \/ (~c.socket \/ c.peer = "left") /\ Turn(h, [c EXCEPT !.hand = <<>>, !.writer = IF Kind[h] = "map" THEN "recv" ELSE "swap"])

\* Mutant: Stop calls it, whichever goroutine stops, as in the TCP handler.
RemoveHandlerCbOnStop(h) ==
  /\ \/ /\ ~conn[h].active /\ h \in subs["clients"] /\ subs' = [subs EXCEPT !["clients"] = @ \ {h}]
        /\ tak' = [tak EXCEPT ![h].told = tak[h].uids] /\ UNCHANGED conn
     \/ /\ conn[h].reader = "left" /\ h \notin subs["clients"] /\ Turn(h, [conn[h] EXCEPT !.reader = "gone"])
        /\ UNCHANGED <<subs, tak>>
  /\ UNCHANGED <<items, content, unsaid, ops, op, page, crashed>>

\* RemoveHandlerCb follows Listen, in the same goroutine; what it does to the
\* items is SetOffline.
RemoveHandlerCb(h) ==
  /\ conn[h].reader = "left" /\ Turn(h, [conn[h] EXCEPT !.reader = "gone"])
  /\ subs' = [subs EXCEPT !["clients"] = @ \ {h}] /\ tak' = [tak EXCEPT ![h].told = tak[h].uids]
  /\ UNCHANGED <<items, content, unsaid, ops, op, page, crashed>>

-----------------------------------------------------------------------------
(* The other end. *)

\* A page that connects again shows what it had.
OpenPage(h) ==
  /\ conn[h].peer = "away" /\ Turn(h, [conn[h] EXCEPT !.peer = "there"])
  /\ \E v \in [Uids -> 0..ops] : page' = [page EXCEPT ![h].view = v]
  /\ UNCHANGED <<items, content, unsaid, ops, op, subs, tak, crashed>>

LeavePage(h) == conn[h].peer \in {"there", "silent"} /\ Turn(h, [conn[h] EXCEPT !.peer = "left"]) /\ ConnOnly
FallSilent(h) == conn[h].peer = "there" /\ Turn(h, [conn[h] EXCEPT !.peer = "silent"]) /\ ConnOnly

\* GET /api/unit, which the page sends before it opens its socket.
getUnits(h, u) ==
  /\ Kind[h] = "map" /\ conn[h].peer = "there" /\ u \notin page[h].looked
  /\ page' = [page EXCEPT ![h].looked = @ \cup {u}, ![h].answer[u] = IF items[u] = 0 THEN 0 ELSE content[items[u]]]
  /\ UNCHANGED <<items, content, unsaid, ops, op, subs, conn, tak, crashed>>

\* Mutant: the answer adds and updates, and removes nothing.
MergedAdding(h) == [u \in Uids |-> IF page[h].answer[u] = 0 THEN page[h].view[u] ELSE page[h].answer[u]]

\* processUnits: what the answer does not have is removed.
Merged(h) == page[h].answer

processUnits(h) ==
  /\ page[h].looked = Uids /\ ~page[h].arrived
  /\ page' = [page EXCEPT ![h].view = Merged(h), ![h].arrived = TRUE, ![h].off = @ \cup page[h].touched]
  /\ UNCHANGED <<items, content, unsaid, ops, op, subs, conn, tak, crashed>>

-----------------------------------------------------------------------------
OpStep(p) == \/ Find(p) \/ Update(p) \/ Store(p) \/ Remove(p) \/ Finish(p)
             \/ \E h \in Handlers : Visit(p, h) \/ Push(p, h)
ReaderStep(h) == getWsHandler(h) \/ getTakWsHandler(h) \/ Parse(h) \/ ReadFails(h) \/ ReaderStops(h) \/ RemoveHandlerCb(h)
WriterStep(h) == Recv(h) \/ Write(h) \/ WriteFails(h) \/ WriterStops(h)
PageStep(h) == OpenPage(h) \/ LeavePage(h) \/ FallSilent(h) \/ processUnits(h) \/ \E u \in Uids : getUnits(h, u)

Next ==
  /\ ~crashed
  /\ \/ \E p \in Writers : OpStep(p)
     \/ \E p \in Writers, u \in Uids : \/ saveItemProcessor(p, u) \/ addItemHandler(p, u) \/ removeItemProcessor(p, u)
                                     \/ deleteItemHandler(p, u) \/ cleanOldUnits(p, u) \/ SendMsg(p, u)
                                     \/ metricsProcessor(p, u) \/ SetOffline(p, u)
     \/ \E h \in Handlers : ReaderStep(h) \/ WriterStep(h) \/ PageStep(h) \/ \E u \in Uids : Receive(h, u)

\* Goroutines go on and deadlines pass; nothing is asked of the other end.
Fairness == /\ \A p \in Writers : WF_vars(~crashed /\ OpStep(p))
            /\ \A h \in Handlers : WF_vars(~crashed /\ ReaderStep(h)) /\ WF_vars(~crashed /\ WriterStep(h))

Spec == Init /\ [][Next]_vars /\ Fairness

-----------------------------------------------------------------------------
\* A handler whose flag is up has an open channel, so the test-then-send of
\* SendItem, DeleteItem and tryAddPacket panics only on a handler that stops
\* between the two.
FlagGuards == /\ \A h \in Handlers : conn[h].active => conn[h].open /\ conn[h].socket
              /\ crashed => \E h \in Handlers : ~conn[h].active

\* When nothing is under way, a page shows the items as they are, except those
\* that two goroutines changed at once (Store and its callback are two steps,
\* items_repo.go:55), that a full channel dropped, that changed before the page
\* was listed, or that the answer to GET /api/unit overtook, and those whose
\* status was changed without a word (main.go:186, processors.go:188), until the
\* next change that is told of.
Quiet(h) == /\ \A p \in Writers : op[p] = Idle
            /\ conn[h].peer = "there" /\ conn[h].active /\ conn[h].ch = <<>> /\ conn[h].writer = "recv"
            /\ page[h].arrived
MapIsTrue ==
  \A h \in Handlers : Kind[h] = "map" /\ Quiet(h) =>
    \A u \in Uids \ (page[h].off \cup unsaid) : page[h].view[u] = IF items[u] = 0 THEN 0 ELSE content[items[u]]

\* When a WebTAK client is gone, no contact of it is left that RemoveHandlerCb
\* has not set offline, and the loop no longer sends to it.
LeavesNothing ==
  \A h \in Handlers : conn[h].reader = "gone" => tak[h].uids \subseteq tak[h].told /\ h \notin subs["clients"]

\* A handler that stops takes everything with it, in an order that is safe.
StopIsClean == TypeOK /\ FlagGuards /\ LeavesNothing

\* Whoever stores an item gets on with its work: no page or client can stall
\* the message loop, the cleaner or a web request.
NobodyStalls == \A p \in Writers : op[p] # Idle ~> op[p] = Idle \/ crashed

\* A page that is closed, and a WebTAK client that is closed or silent for a
\* minute, leave no goroutine behind.
HandlersEnd ==
  \A h \in Handlers :
    (conn[h].peer = "left" \/ (conn[h].peer = "silent" /\ Kind[h] = "tak"))
      ~> \/ (conn[h].reader = "gone" /\ conn[h].writer = "end")
         \/ conn[h].reader = "off" \/ crashed

\* Neither the server waits for a page nor a goroutine for one that is gone.
NobodyWaits == NobodyStalls /\ HandlersEnd
=============================================================================
