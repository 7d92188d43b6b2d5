------------------------------- MODULE Router -------------------------------
(***************************************************************************)
(* The message path of goatak_server: what the readers of the connections  *)
(* hand to NewCotMessage goes through one bounded channel to one loop,     *)
(* which routes each message to the connections in the handlers map.       *)
(* Connections come and go while the loop walks the map, and each walk     *)
(* step is an action.  A handler is reduced to what App sees of it; its    *)
(* inside is ConnHandler.                                                  *)
(*                                                                         *)
(* Left out are the sends that do not come through app.ch: the welcome     *)
(* message and the stored chat that processNewContact sends to a contact,  *)
(* and the mission notifications.                                          *)
(***************************************************************************)
EXTENDS Naturals, Sequences, FiniteSets

CONSTANTS Conns,       \* connections, one handler each
          Uids,        \* contacts
          Callsigns,
          Callsign,    \* the callsign each contact announces
          Dests,       \* the destinations a message may have
          Scopes,      \* visibility scopes
          Home,        \* device.Scope of each connection
          Visible,     \* the scopes its device can see: own and ReadScope
          QueueCap,    \* capacity of app.ch (128 in the code)
          SendCap,     \* capacity of sendChan (50 in the code)
          MaxMsgs      \* bound: messages published

NoConn == "no connection"
All == <<"all">>
Broadcast == <<All>>
Local == "local"

\* Each element of a destination is one walk over the handlers.
Targets == {All} \cup ({"uid"} \X Uids) \cup ({"callsign"} \X Callsigns)

\* A message names contacts, or callsigns, or nobody and is for all.  A device
\* sees its own scope; no device without a login (nil) sees any but
\* "", which is then both its Home and its Visible.  No scope is named
\* LocalScope.
ASSUME RouterAssumption ==
  /\ Callsign \in [Uids -> Callsigns]
  /\ Dests \subseteq Seq(Targets) \ {<<>>} /\ Broadcast \in Dests
  /\ \A d \in Dests \ {Broadcast} : \A i \in 1 .. Len(d) : d[i] /= All
  /\ Home \in [Conns -> Scopes]
  /\ Visible \in [Conns -> SUBSET Scopes]
  /\ \A c \in Conns : Home[c] \in Visible[c]
  /\ Local \notin Scopes
  /\ NoConn \notin Conns
  /\ QueueCap \in Nat \ {0} /\ SendCap \in Nat \ {0} /\ MaxMsgs \in Nat

\* offline is the contact that a t-x-d-d made by RemoveHandlerCb tells of.
\* The id stamps the order in which messages entered app.ch.
Messages == [id : Nat, from : Conns \cup {NoConn}, scope : Scopes \cup {Local},
             dest : Dests, offline : SUBSET Uids]

\* A packet is the copy of a message made in one of its walks, which are
\* counted down.
Packets == [message : Messages, walk : Nat]

VARIABLES
  state,       \* each handler: "new", "open", "stopped", "leaving", "gone"
  handlers,    \* keys of the handlers map
  uids,        \* the uids table of each handler
  toTell,      \* contacts RemoveHandlerCb has still to report
  late,        \* the reader of a stopped handler has handed on its last message
  ch,          \* app.ch
  msg,         \* the message being routed, as a sequence of at most one
  todo,        \* its walks still to make, the present one included
  start,       \* keys the map had when the walk began
  visited,     \* keys the walk has yielded
  queue,       \* number of packets in sendChan of each handler
  got,         \* the packets each handler ever accepted for sending
  lost,        \* some message was dropped at a full channel
  nextId

loopVars == <<msg, todo, start, visited>>
outVars == <<queue, got>>
vars == <<state, handlers, uids, toTell, late, ch, loopVars, outVars, lost, nextId>>

TypeOK ==
  /\ state \in [Conns -> {"new", "open", "stopped", "leaving", "gone"}]
  /\ handlers \subseteq Conns
  /\ uids \in [Conns -> SUBSET Uids]
  /\ toTell \in [Conns -> SUBSET Uids]
  /\ late \subseteq Conns
  /\ ch \in Seq(Messages) /\ Len(ch) <= QueueCap
  /\ todo \in Seq(Targets)
  /\ msg \in Seq(Messages) /\ Len(msg) = (IF todo = <<>> THEN 0 ELSE 1)
  /\ start \subseteq Conns /\ visited \subseteq Conns
  /\ queue \in [Conns -> 0 .. SendCap]
  /\ got \in [Conns -> Seq(Packets)]
  /\ lost \in BOOLEAN
  /\ nextId \in Nat

Init ==
  /\ state = [c \in Conns |-> "new"]
  /\ handlers = {}
  /\ uids = [c \in Conns |-> {}]
  /\ toTell = [c \in Conns |-> {}]
  /\ late = {}
  /\ ch = <<>>
  /\ msg = <<>> /\ todo = <<>> /\ start = {} /\ visited = {}
  /\ queue = [c \in Conns |-> 0]
  /\ got = [c \in Conns |-> <<>>]
  /\ lost = FALSE
  /\ nextId = 0

-----------------------------------------------------------------------------
(* Into the channel. *)

\* Mutant: app.ch takes one message more than it holds.
NewCotMessageOneTooMany(m) ==
  /\ nextId' = nextId + 1
  /\ IF Len(ch) <= QueueCap THEN ch' = Append(ch, m) /\ UNCHANGED lost
                            ELSE UNCHANGED ch /\ lost' = TRUE

\* The select with a default: a full app.ch drops the message.
NewCotMessage(m) ==
  /\ nextId' = nextId + 1
  /\ IF Len(ch) < QueueCap THEN ch' = Append(ch, m) /\ UNCHANGED lost
                           ELSE UNCHANGED ch /\ lost' = TRUE

\* What handleRead makes of a message from connection c.
FromReader(c, dest) ==
  [id |-> nextId, from |-> c, scope |-> Home[c], dest |-> dest, offline |-> {}]

\* A stopped handler hands on the message its reader was busy with, no more
\* (ConnHandler: the reader looks at its context before every read).
MayPublish(c) ==
  /\ nextId < MaxMsgs
  /\ \/ state[c] = "open" /\ UNCHANGED late
     \/ state[c] \in {"stopped", "leaving", "gone"} /\ c \notin late
        /\ late' = late \cup {c}

Publish(c, dest) ==
  /\ MayPublish(c)
  /\ NewCotMessage(FromReader(c, dest))
  /\ UNCHANGED <<state, handlers, uids, toTell, loopVars, outVars>>

\* A contact's position report: the reader first enters the contact.
Announce(c, u) ==
  /\ MayPublish(c)
  /\ uids' = [uids EXCEPT ![c] = @ \cup {u}]
  /\ NewCotMessage(FromReader(c, Broadcast))
  /\ UNCHANGED <<state, handlers, toTell, loopVars, outVars>>

\* t-x-d-d from the peer: the reader first strikes the contact.
Withdraw(c, u) ==
  /\ MayPublish(c) /\ u \in uids[c]
  /\ uids' = [uids EXCEPT ![c] = @ \ {u}]
  /\ NewCotMessage(FromReader(c, Broadcast))
  /\ UNCHANGED <<state, handlers, toTell, loopVars, outVars>>

\* ListenUDP, the /cot handlers and mission notifications: no connection, and
\* a scope of their own.
Inject(scope) ==
  /\ nextId < MaxMsgs
  /\ NewCotMessage([id |-> nextId, from |-> NoConn, scope |-> scope,
                    dest |-> Broadcast, offline |-> {}])
  /\ UNCHANGED <<state, handlers, uids, toTell, late, loopVars, outVars>>

-----------------------------------------------------------------------------
(* Connections. *)

\* ListenTCP, processTLSConn: AddClientHandler, then Start.
Accept(c) ==
  /\ state[c] = "new"
  /\ state' = [state EXCEPT ![c] = "open"]
  /\ handlers' = handlers \cup {c}
  /\ UNCHANGED <<uids, toTell, late, ch, loopVars, outVars, lost, nextId>>

\* Stop clears the active flag ...
StopConn(c) ==
  /\ state[c] = "open"
  /\ state' = [state EXCEPT ![c] = "stopped"]
  /\ UNCHANGED <<handlers, uids, toTell, late, ch, loopVars, outVars, lost, nextId>>

\* ... and later RemoveHandlerCb strikes the handler from the map, reads its
\* contacts,
RemoveHandler(c) ==
  /\ state[c] = "stopped"
  /\ state' = [state EXCEPT ![c] = "leaving"]
  /\ handlers' = handlers \ {c}
  /\ toTell' = [toTell EXCEPT ![c] = uids[c]]
  /\ UNCHANGED <<uids, late, ch, loopVars, outVars, lost, nextId>>

\* Mutant: the offline message is local, as those of the server itself are.
TellOfflineLocally(c, u) ==
  /\ state[c] = "leaving" /\ u \in toTell[c]
  /\ toTell' = [toTell EXCEPT ![c] = @ \ {u}]
  /\ NewCotMessage([id |-> nextId, from |-> c, scope |-> Local,
                    dest |-> Broadcast, offline |-> {u}])
  /\ UNCHANGED <<state, handlers, uids, late, loopVars, outVars>>

\* queues one t-x-d-d for each, in the scope of the connection,
TellOffline(c, u) ==
  /\ state[c] = "leaving" /\ u \in toTell[c]
  /\ toTell' = [toTell EXCEPT ![c] = @ \ {u}]
  /\ NewCotMessage([id |-> nextId, from |-> c, scope |-> Home[c],
                    dest |-> Broadcast, offline |-> {u}])
  /\ UNCHANGED <<state, handlers, uids, late, loopVars, outVars>>

\* and returns.
Removed(c) ==
  /\ state[c] = "leaving" /\ toTell[c] = {}
  /\ state' = [state EXCEPT ![c] = "gone"]
  /\ UNCHANGED <<handlers, uids, toTell, late, ch, loopVars, outVars, lost, nextId>>

-----------------------------------------------------------------------------
(* The loop. *)

\* Mutant: several workers share app.ch, and one may overtake another.
DequeueAny ==
  /\ todo = <<>>
  /\ \E i \in 1 .. Len(ch) :
       /\ msg' = <<ch[i]>> /\ todo' = ch[i].dest
       /\ ch' = [j \in 1 .. Len(ch) - 1 |-> ch[IF j < i THEN j ELSE j + 1]]
  /\ start' = handlers /\ visited' = {}
  /\ UNCHANGED <<state, handlers, uids, toTell, late, outVars, lost, nextId>>

Dequeue ==
  /\ todo = <<>> /\ ch /= <<>>
  /\ msg' = <<Head(ch)>> /\ todo' = Head(ch).dest /\ ch' = Tail(ch)
  /\ start' = handlers /\ visited' = {}
  /\ UNCHANGED <<state, handlers, uids, toTell, late, outVars, lost, nextId>>

\* Mutant: a broadcast goes to its sender too.
AddressedOrSender(c, m, t) ==
  CASE t = All        -> TRUE
    [] t[1] = "uid"   -> t[2] \in uids[c]
    [] OTHER          -> \E u \in uids[c] : Callsign[u] = t[2]

\* sendBroadcast spares the connection the message came from; sendToUID and
\* sendToCallsign ask the uids table of the handler.
Addressed(c, m, t) ==
  CASE t = All        -> c /= m.from
    [] t[1] = "uid"   -> t[2] \in uids[c]
    [] OTHER          -> \E u \in uids[c] : Callsign[u] = t[2]

\* SendMsg: the scope decides, silently.
CanSee(c, m) == m.scope = Local \/ m.scope \in Visible[c]

Send(c) ==
  /\ queue' = [queue EXCEPT ![c] = @ + 1]
  /\ got' = [got EXCEPT ![c] = Append(@, [message |-> msg[1], walk |-> Len(todo)])]

Wanted(c) == Addressed(c, msg[1], Head(todo)) /\ CanSee(c, msg[1]) /\ state[c] = "open"

\* Mutant: the loop waits for room in a full sendChan.
VisitWaiting(c) ==
  /\ todo /= <<>> /\ c \in (start \cup handlers) \ visited
  /\ visited' = visited \cup {c}
  /\ IF Wanted(c) THEN queue[c] < SendCap /\ Send(c) ELSE UNCHANGED outVars
  /\ UNCHANGED <<state, handlers, uids, toTell, late, ch, msg, todo, start, lost, nextId>>

\* One step of sync.Map.Range: a key not yielded before, that was in the map
\* when the walk began or is now, in any order.  Neither a handler that is
\* off nor a full sendChan holds the walk up.
Visit(c) ==
  /\ todo /= <<>> /\ c \in (start \cup handlers) \ visited
  /\ visited' = visited \cup {c}
  /\ IF Wanted(c) /\ queue[c] < SendCap THEN Send(c) ELSE UNCHANGED outVars
  /\ lost' = (lost \/ (Wanted(c) /\ queue[c] = SendCap))
  /\ UNCHANGED <<state, handlers, uids, toTell, late, ch, msg, todo, start, nextId>>

\* Range has yielded every key that stayed in the map throughout.  The next
\* target, if there is one, is a walk of its own.
EndRange ==
  /\ todo /= <<>> /\ (start \cap handlers) \subseteq visited
  /\ todo' = Tail(todo) /\ visited' = {}
  /\ IF Tail(todo) = <<>> THEN msg' = <<>> /\ start' = {}
                          ELSE UNCHANGED msg /\ start' = handlers
  /\ UNCHANGED <<state, handlers, uids, toTell, late, ch, outVars, lost, nextId>>

\* The writer of the handler takes a packet; a stalled peer never lets it.
WriterTakes(c) ==
  /\ queue[c] > 0
  /\ queue' = [queue EXCEPT ![c] = @ - 1]
  /\ UNCHANGED <<state, handlers, uids, toTell, late, ch, loopVars, got, lost, nextId>>

-----------------------------------------------------------------------------
FromPeers == \E c \in Conns :
  \/ \E d \in Dests : Publish(c, d)
  \/ \E u \in Uids : Announce(c, u) \/ Withdraw(c, u)
Injects == \E s \in Scopes \cup {Local} : Inject(s)
Leave(c) == RemoveHandler(c) \/ (\E u \in Uids : TellOffline(c, u)) \/ Removed(c)
LoopStep == Dequeue \/ (\E c \in Conns : Visit(c)) \/ EndRange

Next == \/ FromPeers \/ Injects \/ LoopStep
        \/ \E c \in Conns : Accept(c) \/ StopConn(c) \/ Leave(c) \/ WriterTakes(c)

Spec == Init /\ [][Next]_vars

\* The loop runs, and a handler that began to stop is removed (ConnHandler's
\* StopCompletes).  No peer is assumed to send, leave or drain its queue.
Fairness == WF_vars(LoopStep) /\ \A c \in Conns : WF_vars(Leave(c))

FairSpec == Spec /\ Fairness
-----------------------------------------------------------------------------
\* "devices can communicate and see each other within one scope only"
\* (README.md:42): whatever a connection is sent came from a connection whose
\* scope its device can see, however the message was made and whichever way
\* it was addressed.
ScopeIsolation ==
  \A c \in Conns : \A i \in 1 .. Len(got[c]) :
    LET m == got[c][i].message IN m.from \in Conns => Home[m.from] \in Visible[c]

\* p comes before q in the order of app.ch and, within one message, of its
\* targets.
Precedes(p, q) == \/ p.message.id < q.message.id
                  \/ p.message.id = q.message.id /\ p.walk > q.walk

\* All connections are sent the messages in one order, the order in which
\* they entered app.ch, and once for each target: one channel, one loop, and
\* a walk that yields each handler once, whoever comes and goes meanwhile.
OneOrder ==
  \A c \in Conns : \A i, j \in 1 .. Len(got[c]) :
    i < j => Precedes(got[c][i], got[c][j])

\* Nothing comes back to the connection that sent it, unless it was addressed
\* to a contact behind that connection.
NoEcho ==
  \A c \in Conns : \A i \in 1 .. Len(got[c]) :
    LET m == got[c][i].message IN m.from = c => m.dest /= Broadcast

\* The path implements Delivery: the message in hand is the first of those
\* that wait, and the uids tables say who is behind a connection.
Path == INSTANCE Delivery WITH
          Nobody <- NoConn, Room <- QueueCap,
          waiting <- msg \o ch, members <- {c \in Conns : state[c] = "open"},
          contacts <- uids, clock <- nextId

\* Whoever comes, goes, stalls or is addressed meanwhile, what a connection is
\* sent are copies of messages that were posted, in their order, each once per
\* target, while it is open; a message is dropped only at a full app.ch.
ImplementsDelivery == Path!Spec

\* Peers that stop reading, stop answering or disconnect never stall the
\* loop: app.ch is emptied again and again.
LoopNeverStalls == []<>(ch = <<>> /\ todo = <<>>)

\* When the handler of a contact is removed, every other open connection that
\* sees the contact's scope is told, unless a full channel dropped a message
\* or that connection itself stopped.
DepartureIsTold ==
  \A c, d \in Conns : \A u \in Uids :
    (u \in toTell[c] /\ state[d] = "open" /\ Home[c] \in Visible[d] /\ c /= d)
      ~> \/ lost \/ state[d] /= "open"
         \/ \E i \in 1 .. Len(got[d]) :
              LET m == got[d][i].message IN m.from = c /\ u \in m.offline

\* The loop gets round to everything, and so to the departures.
LoopServes == LoopNeverStalls /\ DepartureIsTold
=============================================================================
