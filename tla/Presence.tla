------------------------------ MODULE Presence ------------------------------
(***************************************************************************)
(* Who is online, and what becomes of chat for those who are not.          *)
(*                                                                         *)
(* Three parties change the items of contacts without a common lock: the   *)
(* loop of the server, which runs the processors on one message after the  *)
(* other; RemoveHandlerCb, in a goroutine of the handler that ends; and    *)
(* the cleaner.  A contact may have several connections, the old one       *)
(* half-open when the new one is accepted.                                 *)
(*                                                                         *)
(* Items are those of class CONTACT, and chat is addressed to a uid.       *)
(* sendToUID is one step here; Router has its walk.  Visibility is         *)
(* Router's as well.                                                       *)
(***************************************************************************)
EXTENDS Naturals, Sequences, FiniteSets

CONSTANTS Uids,        \* contacts
          Conns,       \* connections
          Owner,       \* the contact behind each connection
          Chats,       \* chat messages
          To,          \* the recipient of each
          QueueCap,    \* capacity of app.ch (128 in the code)
          MaxMsgs      \* bound: messages published by peers

ASSUME PresenceAssumption == /\ Owner \in [Conns -> Uids]
                             /\ To \in [Chats -> Uids]
                             /\ QueueCap \in Nat \ {0}
                             /\ MaxMsgs \in Nat

\* "offline" is the t-x-d-d of RemoveHandlerCb, "bye" that of a peer.
Messages == ({"position"} \X Conns) \cup ({"chat"} \X Chats)
              \cup ({"metrics", "bye", "offline"} \X Uids)

Ages == {"young", "quiet", "old"}

VARIABLES
  state,       \* each handler: "new", "open", "stopped", "leaving", "gone"
  known,       \* handlers whose uids table has the contact
  late,        \* the reader of a stopped handler has handed on its last message
  ch,          \* app.ch
  published,   \* messages published by peers
  now,         \* time, as the number of messages the loop has taken
  stored,      \* contacts with an item in the repository
  online,      \* the online flag of each item
  seen,        \* its lastSeen
  age,         \* how long ago that is: beyond 5 minutes, beyond 24 hours
  pc,          \* what the loop does next with msg
  msg,         \* the message in its hands, as a sequence of at most one
  was,         \* online and lastSeen as saveItemProcessor found them
  batch,       \* stored chat that processNewContact has still to send
  kept,        \* the chat store
  received,    \* when each chat entered it
  got,         \* chat each handler accepted
  owed,        \* chat that reached nobody, its recipient being marked offline
  walk,        \* items the cleaner has still to look at
  fading,      \* the item it is about to set offline
  doomed       \* items it is about to remove

connVars == <<state, known, late>>
inVars == <<ch, published>>
itemVars == <<stored, online, seen, age>>
loopVars == <<pc, msg, was, batch>>
chatVars == <<kept, received, got, owed>>
cleanVars == <<walk, fading, doomed>>
vars == <<connVars, inVars, now, itemVars, loopVars, chatVars, cleanVars>>

ConnOK == /\ state \in [Conns -> {"new", "open", "stopped", "leaving", "gone"}]
          /\ known \subseteq Conns /\ late \subseteq Conns
InOK == /\ ch \in Seq(Messages) /\ Len(ch) <= QueueCap
        /\ published \in Nat /\ now \in Nat
ItemOK == /\ stored \subseteq Uids
          /\ online \in [Uids -> BOOLEAN] /\ seen \in [Uids -> Nat]
          /\ age \in [Uids -> Ages]
LoopOK == /\ pc \in {"idle", "position", "update", "store", "get for", "send",
                    "chat", "route", "metrics", "bye"}
          /\ msg \in Seq(Messages) /\ Len(msg) = (IF pc = "idle" THEN 0 ELSE 1)
          /\ was \in [online : BOOLEAN, seen : Nat]
          /\ batch \subseteq Chats
ChatOK == /\ kept \subseteq Chats /\ received \in [Chats -> Nat]
          /\ got \in [Conns -> SUBSET Chats] /\ owed \subseteq Chats
CleanOK == walk \subseteq Uids /\ fading \subseteq Uids /\ doomed \subseteq Uids

TypeOK == ConnOK /\ InOK /\ ItemOK /\ LoopOK /\ ChatOK /\ CleanOK

NotFound == [online |-> FALSE, seen |-> 0]

Init ==
  /\ state = [c \in Conns |-> "new"] /\ known = {} /\ late = {}
  /\ ch = <<>> /\ published = 0 /\ now = 0
  /\ stored = {}
  /\ online = [u \in Uids |-> FALSE] /\ seen = [u \in Uids |-> 0]
  /\ age = [u \in Uids |-> "young"]
  /\ pc = "idle" /\ msg = <<>> /\ was = NotFound /\ batch = {}
  /\ kept = {} /\ received = [m \in Chats |-> 0]
  /\ got = [c \in Conns |-> {}] /\ owed = {}
  /\ walk = {} /\ fading = {} /\ doomed = {}

-----------------------------------------------------------------------------
(* The connections and their readers. *)

\* Mutant: app.ch takes one message more than it holds.
NewCotMessageOneTooMany(m) == ch' = IF Len(ch) <= QueueCap THEN Append(ch, m) ELSE ch

NewCotMessage(m) == ch' = IF Len(ch) < QueueCap THEN Append(ch, m) ELSE ch

\* A stopped handler hands on the message its reader was busy with.
Publish(c, m) ==
  /\ published < MaxMsgs /\ published' = published + 1
  /\ \/ state[c] = "open" /\ UNCHANGED late
     \/ state[c] \in {"stopped", "leaving", "gone"} /\ c \notin late
        /\ late' = late \cup {c}
  /\ NewCotMessage(m)
  /\ UNCHANGED <<state, now, itemVars, loopVars, chatVars, cleanVars>>

ReportPosition(c) == Publish(c, <<"position", c>>) /\ known' = known \cup {c}
ReportMetrics(c) == Publish(c, <<"metrics", Owner[c]>>) /\ UNCHANGED known
SayBye(c) == Publish(c, <<"bye", Owner[c]>>) /\ known' = known \ {c}

\* Somebody writes to a contact.
WriteChat(m) ==
  /\ published < MaxMsgs /\ published' = published + 1
  /\ m \notin kept /\ received[m] = 0 /\ <<"chat", m>> \notin {ch[i] : i \in 1 .. Len(ch)}
  /\ msg /= << <<"chat", m>> >>
  /\ NewCotMessage(<<"chat", m>>)
  /\ UNCHANGED <<connVars, now, itemVars, loopVars, chatVars, cleanVars>>

Accept(c) ==
  /\ state[c] = "new"
  /\ state' = [state EXCEPT ![c] = "open"]
  /\ UNCHANGED <<known, late, inVars, now, itemVars, loopVars, chatVars, cleanVars>>

StopConn(c) ==
  /\ state[c] = "open"
  /\ state' = [state EXCEPT ![c] = "stopped"]
  /\ UNCHANGED <<known, late, inVars, now, itemVars, loopVars, chatVars, cleanVars>>

\* RemoveHandlerCb: for the contact of the handler, if it has one, the item is
\* set offline, whichever connection it is online by,
SetOffline(c) ==
  /\ state[c] = "stopped"
  /\ IF c \in known
       THEN /\ state' = [state EXCEPT ![c] = "leaving"]
            /\ online' = [online EXCEPT ![Owner[c]] = @ /\ Owner[c] \notin stored]
       ELSE state' = [state EXCEPT ![c] = "gone"] /\ UNCHANGED online
  /\ UNCHANGED <<known, late, inVars, now, stored, seen, age, loopVars, chatVars, cleanVars>>

\* and a t-x-d-d goes to the others.
TellOffline(c) ==
  /\ state[c] = "leaving"
  /\ state' = [state EXCEPT ![c] = "gone"]
  /\ NewCotMessage(<<"offline", Owner[c]>>)
  /\ UNCHANGED <<known, late, published, now, itemVars, loopVars, chatVars, cleanVars>>

-----------------------------------------------------------------------------
(* The loop. *)

Loop(from, to) == pc = from /\ pc' = to /\ UNCHANGED <<connVars, inVars, now, cleanVars>>
Done == msg' = <<>>
Contact == IF msg[1][1] = "position" THEN Owner[msg[1][2]] ELSE msg[1][2]
Chat == msg[1][2]
SeeNow(u) == /\ online' = [online EXCEPT ![u] = TRUE]
             /\ seen' = [seen EXCEPT ![u] = now]
             /\ age' = [age EXCEPT ![u] = "young"]

\* The t-x-d-d made by the server has no Detail, and removeItemProcessor
\* finds no link in it: it passes.
TakeMessage ==
  /\ pc = "idle" /\ ch /= <<>>
  /\ ch' = Tail(ch) /\ now' = now + 1
  /\ IF Head(ch)[1] = "offline"
       THEN UNCHANGED <<pc, msg>>
       ELSE pc' = Head(ch)[1] /\ msg' = <<Head(ch)>>
  /\ UNCHANGED <<connVars, published, itemVars, was, batch, chatVars, cleanVars>>

\* saveItemProcessor, an item that is there: what it was is read first,
FindItem ==
  /\ Loop("position", "update")
  /\ Contact \in stored
  /\ was' = [online |-> online[Contact], seen |-> seen[Contact]]
  /\ UNCHANGED <<itemVars, msg, batch, chatVars>>

\* Mutant: what the item was is read after the update.
UpdateItemFirst ==
  /\ Loop("update", "store")
  /\ SeeNow(Contact)
  /\ was' = [was EXCEPT !.seen = now]
  /\ UNCHANGED <<stored, msg, batch, chatVars>>

\* then the item is updated,
UpdateItem ==
  /\ Loop("update", "store")
  /\ SeeNow(Contact)
  /\ UNCHANGED <<stored, msg, was, batch, chatVars>>

\* and stored, again if the cleaner removed it meanwhile.  A contact that was
\* offline is met as a new one.
StoreItem ==
  /\ Loop("store", IF was.online THEN "idle" ELSE "get for")
  /\ stored' = stored \cup {Contact}
  /\ IF was.online THEN Done ELSE UNCHANGED msg
  /\ UNCHANGED <<online, seen, age, was, batch, chatVars>>

\* An item that is not there.
CreateItem ==
  /\ Loop("position", "get for")
  /\ Contact \notin stored
  /\ stored' = stored \cup {Contact}
  /\ SeeNow(Contact)
  /\ was' = NotFound
  /\ UNCHANGED <<msg, batch, chatVars>>

\* processNewContact: chat since the contact was last seen.
GetFor ==
  /\ Loop("get for", "send")
  /\ batch' = {m \in kept : To[m] = Contact /\ received[m] >= was.seen}
  /\ UNCHANGED <<itemVars, msg, was, chatVars>>

\* sendToUID, to the handlers in the map that know the contact and are active.
Reached(m) == {c \in known : Owner[c] = To[m] /\ state[c] = "open"}
SendToUID(m) == got' = [c \in Conns |-> IF c \in Reached(m) THEN got[c] \cup {m} ELSE got[c]]

\* Chat that finds its contact gone once more is not owed any longer.
SendKept ==
  /\ \E m \in batch :
       /\ Loop("send", "send")
       /\ SendToUID(m)
       /\ batch' = batch \ {m} /\ owed' = owed \ {m}
  /\ UNCHANGED <<itemVars, msg, was, kept, received>>

SendEnds ==
  /\ batch = {}
  /\ Loop("send", "idle") /\ Done
  /\ UNCHANGED <<itemVars, was, batch, chatVars>>

\* chatProcessor
KeepChat ==
  /\ Loop("chat", "route")
  /\ kept' = kept \cup {Chat}
  /\ received' = [received EXCEPT ![Chat] = now]
  /\ UNCHANGED <<itemVars, msg, was, batch, got, owed>>

Away(u) == u \notin stored \/ ~online[u]

\* route
RouteChat ==
  /\ Loop("route", "idle") /\ Done
  /\ SendToUID(Chat)
  /\ owed' = IF Reached(Chat) = {} /\ Chat \in kept /\ Away(To[Chat])
                THEN owed \cup {Chat} ELSE owed
  /\ UNCHANGED <<itemVars, was, batch, kept, received>>

\* metricsProcessor: the contact is online, and nothing is sent to it.  What
\* it was owed it has to do without.
Metrics ==
  /\ Loop("metrics", "idle") /\ Done
  /\ IF Contact \in stored
       THEN SeeNow(Contact) /\ owed' = {m \in owed : To[m] /= Contact}
       ELSE UNCHANGED <<online, seen, age, owed>>
  /\ UNCHANGED <<stored, was, batch, kept, received, got>>

\* removeItemProcessor
Bye ==
  /\ Loop("bye", IF Contact \in stored THEN "store" ELSE "idle")
  /\ IF Contact \in stored
       THEN /\ online' = [online EXCEPT ![Contact] = FALSE]
            /\ was' = [online |-> TRUE, seen |-> 0]
            /\ UNCHANGED msg
       ELSE Done /\ UNCHANGED <<online, was>>
  /\ UNCHANGED <<stored, seen, age, batch, chatVars>>

-----------------------------------------------------------------------------
(* Time and the cleaners. *)

TimePasses(u) ==
  /\ age[u] /= "old"
  /\ age' = [age EXCEPT ![u] = IF @ = "young" THEN "quiet" ELSE "old"]
  /\ UNCHANGED <<connVars, inVars, now, stored, online, seen, loopVars, chatVars, cleanVars>>

\* A chat message is stale, or older than the day GetFor goes back for a
\* contact it does not know.
ExpireChat(m) ==
  /\ m \in kept
  /\ kept' = kept \ {m} /\ owed' = owed \ {m}
  /\ UNCHANGED <<connVars, inVars, now, itemVars, loopVars, received, got, cleanVars>>

Quiet == UNCHANGED <<connVars, inVars, now, loopVars, chatVars>>

\* cleanOldUnits looks at every item ...
StartPass ==
  /\ walk = {} /\ fading = {} /\ doomed = {} /\ stored /= {}
  /\ walk' = stored
  /\ UNCHANGED <<itemVars, fading, doomed>> /\ Quiet

\* Mutant: contacts are removed when old, and never set offline.
InspectOldOnly(u) ==
  /\ u \in walk /\ fading = {}
  /\ walk' = walk \ {u}
  /\ doomed' = IF u \in stored /\ ~online[u] /\ age[u] = "old" THEN doomed \cup {u} ELSE doomed
  /\ UNCHANGED <<itemVars, fading>> /\ Quiet

Inspect(u) ==
  /\ u \in walk /\ fading = {}
  /\ walk' = walk \ {u}
  /\ doomed' = IF u \in stored /\ ~online[u] /\ age[u] = "old" THEN doomed \cup {u} ELSE doomed
  /\ fading' = IF u \in stored /\ online[u] /\ age[u] /= "young" THEN {u} ELSE {}
  /\ UNCHANGED itemVars /\ Quiet

\* ... sets offline those it found quiet ...
Fade(u) ==
  /\ u \in fading
  /\ fading' = {}
  /\ online' = [online EXCEPT ![u] = FALSE]
  /\ UNCHANGED <<stored, seen, age, walk, doomed>> /\ Quiet

\* ... and removes those it found old when it is through.
Remove(u) ==
  /\ walk = {} /\ fading = {} /\ u \in doomed
  /\ doomed' = doomed \ {u} /\ stored' = stored \ {u}
  /\ UNCHANGED <<online, seen, age, walk, fading>> /\ Quiet

\* The administrator removes an item.  The loop may still hold it and put it
\* back; otherwise what the cleaner is about to set offline is no item now.
AdminRemove(u) ==
  /\ u \in stored /\ stored' = stored \ {u}
  /\ fading' \in {fading, fading \ {u}}
  /\ UNCHANGED <<online, seen, age, walk, doomed>> /\ Quiet

-----------------------------------------------------------------------------
LoopStep == \/ TakeMessage \/ FindItem \/ UpdateItem \/ StoreItem \/ CreateItem
            \/ GetFor \/ SendKept \/ SendEnds \/ KeepChat \/ RouteChat
            \/ Metrics \/ Bye
CleanerStep == StartPass \/ \E u \in Uids : Inspect(u) \/ Fade(u) \/ Remove(u)
Leave(c) == SetOffline(c) \/ TellOffline(c)
Reader(c) == ReportPosition(c) \/ ReportMetrics(c) \/ SayBye(c)

Next == \/ LoopStep \/ CleanerStep
        \/ \E c \in Conns : Accept(c) \/ StopConn(c) \/ Leave(c) \/ Reader(c)
        \/ \E m \in Chats : WriteChat(m) \/ ExpireChat(m)
        \/ \E u \in Uids : TimePasses(u) \/ AdminRemove(u)

Spec == Init /\ [][Next]_vars

\* The loop, the cleaner and the clock run, and a stopped handler is removed.
Fairness == /\ WF_vars(LoopStep) /\ WF_vars(CleanerStep)
            /\ \A u \in Uids : WF_vars(TimePasses(u))
            /\ \A c \in Conns : WF_vars(Leave(c))

FairSpec == Spec /\ Fairness
-----------------------------------------------------------------------------
\* Chat that reached nobody because its recipient was offline waits: until it
\* expires, the item stays offline and its lastSeen stays before the chat, so
\* that the next position of the contact brings it, whatever old connections,
\* the cleaner and the administrator do to the item in between.  Metrics
\* forfeit it (processors.go:187), and so does a connection that is gone
\* again when the loop sends (processors.go:155).
OwedChatWaits ==
  \A m \in owed : LET u == To[m] IN
    \/ u \notin stored
    \/ ~online[u] /\ seen[u] <= received[m]
    \/ pc \in {"store", "get for"} /\ Contact = u /\ ~was.online /\ was.seen <= received[m]
    \/ pc = "send" /\ m \in batch

\* A contact without a connection does not stay online: a position that was
\* still in app.ch when its handler was removed sets it online once more,
\* and then only the cleaner is left to notice.
GhostsFade ==
  \A u \in Uids : []<>(\/ \E c \in Conns : Owner[c] = u /\ state[c] = "open"
                       \/ u \notin stored \/ ~online[u])
=============================================================================
