--------------------------- MODULE PresenceProofs ---------------------------
(* Theorems about Presence, for every set of contacts, connections and chat. *)
EXTENDS Presence, TLAPS

\* What the loop holds decides where it can be.
HandOK ==
  /\ pc \in {"position", "update", "get for", "send"} => msg[1] \in {"position"} \X Conns
  /\ pc \in {"metrics", "bye"} => msg[1] \in {pc} \X Uids
  /\ pc = "store" => \/ msg[1] \in {"position"} \X Conns
                     \/ was.online /\ msg[1] \in {"bye"} \X Uids
  /\ pc \in {"chat", "route"} => msg[1] \in {"chat"} \X Chats

\* The clock of the loop is ahead of every lastSeen, and the chat being
\* routed carries the present time.
ClockAhead ==
  /\ \A u \in Uids : seen[u] <= now
  /\ pc = "route" => received[Chat] = now

\* Chat for u will be found by GetFor(was.seen), which will be called.
Found(m) == ~was.online /\ was.seen <= received[m]
Waits(m) == ~online[To[m]] /\ seen[To[m]] <= received[m]

\* What the loop holds of an item it is working on agrees with the chat that
\* its contact is owed, even while the item is out of the repository.
HandRemembers ==
  \A m \in owed : pc /= "idle" /\ Contact = To[m] =>
    /\ pc \in {"update", "get for"} => Found(m)
    /\ pc = "store" => Found(m) \/ (was.online /\ Waits(m))
    /\ pc = "send" => m \in batch

IInv == /\ TypeOK
        /\ HandOK
        /\ ClockAhead
        /\ owed \subseteq kept
        /\ HandRemembers
        /\ OwedChatWaits
-----------------------------------------------------------------------------
(* Types, and what the loop holds. *)

Typed == TypeOK /\ HandOK

\* The contact of the message in hand is a contact.
LEMMA ContactType ==
  ASSUME HandOK, pc \in {"position", "update", "store", "get for", "send", "metrics", "bye"}
  PROVE  Contact \in Uids
<1>1. CASE msg[1] \in {"position"} \X Conns
  BY <1>1, PresenceAssumption DEF PresenceAssumption, Contact
<1>2. CASE msg[1] \in {"metrics", "bye"} \X Uids
  BY <1>2 DEF Contact
<1> QED
  BY <1>1, <1>2 DEF HandOK

\* So is the chat in hand a chat.
LEMMA ChatType ==
  ASSUME HandOK, pc \in {"chat", "route"}
  PROVE  Chat \in Chats
BY DEF HandOK, Chat

\* What the select on app.ch does with a message of the right type.
LEMMA ChannelType ==
  ASSUME InOK, NEW m \in Messages, NewCotMessage(m)
  PROVE  ch' \in Seq(Messages) /\ Len(ch') <= QueueCap
<1>1. ch \in Seq(Messages) /\ Len(ch) <= QueueCap /\ QueueCap \in Nat
  BY PresenceAssumption DEF PresenceAssumption, InOK
<1>2. CASE Len(ch) < QueueCap
  BY <1>1, <1>2 DEF NewCotMessage
<1>3. CASE ~(Len(ch) < QueueCap)
  BY <1>1, <1>3 DEF NewCotMessage
<1> QED
  BY <1>2, <1>3

\* What a reader does when it hands a message on.
LEMMA PublishType ==
  ASSUME Typed, NEW c \in Conns, NEW m \in Messages, Publish(c, m), known' \subseteq Conns
  PROVE  Typed'
<1>t. ConnOK /\ InOK /\ ItemOK /\ LoopOK /\ ChatOK /\ CleanOK /\ HandOK
  BY DEF Typed, TypeOK
<1>1. NewCotMessage(m) /\ published' = published + 1 /\ now' = now
  BY DEF Publish
<1>2. InOK'
  BY <1>t, <1>1, ChannelType DEF InOK
<1>3. state' = state /\ (late' = late \/ late' = late \cup {c})
  BY DEF Publish
<1>4. ConnOK'
  BY <1>t, <1>3 DEF ConnOK
<1>5. ItemOK' /\ LoopOK' /\ HandOK'
  BY <1>t DEF Publish, itemVars, loopVars, ItemOK, LoopOK, HandOK
<1>6. ChatOK' /\ CleanOK'
  BY <1>t DEF Publish, chatVars, cleanVars, ChatOK, CleanOK
<1> QED
  BY <1>2, <1>4, <1>5, <1>6 DEF Typed, TypeOK

\* Every step keeps them.
LEMMA TypeStep == Typed /\ [Next]_vars => Typed'
<1> SUFFICES ASSUME Typed, [Next]_vars PROVE Typed'
  OBVIOUS
<1>t. ConnOK /\ InOK /\ ItemOK /\ LoopOK /\ ChatOK /\ CleanOK /\ HandOK
  BY DEF Typed, TypeOK
<1>1. CASE TakeMessage
  <2>1. Head(ch) \in Messages /\ Tail(ch) \in Seq(Messages) /\ Len(Tail(ch)) <= QueueCap
    BY <1>1, <1>t, PresenceAssumption DEF TakeMessage, InOK, PresenceAssumption
  <2>2. ch' = Tail(ch) /\ now' = now + 1 /\ published' = published
    BY <1>1 DEF TakeMessage
  <2>3. /\ was' = was /\ batch' = batch
        /\ \/ pc' = pc /\ msg' = msg
           \/ Head(ch)[1] /= "offline" /\ pc' = Head(ch)[1] /\ msg' = <<Head(ch)>>
    BY <1>1 DEF TakeMessage
  <2>4. InOK'
    BY <1>t, <2>1, <2>2
       DEF InOK
  <2>5. LoopOK' /\ HandOK'
    <3>1. CASE pc' = pc /\ msg' = msg
      BY <3>1, <1>t, <2>3 DEF LoopOK, HandOK
    <3>2. CASE Head(ch)[1] /= "offline" /\ pc' = Head(ch)[1] /\ msg' = <<Head(ch)>>
      <4>1. msg'[1] = Head(ch) /\ msg' \in Seq(Messages) /\ Len(msg') = 1
        BY <3>2, <2>1
      <4>2. \/ Head(ch) \in {"position"} \X Conns /\ pc' = "position"
            \/ Head(ch) \in {"chat"} \X Chats /\ pc' = "chat"
            \/ Head(ch) \in {pc'} \X Uids /\ pc' \in {"metrics", "bye"}
        BY <3>2, <2>1 DEF Messages
      <4>3. LoopOK'
        BY <4>1, <4>2, <2>3, <1>t DEF LoopOK
      <4>4. HandOK'
        BY <4>1, <4>2 DEF HandOK
      <4> QED
        BY <4>3, <4>4
    <3> QED
      BY <3>1, <3>2, <2>3
  <2>6. ConnOK' /\ ItemOK' /\ ChatOK' /\ CleanOK'
    BY <1>1, <1>t
       DEF TakeMessage, connVars, itemVars, chatVars, cleanVars, ConnOK, ItemOK,
           ChatOK, CleanOK
  <2> QED
    BY <2>4, <2>5, <2>6 DEF Typed, TypeOK
<1>2. CASE FindItem
  <2>1. LoopOK' /\ HandOK'
    BY <1>2, <1>t, ContactType
       DEF FindItem, Loop, ItemOK, LoopOK, HandOK
  <2>2. ConnOK' /\ InOK' /\ ItemOK' /\ ChatOK' /\ CleanOK'
    BY <1>2, <1>t
       DEF FindItem, Loop, connVars, inVars, itemVars, chatVars, cleanVars, ConnOK,
           InOK, ItemOK, ChatOK, CleanOK
  <2> QED
    BY <2>1, <2>2 DEF Typed, TypeOK
<1>3. CASE UpdateItem
  <2>1. ItemOK'
    BY <1>3, <1>t, ContactType
       DEF UpdateItem, Loop, InOK, SeeNow, Ages, ItemOK
  <2>2. LoopOK' /\ HandOK'
    BY <1>3, <1>t
       DEF UpdateItem, Loop, LoopOK, HandOK
  <2>3. ConnOK' /\ InOK' /\ ChatOK' /\ CleanOK'
    BY <1>3, <1>t
       DEF UpdateItem, Loop, connVars, inVars, chatVars, cleanVars, ConnOK, InOK,
           ChatOK, CleanOK
  <2> QED
    BY <2>1, <2>2, <2>3 DEF Typed, TypeOK
<1>4. CASE StoreItem
  <2>1. ItemOK'
    BY <1>4, <1>t, ContactType
       DEF StoreItem, Loop, ItemOK
  <2>2. LoopOK' /\ HandOK'
    <3>1. pc = "store" /\ was' = was /\ batch' = batch
      BY <1>4 DEF StoreItem, Loop
    <3>2. CASE was.online
      <4>1. pc' = "idle" /\ msg' = <<>>
        BY <1>4, <3>2 DEF StoreItem, Loop, Done
      <4> QED
        BY <3>1, <4>1, <1>t DEF LoopOK, HandOK
    <3>3. CASE ~was.online
      <4>1. pc' = "get for" /\ msg' = msg
        BY <1>4, <3>3 DEF StoreItem, Loop
      <4> QED
        BY <3>1, <3>3, <4>1, <1>t DEF LoopOK, HandOK
    <3> QED
      BY <3>2, <3>3
  <2>3. ConnOK' /\ InOK' /\ ChatOK' /\ CleanOK'
    BY <1>4, <1>t
       DEF StoreItem, Loop, connVars, inVars, chatVars, cleanVars, ConnOK, InOK,
           ChatOK, CleanOK
  <2> QED
    BY <2>1, <2>2, <2>3 DEF Typed, TypeOK
<1>5. CASE CreateItem
  <2>1. ItemOK'
    BY <1>5, <1>t, ContactType
       DEF CreateItem, Loop, InOK, SeeNow, Ages, ItemOK
  <2>2. LoopOK' /\ HandOK'
    BY <1>5, <1>t
       DEF CreateItem, Loop, NotFound, LoopOK, HandOK
  <2>3. ConnOK' /\ InOK' /\ ChatOK' /\ CleanOK'
    BY <1>5, <1>t
       DEF CreateItem, Loop, connVars, inVars, chatVars, cleanVars, ConnOK, InOK,
           ChatOK, CleanOK
  <2> QED
    BY <2>1, <2>2, <2>3 DEF Typed, TypeOK
<1>6. CASE GetFor
  <2>1. LoopOK' /\ HandOK'
    BY <1>6, <1>t
       DEF GetFor, Loop, ChatOK, LoopOK, HandOK
  <2>2. ConnOK' /\ InOK' /\ ItemOK' /\ ChatOK' /\ CleanOK'
    BY <1>6, <1>t
       DEF GetFor, Loop, connVars, inVars, itemVars, chatVars, cleanVars, ConnOK,
           InOK, ItemOK, ChatOK, CleanOK
  <2> QED
    BY <2>1, <2>2 DEF Typed, TypeOK
<1>7. CASE SendKept
  <2>1. LoopOK' /\ HandOK'
    BY <1>7, <1>t
       DEF SendKept, Loop, LoopOK, HandOK
  <2>2. ChatOK'
    <3>1. PICK m \in batch : SendToUID(m) /\ owed' = owed \ {m}
      BY <1>7 DEF SendKept
    <3>2. m \in Chats /\ kept' = kept /\ received' = received
      BY <1>7, <1>t, <3>1 DEF SendKept, LoopOK
    <3>3. got' \in [Conns -> SUBSET Chats]
      BY <1>t, <3>1, <3>2 DEF SendToUID, ChatOK
    <3> QED
      BY <1>t, <3>1, <3>2, <3>3 DEF ChatOK
  <2>3. ConnOK' /\ InOK' /\ ItemOK' /\ CleanOK'
    BY <1>7, <1>t
       DEF SendKept, Loop, connVars, inVars, itemVars, cleanVars, ConnOK, InOK,
           ItemOK, CleanOK
  <2> QED
    BY <2>1, <2>2, <2>3 DEF Typed, TypeOK
<1>8. CASE SendEnds
  <2>1. LoopOK' /\ HandOK'
    BY <1>8, <1>t
       DEF SendEnds, Loop, Done, LoopOK, HandOK
  <2>2. ConnOK' /\ InOK' /\ ItemOK' /\ ChatOK' /\ CleanOK'
    BY <1>8, <1>t
       DEF SendEnds, Loop, connVars, inVars, itemVars, chatVars, cleanVars, ConnOK,
           InOK, ItemOK, ChatOK, CleanOK
  <2> QED
    BY <2>1, <2>2 DEF Typed, TypeOK
<1>9. CASE KeepChat
  <2>1. LoopOK' /\ HandOK'
    BY <1>9, <1>t
       DEF KeepChat, Loop, LoopOK, HandOK
  <2>2. ChatOK'
    BY <1>9, <1>t, ChatType
       DEF KeepChat, Loop, InOK, ChatOK
  <2>3. ConnOK' /\ InOK' /\ ItemOK' /\ CleanOK'
    BY <1>9, <1>t
       DEF KeepChat, Loop, connVars, inVars, itemVars, cleanVars, ConnOK, InOK,
           ItemOK, CleanOK
  <2> QED
    BY <2>1, <2>2, <2>3 DEF Typed, TypeOK
<1>10. CASE RouteChat
  <2>1. LoopOK' /\ HandOK'
    BY <1>10, <1>t
       DEF RouteChat, Loop, Done, LoopOK, HandOK
  <2>2. ChatOK'
    BY <1>10, <1>t, ChatType
       DEF RouteChat, Loop, SendToUID, ChatOK
  <2>3. ConnOK' /\ InOK' /\ ItemOK' /\ CleanOK'
    BY <1>10, <1>t
       DEF RouteChat, Loop, connVars, inVars, itemVars, cleanVars, ConnOK, InOK,
           ItemOK, CleanOK
  <2> QED
    BY <2>1, <2>2, <2>3 DEF Typed, TypeOK
<1>11. CASE Metrics
  <2>1. LoopOK' /\ HandOK'
    BY <1>11, <1>t
       DEF Metrics, Loop, Done, LoopOK, HandOK
  <2>2. ItemOK'
    BY <1>11, <1>t, ContactType
       DEF Metrics, Loop, InOK, SeeNow, Ages, ItemOK
  <2>3. ChatOK'
    BY <1>11, <1>t
       DEF Metrics, Loop, ChatOK
  <2>4. ConnOK' /\ InOK' /\ CleanOK'
    BY <1>11, <1>t
       DEF Metrics, Loop, connVars, inVars, cleanVars, ConnOK, InOK, CleanOK
  <2> QED
    BY <2>1, <2>2, <2>3, <2>4 DEF Typed, TypeOK
<1>12. CASE Bye
  <2>1. LoopOK' /\ HandOK'
    <3>1. pc = "bye" /\ batch' = batch
      BY <1>12 DEF Bye, Loop
    <3>2. CASE Contact \in stored
      <4>1. pc' = "store" /\ msg' = msg /\ was' = [online |-> TRUE, seen |-> 0]
        BY <1>12, <3>2 DEF Bye, Loop
      <4>2. LoopOK'
        BY <3>1, <4>1, <1>t DEF LoopOK
      <4> QED
        BY <3>1, <4>1, <4>2, <1>t DEF HandOK
    <3>3. CASE Contact \notin stored
      <4>1. pc' = "idle" /\ msg' = <<>> /\ was' = was
        BY <1>12, <3>3 DEF Bye, Loop, Done
      <4> QED
        BY <3>1, <4>1, <1>t DEF LoopOK, HandOK
    <3> QED
      BY <3>2, <3>3
  <2>2. ItemOK'
    BY <1>12, <1>t, ContactType
       DEF Bye, Loop, ItemOK
  <2>3. ConnOK' /\ InOK' /\ ChatOK' /\ CleanOK'
    BY <1>12, <1>t
       DEF Bye, Loop, connVars, inVars, chatVars, cleanVars, ConnOK, InOK, ChatOK,
           CleanOK
  <2> QED
    BY <2>1, <2>2, <2>3 DEF Typed, TypeOK
<1>13. CASE StartPass
  <2>1. CleanOK'
    BY <1>13, <1>t
       DEF StartPass, Quiet, ItemOK, CleanOK
  <2>2. ConnOK' /\ InOK' /\ ItemOK' /\ LoopOK' /\ ChatOK' /\ HandOK'
    BY <1>13, <1>t
       DEF StartPass, Quiet, connVars, inVars, itemVars, loopVars, chatVars, ConnOK,
           InOK, ItemOK, LoopOK, ChatOK, HandOK
  <2> QED
    BY <2>1, <2>2 DEF Typed, TypeOK
<1>14. ASSUME NEW u \in Uids, Inspect(u) PROVE Typed'
  <2>1. CleanOK'
    BY <1>14, <1>t
       DEF Inspect, Quiet, CleanOK
  <2>2. ConnOK' /\ InOK' /\ ItemOK' /\ LoopOK' /\ ChatOK' /\ HandOK'
    BY <1>14, <1>t
       DEF Inspect, Quiet, connVars, inVars, itemVars, loopVars, chatVars, ConnOK,
           InOK, ItemOK, LoopOK, ChatOK, HandOK
  <2> QED
    BY <2>1, <2>2 DEF Typed, TypeOK
<1>15. ASSUME NEW u \in Uids, Fade(u) PROVE Typed'
  <2>1. ItemOK' /\ CleanOK'
    BY <1>15, <1>t
       DEF Fade, Quiet, ItemOK, CleanOK
  <2>2. ConnOK' /\ InOK' /\ LoopOK' /\ ChatOK' /\ HandOK'
    BY <1>15, <1>t
       DEF Fade, Quiet, connVars, inVars, loopVars, chatVars, ConnOK, InOK, LoopOK,
           ChatOK, HandOK
  <2> QED
    BY <2>1, <2>2 DEF Typed, TypeOK
<1>16. ASSUME NEW u \in Uids, Remove(u) PROVE Typed'
  <2>1. ItemOK' /\ CleanOK'
    BY <1>16, <1>t
       DEF Remove, Quiet, ItemOK, CleanOK
  <2>2. ConnOK' /\ InOK' /\ LoopOK' /\ ChatOK' /\ HandOK'
    BY <1>16, <1>t
       DEF Remove, Quiet, connVars, inVars, loopVars, chatVars, ConnOK, InOK, LoopOK,
           ChatOK, HandOK
  <2> QED
    BY <2>1, <2>2 DEF Typed, TypeOK
<1>17. ASSUME NEW u \in Uids, AdminRemove(u) PROVE Typed'
  <2>1. ItemOK' /\ CleanOK'
    BY <1>17, <1>t
       DEF AdminRemove, Quiet, ItemOK, CleanOK
  <2>2. ConnOK' /\ InOK' /\ LoopOK' /\ ChatOK' /\ HandOK'
    BY <1>17, <1>t
       DEF AdminRemove, Quiet, connVars, inVars, loopVars, chatVars, ConnOK, InOK,
           LoopOK, ChatOK, HandOK
  <2> QED
    BY <2>1, <2>2 DEF Typed, TypeOK
<1>18. ASSUME NEW u \in Uids, TimePasses(u) PROVE Typed'
  <2>1. ItemOK'
    BY <1>18, <1>t
       DEF TimePasses, Ages, ItemOK
  <2>2. ConnOK' /\ InOK' /\ LoopOK' /\ ChatOK' /\ CleanOK' /\ HandOK'
    BY <1>18, <1>t
       DEF TimePasses, connVars, inVars, loopVars, chatVars, cleanVars, ConnOK, InOK,
           LoopOK, ChatOK, CleanOK, HandOK
  <2> QED
    BY <2>1, <2>2 DEF Typed, TypeOK
<1>19. ASSUME NEW c \in Conns, Accept(c) PROVE Typed'
  <2>1. ConnOK'
    BY <1>19, <1>t
       DEF Accept, ConnOK
  <2>2. InOK' /\ ItemOK' /\ LoopOK' /\ ChatOK' /\ CleanOK' /\ HandOK'
    BY <1>19, <1>t
       DEF Accept, inVars, itemVars, loopVars, chatVars, cleanVars, InOK, ItemOK,
           LoopOK, ChatOK, CleanOK, HandOK
  <2> QED
    BY <2>1, <2>2 DEF Typed, TypeOK
<1>20. ASSUME NEW c \in Conns, StopConn(c) PROVE Typed'
  <2>1. ConnOK'
    BY <1>20, <1>t
       DEF StopConn, ConnOK
  <2>2. InOK' /\ ItemOK' /\ LoopOK' /\ ChatOK' /\ CleanOK' /\ HandOK'
    BY <1>20, <1>t
       DEF StopConn, inVars, itemVars, loopVars, chatVars, cleanVars, InOK, ItemOK,
           LoopOK, ChatOK, CleanOK, HandOK
  <2> QED
    BY <2>1, <2>2 DEF Typed, TypeOK
<1>21. ASSUME NEW c \in Conns, SetOffline(c) PROVE Typed'
  <2>1. ConnOK'
    BY <1>21, <1>t
       DEF SetOffline, ConnOK
  <2>2. ItemOK'
    BY <1>21, <1>t
       DEF SetOffline, ItemOK
  <2>3. InOK' /\ LoopOK' /\ ChatOK' /\ CleanOK' /\ HandOK'
    BY <1>21, <1>t
       DEF SetOffline, inVars, loopVars, chatVars, cleanVars, InOK, LoopOK, ChatOK,
           CleanOK, HandOK
  <2> QED
    BY <2>1, <2>2, <2>3 DEF Typed, TypeOK
<1>22. ASSUME NEW c \in Conns, TellOffline(c) PROVE Typed'
  <2>1. <<"offline", Owner[c]>> \in Messages
    BY PresenceAssumption DEF PresenceAssumption, Messages
  <2>2. /\ ch' \in Seq(Messages) /\ Len(ch') <= QueueCap
        /\ published' = published /\ now' = now
    BY <1>22, <1>t, <2>1, ChannelType DEF TellOffline
  <2>3. ConnOK'
    BY <1>22, <1>t
       DEF TellOffline, ConnOK
  <2>4. InOK'
    BY <1>t, <2>1, <2>2
       DEF InOK
  <2>5. ItemOK' /\ LoopOK' /\ ChatOK' /\ CleanOK' /\ HandOK'
    BY <1>22, <1>t
       DEF TellOffline, itemVars, loopVars, chatVars, cleanVars, ItemOK, LoopOK,
           ChatOK, CleanOK, HandOK
  <2> QED
    BY <2>3, <2>4, <2>5 DEF Typed, TypeOK
<1>23. ASSUME NEW c \in Conns, ReportPosition(c) PROVE Typed'
  <2>1. <<"position", c>> \in Messages
    BY PresenceAssumption DEF PresenceAssumption, Messages
  <2>2. Publish(c, <<"position", c>>) /\ known' = known \cup {c}
    BY <1>23 DEF ReportPosition
  <2> QED
    BY <1>t, <2>1, <2>2, PublishType DEF ConnOK
<1>24. ASSUME NEW c \in Conns, ReportMetrics(c) PROVE Typed'
  <2>1. <<"metrics", Owner[c]>> \in Messages
    BY PresenceAssumption DEF PresenceAssumption, Messages
  <2>2. Publish(c, <<"metrics", Owner[c]>>) /\ known' = known
    BY <1>24 DEF ReportMetrics
  <2> QED
    BY <1>t, <2>1, <2>2, PublishType DEF ConnOK
<1>25. ASSUME NEW c \in Conns, SayBye(c) PROVE Typed'
  <2>1. <<"bye", Owner[c]>> \in Messages
    BY PresenceAssumption DEF PresenceAssumption, Messages
  <2>2. Publish(c, <<"bye", Owner[c]>>) /\ known' = known \ {c}
    BY <1>25 DEF SayBye
  <2> QED
    BY <1>t, <2>1, <2>2, PublishType DEF ConnOK
<1>26. ASSUME NEW m \in Chats, WriteChat(m) PROVE Typed'
  <2>1. <<"chat", m>> \in Messages
    BY DEF Messages
  <2>2. NewCotMessage(<<"chat", m>>) /\ published' = published + 1 /\ now' = now
    BY <1>26 DEF WriteChat
  <2>3. InOK'
    BY <1>t, <2>1, <2>2, ChannelType
       DEF InOK
  <2>4. ConnOK' /\ ItemOK' /\ LoopOK' /\ ChatOK' /\ CleanOK' /\ HandOK'
    BY <1>26, <1>t
       DEF WriteChat, connVars, itemVars, loopVars, chatVars, cleanVars, ConnOK,
           ItemOK, LoopOK, ChatOK, CleanOK, HandOK
  <2> QED
    BY <2>3, <2>4 DEF Typed, TypeOK
<1>27. ASSUME NEW m \in Chats, ExpireChat(m) PROVE Typed'
  <2>1. ChatOK'
    BY <1>27, <1>t
       DEF ExpireChat, ChatOK
  <2>2. ConnOK' /\ InOK' /\ ItemOK' /\ LoopOK' /\ CleanOK' /\ HandOK'
    BY <1>27, <1>t
       DEF ExpireChat, connVars, inVars, itemVars, loopVars, cleanVars, ConnOK, InOK,
           ItemOK, LoopOK, CleanOK, HandOK
  <2> QED
    BY <2>1, <2>2 DEF Typed, TypeOK
<1>28. CASE UNCHANGED vars
  BY <1>28, <1>t
     DEF Typed, TypeOK, vars, connVars, inVars, itemVars, loopVars, chatVars, cleanVars,
         ConnOK, InOK, ItemOK, LoopOK, ChatOK, CleanOK, HandOK
<1> QED
  BY <1>1, <1>2, <1>3, <1>4, <1>5, <1>6, <1>7, <1>8, <1>9, <1>10, <1>11, <1>12, <1>13,
     <1>14, <1>15, <1>16, <1>17, <1>18, <1>19, <1>20, <1>21, <1>22, <1>23, <1>24,
     <1>25, <1>26, <1>27, <1>28
     DEF Next, LoopStep, CleanerStep, Leave, Reader
-----------------------------------------------------------------------------
(* Chat that is owed. *)

\* IInv beyond types.
Rest == /\ ClockAhead
        /\ owed \subseteq kept
        /\ HandRemembers
        /\ OwedChatWaits

\* Whatever goes on beside the loop may set items offline, remove them, and
\* let chat expire: it does not put an item online or touch what the loop holds.
LEMMA BesideTheLoop ==
  ASSUME IInv, UNCHANGED <<now, loopVars, seen, received>>,
         stored' \subseteq stored, owed' \subseteq owed, owed' \subseteq kept',
         \A u \in Uids : online'[u] => online[u]
  PROVE  Rest'
<1>1. /\ now' = now /\ pc' = pc /\ msg' = msg /\ was' = was /\ batch' = batch
      /\ seen' = seen /\ received' = received
  BY DEF loopVars
<1>2. ClockAhead'
  BY <1>1 DEF IInv, ClockAhead, Chat
<1>3. \A m \in owed : To[m] \in Uids
  BY PresenceAssumption DEF PresenceAssumption, IInv, TypeOK, ChatOK
<1>4. \A m \in owed' : Waits(m) => Waits(m)'
  BY <1>1, <1>3 DEF Waits
<1>5. HandRemembers'
  BY <1>1, <1>4 DEF IInv, HandRemembers, Found, Contact
<1>6. OwedChatWaits'
  BY <1>1, <1>3, <1>4 DEF IInv, OwedChatWaits, Waits, Contact
<1> QED
  BY <1>2, <1>5, <1>6 DEF Rest

\* Nor does the loop, while it works on the item itself.
LEMMA OwedStep == IInv /\ [Next]_vars => Rest'
<1> SUFFICES ASSUME IInv, [Next]_vars PROVE Rest'
  OBVIOUS
<1>t. ConnOK /\ InOK /\ ItemOK /\ LoopOK /\ ChatOK /\ CleanOK /\ HandOK
  BY DEF IInv, TypeOK
<1>r. ClockAhead /\ owed \subseteq kept /\ HandRemembers /\ OwedChatWaits
  BY DEF IInv
<1>n. /\ now \in Nat /\ seen \in [Uids -> Nat] /\ received \in [Chats -> Nat]
      /\ online \in [Uids -> BOOLEAN] /\ \A m \in owed : m \in Chats /\ To[m] \in Uids
  BY <1>t, PresenceAssumption DEF PresenceAssumption, InOK, ItemOK, ChatOK
<1>i. pc \in {"idle", "position", "chat", "metrics", "bye", "route", "update"} =>
        \A m \in owed : To[m] \notin stored \/ Waits(m)
  BY <1>r DEF OwedChatWaits, Waits
<1>1. CASE TakeMessage
  <2>1. /\ pc = "idle" /\ now' = now + 1
        /\ UNCHANGED <<stored, online, seen, was, batch, kept, received, owed>>
    BY <1>1 DEF TakeMessage, itemVars, chatVars
  <2>2. pc' \in {"idle", "position", "chat", "metrics", "bye"}
    BY <1>1, <1>t DEF TakeMessage, InOK, Messages
  <2>3. ClockAhead'
    BY <2>1, <2>2, <1>n, <1>r DEF ClockAhead
  <2>4. HandRemembers'
    BY <2>2 DEF HandRemembers
  <2>5. OwedChatWaits'
    BY <2>1, <1>i DEF OwedChatWaits, Waits
  <2> QED
    BY <2>1, <2>3, <2>4, <2>5, <1>r DEF Rest
<1>2. CASE FindItem
  <2>1. /\ pc = "position" /\ pc' = "update" /\ Contact \in stored /\ Contact' = Contact
        /\ was' = [online |-> online[Contact], seen |-> seen[Contact]]
        /\ UNCHANGED <<now, stored, online, seen, kept, received, owed>>
    BY <1>2 DEF FindItem, Loop, itemVars, chatVars, inVars, Contact
  <2>2. ClockAhead'
    BY <2>1, <1>r DEF ClockAhead
  <2>3. HandRemembers'
    BY <2>1, <1>i DEF HandRemembers, Found, Waits
  <2>4. OwedChatWaits'
    BY <2>1, <1>i DEF OwedChatWaits, Waits
  <2> QED
    BY <2>1, <2>2, <2>3, <2>4, <1>r DEF Rest
<1>3. CASE UpdateItem
  <2>1. /\ pc = "update" /\ pc' = "store" /\ Contact' = Contact
        /\ online' = [online EXCEPT ![Contact] = TRUE]
        /\ seen' = [seen EXCEPT ![Contact] = now]
        /\ UNCHANGED <<now, stored, was, kept, received, owed>>
    BY <1>3 DEF UpdateItem, Loop, SeeNow, chatVars, inVars, Contact
  <2>2. ClockAhead'
    BY <2>1, <1>n, <1>r DEF ClockAhead
  <2>3. \A m \in owed : Contact = To[m] => Found(m) /\ Found(m)'
    BY <2>1, <1>r DEF HandRemembers, Found
  <2>4. HandRemembers'
    BY <2>1, <2>3 DEF HandRemembers
  <2>5. OwedChatWaits'
    BY <2>1, <2>3, <1>i, <1>n DEF OwedChatWaits, Waits, Found
  <2> QED
    BY <2>1, <2>2, <2>4, <2>5, <1>r DEF Rest
<1>4. CASE StoreItem
  <2>1. /\ pc = "store" /\ pc' = (IF was.online THEN "idle" ELSE "get for")
        /\ ~was.online => Contact' = Contact
        /\ stored' = stored \cup {Contact}
        /\ UNCHANGED <<now, online, seen, was, kept, received, owed>>
    BY <1>4 DEF StoreItem, Loop, Done, chatVars, inVars, Contact
  <2>2. ClockAhead'
    BY <2>1, <1>r DEF ClockAhead
  <2>3. \A m \in owed : Contact = To[m] => (IF was.online THEN Waits(m) ELSE Found(m))
    BY <2>1, <1>r DEF HandRemembers, Found
  <2>4. \A m \in owed : Contact /= To[m] => To[m] \notin stored' \/ Waits(m)
    BY <2>1, <1>r DEF OwedChatWaits, Waits
  <2>5. HandRemembers'
    BY <2>1, <2>3 DEF HandRemembers, Found
  <2>6. OwedChatWaits'
    BY <2>1, <2>3, <2>4 DEF OwedChatWaits, Waits, Found
  <2> QED
    BY <2>1, <2>2, <2>5, <2>6, <1>r DEF Rest
<1>5. CASE CreateItem
  <2>1. /\ pc = "position" /\ pc' = "get for" /\ Contact \notin stored /\ Contact' = Contact
        /\ stored' = stored \cup {Contact} /\ was' = NotFound
        /\ online' = [online EXCEPT ![Contact] = TRUE]
        /\ seen' = [seen EXCEPT ![Contact] = now]
        /\ UNCHANGED <<now, kept, received, owed>>
    BY <1>5 DEF CreateItem, Loop, SeeNow, chatVars, inVars, Contact
  <2>2. ClockAhead'
    <3>1. pc' /= "route" /\ now' = now
      BY <2>1
    <3>2. \A u \in Uids : seen'[u] = seen[u] \/ seen'[u] = now
      BY <2>1, <1>n
    <3> QED
      BY <3>1, <3>2, <1>n, <1>r DEF ClockAhead
  <2>3. \A m \in owed : Found(m)'
    <3>1. ~was'.online /\ was'.seen = 0 /\ received' = received
      BY <2>1 DEF NotFound
    <3> QED
      BY <3>1, <1>n DEF Found
  <2>4. HandRemembers'
    BY <2>1, <2>3 DEF HandRemembers
  <2>5. OwedChatWaits'
    BY <2>1, <2>3, <1>i, <1>n DEF OwedChatWaits, Waits, Found
  <2> QED
    BY <2>1, <2>2, <2>4, <2>5, <1>r DEF Rest
<1>6. CASE GetFor
  <2>1. /\ pc = "get for" /\ pc' = "send" /\ Contact' = Contact
        /\ batch' = {m \in kept : To[m] = Contact /\ received[m] >= was.seen}
        /\ UNCHANGED <<now, stored, online, seen, was, kept, received, owed>>
    BY <1>6 DEF GetFor, Loop, itemVars, chatVars, inVars, Contact
  <2>2. ClockAhead'
    BY <2>1, <1>r DEF ClockAhead
  <2>3. was.seen \in Nat
    BY <1>t DEF LoopOK
  <2>4. \A m \in owed : Contact = To[m] => m \in batch'
    BY <2>1, <2>3, <1>r, <1>n DEF HandRemembers, Found
  <2>5. HandRemembers'
    BY <2>1, <2>4 DEF HandRemembers
  <2>6. OwedChatWaits'
    BY <2>1, <2>4, <1>r DEF OwedChatWaits
  <2> QED
    BY <2>1, <2>2, <2>5, <2>6, <1>r DEF Rest
<1>7. CASE SendKept
  <2>1. PICK m \in batch : batch' = batch \ {m} /\ owed' = owed \ {m}
    BY <1>7 DEF SendKept
  <2>2. /\ pc = "send" /\ pc' = "send" /\ Contact' = Contact
        /\ UNCHANGED <<now, stored, online, seen, kept, received>>
    BY <1>7 DEF SendKept, Loop, itemVars, inVars, Contact
  <2>3. ClockAhead'
    BY <2>2, <1>r DEF ClockAhead
  <2>4. HandRemembers'
    BY <2>1, <2>2, <1>r DEF HandRemembers
  <2>5. OwedChatWaits'
    BY <2>1, <2>2, <1>r DEF OwedChatWaits
  <2> QED
    BY <2>1, <2>2, <2>3, <2>4, <2>5, <1>r DEF Rest
<1>8. CASE SendEnds
  <2>1. /\ pc = "send" /\ pc' = "idle" /\ batch = {}
        /\ UNCHANGED <<now, stored, online, seen, kept, received, owed>>
    BY <1>8 DEF SendEnds, Loop, itemVars, chatVars, inVars
  <2>2. ClockAhead' /\ HandRemembers'
    BY <2>1, <1>r DEF ClockAhead, HandRemembers
  <2>3. OwedChatWaits'
    BY <2>1, <1>r DEF OwedChatWaits
  <2> QED
    BY <2>1, <2>2, <2>3, <1>r DEF Rest
<1>9. CASE KeepChat
  <2>1. Chat \in Chats
    BY <1>9, <1>t, ChatType DEF KeepChat, Loop
  <2>2. /\ pc = "chat" /\ pc' = "route" /\ Chat' = Chat
        /\ kept' = kept \cup {Chat} /\ received' = [received EXCEPT ![Chat] = now]
        /\ UNCHANGED <<now, stored, online, seen, owed>>
    BY <1>9 DEF KeepChat, Loop, itemVars, inVars, Chat
  <2>3. ClockAhead'
    BY <2>1, <2>2, <1>n, <1>r DEF ClockAhead
  <2>4. HandRemembers'
    BY <2>2 DEF HandRemembers
  <2>5. \A m \in owed : Waits(m) => Waits(m)'
    BY <2>1, <2>2, <1>n, <1>r DEF Waits, ClockAhead
  <2>6. OwedChatWaits'
    BY <2>2, <2>5, <1>i DEF OwedChatWaits, Waits
  <2> QED
    BY <2>2, <2>3, <2>4, <2>6, <1>r DEF Rest
<1>10. CASE RouteChat
  <2>1. Chat \in Chats /\ To[Chat] \in Uids
    BY <1>10, <1>t, ChatType, PresenceAssumption DEF PresenceAssumption, RouteChat, Loop
  <2>2. /\ pc = "route" /\ pc' = "idle"
        /\ \/ owed' = owed
           \/ owed' = owed \cup {Chat} /\ Chat \in kept /\ Away(To[Chat])
        /\ UNCHANGED <<now, stored, online, seen, kept, received>>
    BY <1>10 DEF RouteChat, Loop, itemVars, inVars
  <2>3. ClockAhead' /\ HandRemembers'
    BY <2>2, <1>r DEF ClockAhead, HandRemembers
  <2>4. Away(To[Chat]) => To[Chat] \notin stored \/ Waits(Chat)
    BY <2>1, <2>2, <1>r DEF Away, Waits, ClockAhead
  <2>5. OwedChatWaits'
    BY <2>2, <2>4, <1>i DEF OwedChatWaits, Waits
  <2> QED
    BY <2>2, <2>3, <2>5, <1>r DEF Rest
<1>11. CASE Metrics
  <2>1. /\ pc = "metrics" /\ pc' = "idle" /\ UNCHANGED <<now, stored, kept, received>>
    BY <1>11 DEF Metrics, Loop, inVars
  <2>2. \/ /\ online' = [online EXCEPT ![Contact] = TRUE]
           /\ seen' = [seen EXCEPT ![Contact] = now]
           /\ owed' = {m \in owed : To[m] /= Contact}
        \/ UNCHANGED <<online, seen, owed>>
    BY <1>11 DEF Metrics, SeeNow
  <2>3. ClockAhead'
    BY <2>1, <2>2, <1>n, <1>r DEF ClockAhead
  <2>4. HandRemembers'
    BY <2>1 DEF HandRemembers
  <2>5. \A m \in owed' : m \in owed /\ (Waits(m) => Waits(m)')
    BY <2>1, <2>2, <1>n DEF Waits
  <2>6. OwedChatWaits'
    BY <2>1, <2>5, <1>i DEF OwedChatWaits, Waits
  <2>7. owed' \subseteq kept'
    BY <2>1, <2>5, <1>r
  <2> QED
    BY <2>3, <2>4, <2>6, <2>7 DEF Rest
<1>12. CASE Bye
  <2>1. /\ pc = "bye" /\ pc' \in {"store", "idle"}
        /\ UNCHANGED <<now, stored, seen, kept, received, owed>>
    BY <1>12 DEF Bye, Loop, chatVars, inVars
  <2>2. \/ /\ Contact \in stored /\ Contact' = Contact /\ was'.online
           /\ online' = [online EXCEPT ![Contact] = FALSE]
        \/ pc' = "idle" /\ online' = online
    BY <1>12 DEF Bye, Loop, Contact
  <2>3. ClockAhead'
    BY <2>1, <1>r DEF ClockAhead
  <2>4. \A m \in owed : Waits(m) => Waits(m)'
    BY <2>1, <2>2, <1>n DEF Waits
  <2>5. HandRemembers'
    BY <2>1, <2>2, <2>4, <1>i DEF HandRemembers
  <2>6. OwedChatWaits'
    BY <2>1, <2>4, <1>i DEF OwedChatWaits, Waits
  <2> QED
    BY <2>1, <2>3, <2>5, <2>6, <1>r DEF Rest
<1>13. CASE CleanerStep \/ \E u \in Uids : TimePasses(u) \/ AdminRemove(u)
  <2>1. /\ UNCHANGED <<now, loopVars, seen, received, kept, owed>>
        /\ stored' \subseteq stored /\ \A u \in Uids : online'[u] => online[u]
    BY <1>13, <1>n DEF CleanerStep, StartPass, Inspect, Fade, Remove, AdminRemove,
                       TimePasses, Quiet, itemVars, chatVars
  <2> QED
    BY <2>1, <1>r, BesideTheLoop
<1>14. CASE \E c \in Conns : Accept(c) \/ StopConn(c) \/ Leave(c) \/ Reader(c)
  <2>1. /\ UNCHANGED <<now, loopVars, stored, seen, received, kept, owed>>
        /\ \A u \in Uids : online'[u] => online[u]
    BY <1>14, <1>n DEF Accept, StopConn, Leave, SetOffline, TellOffline, Reader,
                       ReportPosition, ReportMetrics, SayBye, Publish, itemVars, chatVars
  <2> QED
    BY <2>1, <1>r, BesideTheLoop
<1>15. CASE \E m \in Chats : WriteChat(m) \/ ExpireChat(m)
  <2>1. /\ UNCHANGED <<now, loopVars, stored, online, seen, received>>
        /\ owed' \subseteq owed /\ owed' \subseteq kept'
    BY <1>15, <1>r DEF WriteChat, ExpireChat, itemVars, chatVars
  <2> QED
    BY <2>1, BesideTheLoop
<1>16. CASE UNCHANGED vars
  <2>1. UNCHANGED <<now, loopVars, stored, online, seen, received, kept, owed>>
    BY <1>16 DEF vars, itemVars, chatVars
  <2> QED
    BY <2>1, <1>r, BesideTheLoop
<1> QED
  BY <1>1, <1>2, <1>3, <1>4, <1>5, <1>6, <1>7, <1>8, <1>9, <1>10, <1>11, <1>12, <1>13,
     <1>14, <1>15, <1>16 DEF Next, LoopStep

-----------------------------------------------------------------------------
\* A server that starts.
LEMMA InitInv == Init => IInv
<1> SUFFICES ASSUME Init PROVE IInv
  OBVIOUS
<1>1. TypeOK
  BY PresenceAssumption
     DEF PresenceAssumption, Init, NotFound, Ages, TypeOK, ConnOK, InOK, ItemOK, LoopOK,
         ChatOK, CleanOK
<1>2. HandOK /\ ClockAhead /\ owed \subseteq kept /\ HandRemembers /\ OwedChatWaits
  BY DEF Init, HandOK, ClockAhead, HandRemembers, OwedChatWaits
<1> QED
  BY <1>1, <1>2 DEF IInv

\* The inductive invariant, which relates what the loop remembers of an item
\* to the chat its contact is owed, holds for any contacts, connections and chat.
THEOREM Invariance == Spec => []IInv
<1>1. IInv /\ [Next]_vars => IInv'
  BY TypeStep, OwedStep DEF IInv, Typed, Rest
<1> QED
  BY <1>1, InitInv, PTL DEF Spec

\* Items, queue and store keep their types, app.ch its capacity.
THEOREM TypeCorrect == Spec => []TypeOK
<1>1. IInv => TypeOK
  BY DEF IInv
<1> QED
  BY <1>1, Invariance, PTL

\* saveItemProcessor, removeItemProcessor, RemoveHandlerCb, cleanOldUnits and the
\* administrator never put chat that is owed out of reach of the next position.
THEOREM KeepsOwedChat == Spec => []OwedChatWaits
<1>1. IInv => OwedChatWaits
  BY DEF IInv
<1> QED
  BY <1>1, Invariance, PTL
=============================================================================
