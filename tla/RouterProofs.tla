----------------------------- MODULE RouterProofs -----------------------------
(* Theorems about Router, for every set of connections, contacts and scopes *)
(* and every capacity of the channels.                                      *)
EXTENDS Router, SequenceTheorems, TLAPS

\* Every message of a connection carries the scope of that connection, at
\* every place the path holds messages, and sendChan got what SendMsg let by.
Stamped(m) == m.from \in Conns => m.scope = Home[m.from]

ScopesStamped ==
  /\ \A i \in 1 .. Len(ch) : Stamped(ch[i])
  /\ \A i \in 1 .. Len(msg) : Stamped(msg[i])
  /\ \A c \in Conns : \A i \in 1 .. Len(got[c]) :
       Stamped(got[c][i].message) /\ CanSee(c, got[c][i].message)

\* app.ch holds ids in order; what was taken from it is older;
ChannelOrdered ==
  /\ \A i \in 1 .. Len(ch) : ch[i].id < nextId
  /\ \A i, j \in 1 .. Len(ch) : i < j => ch[i].id < ch[j].id

HandOlder ==
  \A i \in 1 .. Len(msg) : /\ msg[i].id < nextId
                           /\ \A j \in 1 .. Len(ch) : msg[i].id < ch[j].id

\* and what a connection got is older still, or a copy of the message in
\* hand that this walk, once it has visited the connection, or one before made.
SentOlder ==
  \A c \in Conns : \A i \in 1 .. Len(got[c]) :
    LET p == got[c][i] IN
    /\ p.message.id < nextId
    /\ \A j \in 1 .. Len(ch) : p.message.id < ch[j].id
    /\ todo /= <<>> =>
         /\ p.message.id <= msg[1].id
         /\ p.message.id = msg[1].id => p.walk >= Len(todo)
         /\ p.message.id = msg[1].id /\ p.walk = Len(todo) => c \in visited

\* A broadcast is one walk.
OneWalk == todo /= <<>> /\ msg[1].dest = Broadcast => todo = Broadcast

Stages == ChannelOrdered /\ HandOlder /\ SentOlder

IInv == /\ TypeOK
        /\ ScopesStamped
        /\ Stages
        /\ OneWalk
        /\ OneOrder
        /\ NoEcho
-----------------------------------------------------------------------------
(* Types. *)

\* What the select on app.ch does with a message of the right type.
LEMMA ChannelType ==
  ASSUME TypeOK, NEW m \in Messages, NewCotMessage(m)
  PROVE  /\ ch' \in Seq(Messages) /\ Len(ch') <= QueueCap
         /\ lost' \in BOOLEAN
         /\ nextId' \in Nat
<1>1. /\ ch \in Seq(Messages) /\ Len(ch) <= QueueCap
      /\ lost \in BOOLEAN /\ nextId \in Nat /\ QueueCap \in Nat
  BY RouterAssumption DEF RouterAssumption, TypeOK
<1>2. nextId' \in Nat
  BY <1>1 DEF NewCotMessage
<1>3. lost' \in BOOLEAN
  BY <1>1, Zenon DEF NewCotMessage
<1>4. CASE Len(ch) < QueueCap
  <2>1. ch' = Append(ch, m)
    BY <1>4 DEF NewCotMessage
  <2> QED
    BY <1>1, <1>2, <1>3, <1>4, <2>1
<1>5. CASE ~(Len(ch) < QueueCap)
  BY <1>1, <1>2, <1>3, <1>5 DEF NewCotMessage
<1> QED
  BY <1>4, <1>5

\* The messages readers make are messages.
LEMMA ReaderMessage ==
  ASSUME TypeOK, NEW c \in Conns, NEW d \in Dests
  PROVE  FromReader(c, d) \in Messages
  BY RouterAssumption DEF RouterAssumption, TypeOK, FromReader, Messages

\* Every step keeps the types.
LEMMA TypeStep == TypeOK /\ [Next]_vars => TypeOK'
<1> SUFFICES ASSUME TypeOK, [Next]_vars PROVE TypeOK'
  OBVIOUS
<1>0. Broadcast \in Dests
  BY RouterAssumption DEF RouterAssumption
<1>1. ASSUME NEW c \in Conns, NEW d \in Dests, Publish(c, d) PROVE TypeOK'
  <2>1. late' \subseteq Conns
    BY <1>1 DEF Publish, MayPublish, TypeOK
  <2>2. FromReader(c, d) \in Messages
    BY ReaderMessage
  <2>3. NewCotMessage(FromReader(c, d))
    BY <1>1 DEF Publish
  <2> QED
    BY <1>1, <2>1, <2>2, <2>3, ChannelType DEF Publish, TypeOK, loopVars, outVars
<1>2. ASSUME NEW c \in Conns, NEW u \in Uids, Announce(c, u) PROVE TypeOK'
  <2>1. late' \subseteq Conns
    BY <1>2 DEF Announce, MayPublish, TypeOK
  <2>2. FromReader(c, Broadcast) \in Messages
    BY <1>0, ReaderMessage
  <2>3. NewCotMessage(FromReader(c, Broadcast))
    BY <1>2 DEF Announce
  <2>4. uids' \in [Conns -> SUBSET Uids]
    BY <1>2 DEF Announce, TypeOK
  <2> QED
    BY <1>2, <2>1, <2>2, <2>3, <2>4, ChannelType DEF Announce, TypeOK, loopVars, outVars
<1>3. ASSUME NEW c \in Conns, NEW u \in Uids, Withdraw(c, u) PROVE TypeOK'
  <2>1. late' \subseteq Conns
    BY <1>3 DEF Withdraw, MayPublish, TypeOK
  <2>2. FromReader(c, Broadcast) \in Messages
    BY <1>0, ReaderMessage
  <2>3. NewCotMessage(FromReader(c, Broadcast))
    BY <1>3 DEF Withdraw
  <2>4. uids' \in [Conns -> SUBSET Uids]
    BY <1>3 DEF Withdraw, TypeOK
  <2> QED
    BY <1>3, <2>1, <2>2, <2>3, <2>4, ChannelType DEF Withdraw, TypeOK, loopVars, outVars
<1>4. ASSUME NEW s \in Scopes \cup {Local}, Inject(s) PROVE TypeOK'
  <2> DEFINE m == [id |-> nextId, from |-> NoConn, scope |-> s,
                   dest |-> Broadcast, offline |-> {}]
  <2>1. m \in Messages
    BY <1>0 DEF TypeOK, Messages
  <2>2. NewCotMessage(m)
    BY <1>4 DEF Inject
  <2> QED
    BY <1>4, <2>1, <2>2, ChannelType DEF Inject, TypeOK, loopVars, outVars
<1>5. ASSUME NEW c \in Conns, Accept(c) PROVE TypeOK'
  BY <1>5 DEF Accept, TypeOK, loopVars, outVars
<1>6. ASSUME NEW c \in Conns, StopConn(c) PROVE TypeOK'
  BY <1>6 DEF StopConn, TypeOK, loopVars, outVars
<1>7. ASSUME NEW c \in Conns, RemoveHandler(c) PROVE TypeOK'
  BY <1>7 DEF RemoveHandler, TypeOK, loopVars, outVars
<1>8. ASSUME NEW c \in Conns, NEW u \in Uids, TellOffline(c, u) PROVE TypeOK'
  <2> DEFINE m == [id |-> nextId, from |-> c, scope |-> Home[c],
                   dest |-> Broadcast, offline |-> {u}]
  <2>1. m \in Messages
    BY <1>0, RouterAssumption DEF RouterAssumption, TypeOK, Messages
  <2>2. NewCotMessage(m)
    BY <1>8 DEF TellOffline
  <2>3. toTell' \in [Conns -> SUBSET Uids]
    BY <1>8 DEF TellOffline, TypeOK
  <2> QED
    BY <1>8, <2>1, <2>2, <2>3, ChannelType DEF TellOffline, TypeOK, loopVars, outVars
<1>9. ASSUME NEW c \in Conns, Removed(c) PROVE TypeOK'
  BY <1>9 DEF Removed, TypeOK, loopVars, outVars
<1>10. CASE Dequeue
  <2>1. ch' \in Seq(Messages) /\ Len(ch') <= QueueCap
    BY <1>10, RouterAssumption DEF RouterAssumption, Dequeue, TypeOK
  <2>2. msg' \in Seq(Messages) /\ Len(msg') = 1
    BY <1>10 DEF Dequeue, TypeOK
  <2>3. todo' \in Dests
    <3>1. Head(ch) \in Messages
      BY <1>10 DEF Dequeue, TypeOK
    <3>2. todo' = Head(ch).dest
      BY <1>10 DEF Dequeue
    <3> QED
      BY <3>1, <3>2 DEF Messages
  <2>4. todo' \in Seq(Targets) /\ todo' /= <<>>
    BY <2>3, RouterAssumption DEF RouterAssumption
  <2> QED
    BY <1>10, <2>1, <2>2, <2>4 DEF Dequeue, TypeOK, outVars
<1>11. ASSUME NEW c \in Conns, Visit(c) PROVE TypeOK'
  <2>1. /\ msg \in Seq(Messages) /\ Len(msg) = 1
        /\ todo \in Seq(Targets)
    BY <1>11 DEF Visit, TypeOK
  <2>2. [message |-> msg[1], walk |-> Len(todo)] \in Packets
    BY <2>1 DEF Packets
  <2>3. lost' \in BOOLEAN
    BY <1>11, Zenon DEF Visit, TypeOK
  <2>4. CASE UNCHANGED outVars
    BY <1>11, <2>3, <2>4 DEF Visit, TypeOK, outVars
  <2>5. CASE queue[c] < SendCap /\ Send(c)
    <3>1. got' \in [Conns -> Seq(Packets)]
      BY <2>2, <2>5 DEF TypeOK, Send
    <3>2. queue' \in [Conns -> 0 .. SendCap]
      BY <2>5, RouterAssumption DEF RouterAssumption, TypeOK, Send
    <3> QED
      BY <1>11, <2>3, <3>1, <3>2 DEF Visit, TypeOK
  <2> QED
    BY <1>11, <2>4, <2>5 DEF Visit
<1>12. CASE EndRange
  <2>1. todo' \in Seq(Targets)
    BY <1>12 DEF EndRange, TypeOK
  <2>2. msg' \in Seq(Messages) /\ Len(msg') = (IF todo' = <<>> THEN 0 ELSE 1)
    <3>1. msg \in Seq(Messages) /\ Len(msg) = 1
      BY <1>12 DEF EndRange, TypeOK
    <3>2. CASE Tail(todo) = <<>>
      <4>1. msg' = <<>> /\ todo' = <<>>
        BY <1>12, <3>2 DEF EndRange
      <4> QED
        BY <4>1
    <3>3. CASE Tail(todo) /= <<>>
      <4>1. msg' = msg /\ todo' /= <<>>
        BY <1>12, <3>3 DEF EndRange
      <4> QED
        BY <3>1, <4>1
    <3> QED
      BY <3>2, <3>3
  <2>3. start' \subseteq Conns
    BY <1>12 DEF EndRange, TypeOK
  <2> QED
    BY <1>12, <2>1, <2>2, <2>3 DEF EndRange, TypeOK, outVars
<1>13. ASSUME NEW c \in Conns, WriterTakes(c) PROVE TypeOK'
  <2>1. queue' \in [Conns -> 0 .. SendCap]
    BY <1>13, RouterAssumption DEF RouterAssumption, WriterTakes, TypeOK
  <2> QED
    BY <1>13, <2>1 DEF WriterTakes, TypeOK, loopVars
<1>14. CASE UNCHANGED vars
  BY <1>14 DEF vars, loopVars, outVars, TypeOK
<1> QED
  BY <1>1, <1>2, <1>3, <1>4, <1>5, <1>6, <1>7, <1>8, <1>9, <1>10, <1>11,
     <1>12, <1>13, <1>14 DEF Next, FromPeers, Injects, Leave, LoopStep

\* An element of a sequence of messages is one, and its id is a number.
LEMMA MessageId ==
  ASSUME NEW s \in Seq(Messages), NEW i \in 1 .. Len(s)
  PROVE  s[i] \in Messages /\ s[i].id \in Nat
<1>1. s[i] \in Messages
  OBVIOUS
<1> QED
  BY <1>1 DEF Messages

\* The same for packets.
LEMMA PacketId ==
  ASSUME NEW s \in Seq(Packets), NEW i \in 1 .. Len(s)
  PROVE  s[i].message.id \in Nat /\ s[i].walk \in Nat
<1>1. s[i] \in Packets
  OBVIOUS
<1> QED
  BY <1>1 DEF Packets, Messages

-----------------------------------------------------------------------------
(* What the path holds, and in which order. *)

MessagesInv == ScopesStamped /\ Stages /\ OneWalk /\ OneOrder /\ NoEcho

\* A new message with the scope of its connection may enter app.ch.
LEMMA ChannelInv ==
  ASSUME IInv, NEW m \in Messages, m.id = nextId, Stamped(m), NewCotMessage(m),
         UNCHANGED <<loopVars, outVars>>
  PROVE  MessagesInv'
<1>1. UNCHANGED <<msg, todo, visited, got>>
  BY DEF loopVars, outVars
<1>2. /\ ch \in Seq(Messages) /\ msg \in Seq(Messages) /\ nextId \in Nat
      /\ got \in [Conns -> Seq(Packets)]
  BY DEF IInv, TypeOK
<1>3. /\ \A i \in 1 .. Len(ch) : ch[i].id \in Nat
      /\ \A i \in 1 .. Len(msg) : msg[i].id \in Nat
      /\ \A c \in Conns : \A i \in 1 .. Len(got[c]) : got[c][i].message.id \in Nat
  BY <1>2, MessageId, PacketId
<1>4. OneWalk' /\ OneOrder' /\ NoEcho'
  BY <1>1 DEF IInv, OneWalk, OneOrder, NoEcho
<1>5. nextId' = nextId + 1
  BY DEF NewCotMessage
<1>6. CASE ch' = ch
  <2>1. ScopesStamped'
    BY <1>1, <1>6 DEF IInv, ScopesStamped, Stamped, CanSee
  <2>2. ChannelOrdered' /\ HandOlder'
    BY <1>1, <1>2, <1>3, <1>5, <1>6 DEF IInv, Stages, ChannelOrdered, HandOlder
  <2>3. SentOlder'
    BY <1>1, <1>2, <1>3, <1>5, <1>6 DEF IInv, Stages, SentOlder
  <2> QED
    BY <1>4, <2>1, <2>2, <2>3 DEF MessagesInv, Stages
<1>7. CASE ch' = Append(ch, m)
  <2>1. /\ Len(ch') = Len(ch) + 1 /\ ch'[Len(ch) + 1] = m
        /\ \A i \in 1 .. Len(ch) : ch'[i] = ch[i]
    BY <1>2, <1>7
  <2>2. ScopesStamped'
    BY <1>1, <1>2, <2>1 DEF IInv, ScopesStamped, Stamped, CanSee
  <2>3. ChannelOrdered'
    <3>1. ASSUME NEW i \in 1 .. Len(ch') PROVE ch'[i].id < nextId'
      BY <1>2, <1>3, <1>5, <2>1 DEF IInv, Stages, ChannelOrdered
    <3>2. ASSUME NEW i \in 1 .. Len(ch'), NEW j \in 1 .. Len(ch'), i < j
          PROVE  ch'[i].id < ch'[j].id
      <4>1. i \in 1 .. Len(ch)
        BY <1>2, <2>1, <3>2
      <4>2. CASE j \in 1 .. Len(ch)
        BY <2>1, <3>2, <4>1, <4>2 DEF IInv, Stages, ChannelOrdered
      <4>3. CASE j = Len(ch) + 1
        BY <2>1, <4>1, <4>3 DEF IInv, Stages, ChannelOrdered
      <4> QED
        BY <1>2, <2>1, <4>2, <4>3
    <3> QED
      BY <3>1, <3>2 DEF ChannelOrdered
  <2>4. HandOlder'
    <3> SUFFICES ASSUME NEW i \in 1 .. Len(msg)
                 PROVE  msg[i].id < nextId' /\ \A j \in 1 .. Len(ch') : msg[i].id < ch'[j].id
      BY <1>1 DEF HandOlder
    <3>1. msg[i].id \in Nat /\ msg[i].id < nextId /\ \A j \in 1 .. Len(ch) : msg[i].id < ch[j].id
      BY <1>3 DEF IInv, Stages, HandOlder
    <3>2. msg[i].id < nextId'
      BY <1>2, <1>5, <3>1
    <3>3. ASSUME NEW j \in 1 .. Len(ch') PROVE msg[i].id < ch'[j].id
      <4>1. j \in 1 .. Len(ch) \/ j = Len(ch) + 1
        BY <1>2, <2>1, <3>3
      <4> QED
        BY <2>1, <3>1, <4>1
    <3> QED
      BY <3>2, <3>3
  <2>5. SentOlder'
    <3> SUFFICES ASSUME NEW c \in Conns, NEW i \in 1 .. Len(got[c])
                 PROVE  /\ got[c][i].message.id < nextId'
                        /\ \A j \in 1 .. Len(ch') : got[c][i].message.id < ch'[j].id
      BY <1>1 DEF IInv, Stages, SentOlder
    <3>1. /\ got[c][i].message.id \in Nat /\ got[c][i].message.id < nextId
          /\ \A j \in 1 .. Len(ch) : got[c][i].message.id < ch[j].id
      BY <1>3 DEF IInv, Stages, SentOlder
    <3>2. ASSUME NEW j \in 1 .. Len(ch') PROVE got[c][i].message.id < ch'[j].id
      <4>1. CASE j \in 1 .. Len(ch)
        BY <2>1, <3>1, <4>1
      <4>2. CASE j = Len(ch) + 1
        BY <2>1, <3>1, <4>2
      <4> QED
        BY <1>2, <2>1, <4>1, <4>2
    <3>3. got[c][i].message.id < nextId'
      BY <1>2, <1>5, <3>1
    <3> QED
      BY <3>2, <3>3
  <2> QED
    BY <1>4, <2>2, <2>3, <2>4, <2>5 DEF MessagesInv, Stages
<1> QED
  BY <1>6, <1>7 DEF NewCotMessage

\* A message that a reader makes carries the scope of its connection.
LEMMA ReaderInv ==
  ASSUME IInv, NEW c \in Conns, NEW d \in Dests, NewCotMessage(FromReader(c, d)),
         UNCHANGED <<loopVars, outVars>>
  PROVE  MessagesInv'
<1>1. FromReader(c, d) \in Messages
  BY ReaderMessage DEF IInv
<1>2. FromReader(c, d).id = nextId /\ Stamped(FromReader(c, d))
  BY DEF FromReader, Stamped
<1> QED
  BY <1>1, <1>2, ChannelInv

\* A step that moves no message keeps everything.
LEMMA IdleInv ==
  ASSUME IInv, UNCHANGED <<ch, msg, todo, visited, got, nextId>>
  PROVE  MessagesInv'
  BY DEF IInv, MessagesInv, ScopesStamped, Stages, ChannelOrdered, HandOlder,
         SentOlder, OneWalk, OneOrder, NoEcho, Stamped, CanSee

\* The walk hands the message in hand to one more connection, which has no
\* packet of this walk yet.
LEMMA VisitInv ==
  ASSUME IInv, NEW c \in Conns, Visit(c)
  PROVE  MessagesInv'
<1> DEFINE m == msg[1]
           pk == [message |-> m, walk |-> Len(todo)]
<1>1. /\ c \notin visited /\ visited' = visited \cup {c}
      /\ todo /= <<>> /\ UNCHANGED <<ch, msg, todo, nextId>>
  BY DEF Visit
<1>2. /\ msg \in Seq(Messages) /\ Len(msg) = 1 /\ todo \in Seq(Targets)
      /\ ch \in Seq(Messages) /\ nextId \in Nat
      /\ got \in [Conns -> Seq(Packets)]
  BY DEF Visit, IInv, TypeOK
<1>3. m \in Messages /\ m.id \in Nat /\ Len(todo) \in Nat
  <2>1. 1 \in 1 .. Len(msg) /\ Len(todo) \in Nat
    BY <1>2
  <2>2. m \in Messages /\ m.id \in Nat
    BY <1>2, <2>1, MessageId
  <2> QED
    BY <2>1, <2>2
<1>4. ChannelOrdered' /\ HandOlder' /\ OneWalk'
  BY <1>1 DEF IInv, Stages, ChannelOrdered, HandOlder, OneWalk
<1>5. \A d \in Conns : \A i \in 1 .. Len(got[d]) :
         got[d][i].message.id \in Nat /\ got[d][i].walk \in Nat
  BY <1>2, PacketId
<1>6. CASE got' = got
  <2>1. ScopesStamped' /\ OneOrder' /\ NoEcho'
    BY <1>1, <1>6 DEF IInv, ScopesStamped, OneOrder, NoEcho, Stamped, CanSee
  <2>2. SentOlder'
    BY <1>1, <1>6 DEF IInv, Stages, SentOlder
  <2> QED
    BY <1>4, <2>1, <2>2 DEF MessagesInv, Stages
<1>7. CASE Wanted(c) /\ Send(c)
  <2>1. \A d \in Conns : d /= c => got'[d] = got[d]
    BY <1>2, <1>7 DEF Send
  <2>2. got'[c] = Append(got[c], pk)
    BY <1>2, <1>7 DEF Send
  <2>3. pk \in Packets /\ got[c] \in Seq(Packets)
    BY <1>2, <1>3 DEF Packets
  <2>4. pk.message = m /\ pk.walk = Len(todo)
    OBVIOUS
  <2> HIDE DEF pk
  <2>5. /\ Len(got'[c]) = Len(got[c]) + 1 /\ got'[c][Len(got[c]) + 1] = pk
        /\ \A i \in 1 .. Len(got[c]) : got'[c][i] = got[c][i]
    BY <2>2, <2>3
  <2>6. Stamped(m) /\ CanSee(c, m)
    BY <1>2, <1>7 DEF IInv, ScopesStamped, Wanted
  <2>7. m.from = c => m.dest /= Broadcast
    <3> SUFFICES ASSUME m.dest = Broadcast PROVE m.from /= c
      OBVIOUS
    <3>1. Head(todo) = All
      BY <1>1 DEF IInv, OneWalk, Broadcast
    <3> QED
      BY <1>7, <3>1 DEF Wanted, Addressed, All
  <2>8. \A i \in 1 .. Len(got[c]) : Precedes(got[c][i], pk)
    <3> SUFFICES ASSUME NEW i \in 1 .. Len(got[c]) PROVE Precedes(got[c][i], pk)
      OBVIOUS
    <3> DEFINE p == got[c][i]
    <3>1. /\ p.message.id <= m.id
          /\ p.message.id = m.id => p.walk >= Len(todo) /\ p.walk /= Len(todo)
      BY <1>1 DEF IInv, Stages, SentOlder
    <3>2. p.message.id \in Nat /\ p.walk \in Nat
      BY <1>5
    <3> HIDE DEF m
    <3>3. p.message.id < pk.message.id \/ (p.message.id = pk.message.id /\ p.walk > pk.walk)
      BY <1>3, <2>4, <3>1, <3>2
    <3> QED
      BY <3>3 DEF Precedes
  <2>9. ScopesStamped'
    <3>1. ASSUME NEW d \in Conns, NEW i \in 1 .. Len(got'[d])
          PROVE  Stamped(got'[d][i].message) /\ CanSee(d, got'[d][i].message)
      <4>1. CASE d /= c
        BY <2>1, <4>1 DEF IInv, ScopesStamped
      <4>2. CASE d = c /\ i \in 1 .. Len(got[c])
        BY <2>5, <4>2 DEF IInv, ScopesStamped
      <4>3. CASE d = c /\ i = Len(got[c]) + 1
        BY <2>4, <2>5, <2>6, <4>3
      <4> QED
        BY <2>3, <2>5, <4>1, <4>2, <4>3
    <3> QED
      BY <1>1, <3>1 DEF IInv, ScopesStamped, Stamped, CanSee
  <2>10. NoEcho'
    BY <2>1, <2>3, <2>4, <2>5, <2>7 DEF IInv, NoEcho
  <2>11. OneOrder'
    <3>1. ASSUME NEW i \in 1 .. Len(got'[c]), NEW j \in 1 .. Len(got'[c]), i < j
          PROVE  Precedes(got'[c][i], got'[c][j])
      <4>1. Len(got[c]) \in Nat /\ i \in 1 .. Len(got[c])
        BY <2>3, <2>5, <3>1
      <4>2. CASE j \in 1 .. Len(got[c])
        BY <2>5, <3>1, <4>1, <4>2 DEF IInv, OneOrder
      <4>3. CASE j = Len(got[c]) + 1
        BY <2>5, <2>8, <4>1, <4>3
      <4> QED
        BY <2>5, <4>1, <4>2, <4>3
    <3>2. ASSUME NEW d \in Conns, d /= c,
                 NEW i \in 1 .. Len(got[d]), NEW j \in 1 .. Len(got[d]), i < j
          PROVE  Precedes(got[d][i], got[d][j])
      BY <3>2 DEF IInv, OneOrder
    <3>3. ASSUME NEW d \in Conns,
                 NEW i \in 1 .. Len(got'[d]), NEW j \in 1 .. Len(got'[d]), i < j
          PROVE  Precedes(got'[d][i], got'[d][j])
      <4>1. CASE d = c
        BY <3>1, <3>3, <4>1
      <4>2. CASE d /= c
        BY <2>1, <3>2, <3>3, <4>2
      <4> QED
        BY <4>1, <4>2
    <3> QED
      BY <3>3 DEF OneOrder, Precedes
  <2>12. SentOlder'
    <3> DEFINE Older(p, d) ==
          /\ p.message.id < nextId
          /\ \A j \in 1 .. Len(ch) : p.message.id < ch[j].id
          /\ p.message.id <= m.id
          /\ p.message.id = m.id => p.walk >= Len(todo)
          /\ p.message.id = m.id /\ p.walk = Len(todo) => d \in visited'
    <3>1. \A d \in Conns : \A i \in 1 .. Len(got[d]) : Older(got[d][i], d)
      BY <1>1 DEF IInv, Stages, SentOlder
    <3>2. Older(pk, c)
      BY <1>1, <1>2, <1>3, <2>4 DEF IInv, Stages, HandOlder
    <3> HIDE DEF Older
    <3>3. ASSUME NEW d \in Conns, NEW i \in 1 .. Len(got'[d]) PROVE Older(got'[d][i], d)
      <4>1. CASE d /= c
        BY <2>1, <3>1, <4>1
      <4>2. CASE d = c
        BY <2>3, <2>5, <3>1, <3>2, <4>2
      <4> QED
        BY <4>1, <4>2
    <3> QED
      BY <1>1, <3>3 DEF SentOlder, Older
  <2> QED
    BY <1>4, <2>9, <2>10, <2>11, <2>12 DEF MessagesInv, Stages
<1> QED
  BY <1>6, <1>7 DEF Visit, outVars

\* The loop takes the oldest message.
LEMMA DequeueInv ==
  ASSUME IInv, Dequeue
  PROVE  MessagesInv'
<1>1. /\ ch \in Seq(Messages) /\ ch /= <<>> /\ nextId \in Nat
      /\ got \in [Conns -> Seq(Packets)]
  BY DEF Dequeue, IInv, TypeOK
<1>2. /\ Len(ch') = Len(ch) - 1 /\ Len(ch) > 0
      /\ \A i \in 1 .. Len(ch') : ch'[i] = ch[i + 1]
  BY <1>1 DEF Dequeue
<1>3. Len(msg') = 1 /\ msg'[1] = ch[1] /\ todo' = ch[1].dest
  BY <1>1 DEF Dequeue
<1>4. UNCHANGED <<got, nextId>> /\ visited' = {}
  BY DEF Dequeue, outVars
<1>5. ScopesStamped'
  BY <1>1, <1>2, <1>3, <1>4 DEF IInv, ScopesStamped, Stamped, CanSee
<1>6. OneWalk' /\ OneOrder' /\ NoEcho'
  BY <1>3, <1>4 DEF IInv, OneWalk, OneOrder, NoEcho
<1>7. 1 \in 1 .. Len(ch) /\ \A i \in 1 .. Len(ch') : i \in 1 .. Len(ch) /\ i + 1 \in 1 .. Len(ch)
  BY <1>1, <1>2
<1>8. ChannelOrdered'
  <2>1. \A i \in 1 .. Len(ch') : ch'[i].id < nextId'
    BY <1>2, <1>4, <1>7 DEF IInv, Stages, ChannelOrdered
  <2>2. ASSUME NEW i \in 1 .. Len(ch'), NEW j \in 1 .. Len(ch'), i < j
        PROVE  ch'[i].id < ch'[j].id
    <3>1. i + 1 < j + 1
      BY <1>1, <1>2, <2>2
    <3> QED
      BY <1>2, <1>7, <3>1 DEF IInv, Stages, ChannelOrdered
  <2> QED
    BY <2>1, <2>2 DEF ChannelOrdered
<1>9. HandOlder'
  BY <1>1, <1>2, <1>3, <1>4 DEF IInv, Stages, ChannelOrdered, HandOlder
<1>10. SentOlder'
  <2> SUFFICES ASSUME NEW c \in Conns, NEW i \in 1 .. Len(got[c])
               PROVE  /\ got[c][i].message.id < nextId
                      /\ \A j \in 1 .. Len(ch') : got[c][i].message.id < ch'[j].id
                      /\ got[c][i].message.id < ch[1].id
                      /\ got[c][i].message.id \in Nat /\ ch[1].id \in Nat
    BY <1>3, <1>4 DEF SentOlder
  <2>1. /\ got[c][i].message.id < nextId
        /\ \A j \in 1 .. Len(ch) : got[c][i].message.id < ch[j].id
    BY DEF IInv, Stages, SentOlder
  <2>2. got[c][i].message.id \in Nat /\ ch[1].id \in Nat
    BY <1>1, <1>7, MessageId, PacketId
  <2> QED
    BY <1>2, <1>7, <2>1, <2>2
<1> QED
  BY <1>5, <1>6, <1>8, <1>9, <1>10 DEF MessagesInv, Stages

\* A walk ends: the next one, if any, has no packets yet.
LEMMA EndRangeInv ==
  ASSUME IInv, EndRange
  PROVE  MessagesInv'
<1>1. UNCHANGED <<ch, got, nextId>> /\ visited' = {} /\ todo' = Tail(todo)
  BY DEF EndRange, outVars
<1>2. /\ todo \in Seq(Targets) /\ todo /= <<>> /\ Len(msg) = 1
      /\ got \in [Conns -> Seq(Packets)]
  BY DEF EndRange, IInv, TypeOK
<1>3. OneOrder' /\ NoEcho'
  BY <1>1 DEF IInv, OneOrder, NoEcho
<1>4. CASE Tail(todo) = <<>>
  <2>1. msg' = <<>>
    BY <1>4 DEF EndRange
  <2> QED
    BY <1>1, <1>3, <1>4, <2>1
       DEF IInv, MessagesInv, ScopesStamped, Stages, ChannelOrdered, HandOlder,
           SentOlder, OneWalk, Stamped, CanSee
<1>5. CASE Tail(todo) /= <<>>
  <2>1. msg' = msg
    BY <1>5 DEF EndRange
  <2>2. Len(todo') = Len(todo) - 1 /\ Len(todo) \in Nat
    BY <1>1, <1>2
  <2>3. ScopesStamped' /\ ChannelOrdered' /\ HandOlder'
    BY <1>1, <2>1 DEF IInv, ScopesStamped, Stages, ChannelOrdered, HandOlder, Stamped, CanSee
  <2>4. OneWalk'
    BY <1>1, <1>2, <1>5, <2>1 DEF IInv, OneWalk, Broadcast
  <2>5. SentOlder'
    <3> SUFFICES ASSUME NEW c \in Conns, NEW i \in 1 .. Len(got[c])
                 PROVE  /\ got[c][i].message.id < nextId
                        /\ \A j \in 1 .. Len(ch) : got[c][i].message.id < ch[j].id
                        /\ got[c][i].message.id <= msg[1].id
                        /\ got[c][i].message.id = msg[1].id => got[c][i].walk > Len(todo')
                        /\ got[c][i].walk \in Nat
      BY <1>1, <2>1, <2>2 DEF SentOlder
    <3>1. got[c][i].walk \in Nat
      BY <1>2, PacketId
    <3> QED
      BY <1>2, <2>2, <3>1 DEF IInv, Stages, SentOlder
  <2> QED
    BY <1>3, <2>3, <2>4, <2>5 DEF MessagesInv, Stages
<1> QED
  BY <1>4, <1>5

\* Every step keeps the invariant.
LEMMA InvStep == IInv /\ [Next]_vars => IInv'
<1> SUFFICES ASSUME IInv, [Next]_vars
             PROVE  MessagesInv'
  BY TypeStep DEF IInv, MessagesInv
<1>0. Broadcast \in Dests
  BY RouterAssumption DEF RouterAssumption
<1>1. ASSUME NEW c \in Conns, NEW d \in Dests, Publish(c, d)
      PROVE  MessagesInv'
  BY <1>1, ReaderInv DEF Publish
<1>2. ASSUME NEW c \in Conns, NEW u \in Uids, Announce(c, u) \/ Withdraw(c, u)
      PROVE  MessagesInv'
  BY <1>0, <1>2, ReaderInv DEF Announce, Withdraw
<1>3. ASSUME NEW s \in Scopes \cup {Local}, Inject(s)
      PROVE  MessagesInv'
  <2> DEFINE m == [id |-> nextId, from |-> NoConn, scope |-> s,
                   dest |-> Broadcast, offline |-> {}]
  <2>1. m \in Messages
    BY <1>0 DEF IInv, TypeOK, Messages
  <2>2. m.id = nextId /\ Stamped(m)
    BY RouterAssumption DEF RouterAssumption, Stamped
  <2> HIDE DEF m
  <2>3. NewCotMessage(m) /\ UNCHANGED <<loopVars, outVars>>
    BY <1>3 DEF Inject, m
  <2> QED
    BY <2>1, <2>2, <2>3, ChannelInv
<1>4. ASSUME NEW c \in Conns, NEW u \in Uids, TellOffline(c, u)
      PROVE  MessagesInv'
  <2> DEFINE m == [id |-> nextId, from |-> c, scope |-> Home[c],
                   dest |-> Broadcast, offline |-> {u}]
  <2>1. m \in Messages
    BY <1>0, RouterAssumption DEF RouterAssumption, IInv, TypeOK, Messages
  <2>2. m.id = nextId /\ Stamped(m)
    BY DEF Stamped
  <2> HIDE DEF m
  <2>3. NewCotMessage(m) /\ UNCHANGED <<loopVars, outVars>>
    BY <1>4 DEF TellOffline, m
  <2> QED
    BY <2>1, <2>2, <2>3, ChannelInv
<1>5. ASSUME NEW c \in Conns,
             \/ Accept(c) \/ StopConn(c) \/ RemoveHandler(c) \/ Removed(c)
             \/ WriterTakes(c)
      PROVE  MessagesInv'
  BY <1>5, IdleInv
     DEF Accept, StopConn, RemoveHandler, Removed, WriterTakes, loopVars, outVars
<1>6. ASSUME NEW c \in Conns, Visit(c)
      PROVE  MessagesInv'
  BY <1>6, VisitInv
<1>7. CASE Dequeue
  BY <1>7, DequeueInv
<1>8. CASE EndRange
  BY <1>8, EndRangeInv
<1>9. CASE UNCHANGED vars
  BY <1>9, IdleInv DEF vars, loopVars, outVars
<1> QED
  BY <1>1, <1>2, <1>3, <1>4, <1>5, <1>6, <1>7, <1>8, <1>9
     DEF Next, FromPeers, Injects, Leave, LoopStep

\* The path is empty at the start.
LEMMA InitInv == Init => IInv
<1> SUFFICES ASSUME Init PROVE IInv
  OBVIOUS
<1>1. /\ state \in [Conns -> {"new", "open", "stopped", "leaving", "gone"}]
      /\ uids \in [Conns -> SUBSET Uids] /\ toTell \in [Conns -> SUBSET Uids]
      /\ queue \in [Conns -> 0 .. SendCap] /\ got \in [Conns -> Seq(Packets)]
      /\ ch \in Seq(Messages) /\ msg \in Seq(Messages) /\ todo \in Seq(Targets)
  BY RouterAssumption DEF RouterAssumption, Init
<1>2. /\ Len(ch) = 0 /\ Len(msg) = 0 /\ todo = <<>>
      /\ lost = FALSE /\ nextId = 0
      /\ handlers = {} /\ late = {} /\ start = {} /\ visited = {}
      /\ \A c \in Conns : Len(got[c]) = 0
  BY DEF Init
<1>3. TypeOK
  <2>1. Len(ch) <= QueueCap /\ nextId \in Nat
    BY <1>2, RouterAssumption DEF RouterAssumption
  <2>2. Len(msg) = (IF todo = <<>> THEN 0 ELSE 1) /\ lost \in BOOLEAN
    BY <1>2, Zenon
  <2> QED
    BY <1>1, <1>2, <2>1, <2>2 DEF TypeOK
<1> QED
  BY <1>2, <1>3 DEF IInv, ScopesStamped, Stages, ChannelOrdered, HandOlder,
                    SentOlder, OneWalk, OneOrder, NoEcho

-----------------------------------------------------------------------------
(* The theorems. *)

\* The invariant the others follow from holds in every behaviour.
THEOREM Invariance == Spec => []IInv
  BY InitInv, InvStep, PTL DEF Spec

\* Every variable keeps its type and no channel exceeds its capacity.
THEOREM TypeCorrect == Spec => []TypeOK
<1>1. IInv => TypeOK
  BY DEF IInv
<1> QED
  BY <1>1, Invariance, PTL

\* No connection is sent a message of a connection it may not see, whatever
\* the scopes, the way of addressing and the order of the walk.
THEOREM IsolatesScopes == Spec => []ScopeIsolation
<1>1. IInv => ScopeIsolation
  <2> SUFFICES ASSUME IInv, NEW c \in Conns, NEW i \in 1 .. Len(got[c]),
                      got[c][i].message.from \in Conns
               PROVE  Home[got[c][i].message.from] \in Visible[c]
    BY DEF ScopeIsolation
  <2>1. /\ got[c][i].message.scope = Home[got[c][i].message.from]
        /\ CanSee(c, got[c][i].message)
    BY DEF IInv, ScopesStamped, Stamped
  <2> QED
    BY <2>1, RouterAssumption DEF RouterAssumption, CanSee
<1> QED
  BY <1>1, Invariance, PTL

\* All connections see one order of messages, for any number of connections
\* that come and go during the walks.
THEOREM KeepsOneOrder == Spec => []OneOrder
<1>1. IInv => OneOrder
  BY DEF IInv
<1> QED
  BY <1>1, Invariance, PTL

\* A broadcast does not return to its sender.
THEOREM EchoesNothing == Spec => []NoEcho
<1>1. IInv => NoEcho
  BY DEF IInv
<1> QED
  BY <1>1, Invariance, PTL
-----------------------------------------------------------------------------
(* The refinement: what the steps do to the queue of Delivery. *)

\* The walks still to make are for the last targets of the message in hand.
RestOfDest ==
  todo /= <<>> =>
    /\ Len(todo) <= Len(msg[1].dest)
    /\ \A i \in 1 .. Len(todo) : todo[i] = msg[1].dest[Len(msg[1].dest) - Len(todo) + i]

\* Steps that make no walk keep them.
LEMMA RestStays == ASSUME RestOfDest, UNCHANGED <<msg, todo>> PROVE RestOfDest'
BY DEF RestOfDest

\* The destination of a message is a sequence of targets.
LEMMA MessageDest ==
  ASSUME NEW m \in Messages
  PROVE  m.dest \in Seq(Targets) /\ Len(m.dest) \in Nat
<1>1. m.dest \in Seq(Targets)
  BY RouterAssumption DEF RouterAssumption, Messages
<1> QED
  BY <1>1

\* A message taken from app.ch has all its walks to make, and a walk that ends
\* was the first of them.
LEMMA RestStep ==
  ASSUME TypeOK, RestOfDest, [Next]_vars
  PROVE  RestOfDest'
<1>1. CASE Dequeue
  <2>1. /\ Head(ch) \in Messages /\ msg' = <<Head(ch)>> /\ todo' = Head(ch).dest
    BY <1>1 DEF Dequeue, TypeOK
  <2>2. msg'[1].dest = todo' /\ Len(todo') \in Nat
    BY <2>1, MessageDest
  <2> HIDE <2>1
  <2> QED
    BY <2>2 DEF RestOfDest
<1>2. CASE EndRange
  <2>1. /\ todo \in Seq(Targets) /\ todo /= <<>> /\ todo' = Tail(todo) /\ msg \in Seq(Messages) /\ Len(msg) = 1
        /\ Tail(todo) /= <<>> => msg' = msg
    BY <1>2 DEF EndRange, TypeOK
  <2>2. msg[1] \in Messages
    <3>1. msg \in Seq(Messages) /\ 1 \in 1 .. Len(msg)
      BY <2>1
    <3> QED
      BY <3>1, ElementOfSeq
  <2> DEFINE d == msg[1].dest
  <2>3. Len(d) \in Nat
    BY <2>2, MessageDest
  <2>4. /\ Len(todo) \in Nat /\ Len(todo') = Len(todo) - 1
        /\ \A i \in 1 .. Len(todo') : todo'[i] = todo[i + 1] /\ i + 1 \in 1 .. Len(todo)
    BY <2>1
  <2>5. Len(todo) <= Len(d) /\ \A i \in 1 .. Len(todo) : todo[i] = d[Len(d) - Len(todo) + i]
    BY <2>1 DEF RestOfDest
  <2> SUFFICES ASSUME todo' /= <<>>
               PROVE  Len(todo') <= Len(d) /\ \A i \in 1 .. Len(todo') : todo'[i] = d[Len(d) - Len(todo') + i]
    BY <2>1 DEF RestOfDest
  <2> HIDE DEF d
  <2>6. ASSUME NEW i \in 1 .. Len(todo') PROVE todo'[i] = d[Len(d) - Len(todo') + i]
    <3>1. todo'[i] = d[Len(d) - Len(todo) + (i + 1)]
      BY <2>4, <2>5
    <3>2. Len(d) - Len(todo) + (i + 1) = Len(d) - Len(todo') + i
      BY <2>3, <2>4
    <3> QED
      BY <3>1, <3>2
  <2> QED
    BY <2>3, <2>4, <2>5, <2>6
<1>3. CASE ~(Dequeue \/ EndRange)
  <2>1. UNCHANGED <<msg, todo>>
    BY <1>3 DEF Next, FromPeers, Injects, Leave, LoopStep, Publish, Announce, Withdraw, Inject, Accept, StopConn,
       RemoveHandler, TellOffline, Removed, Visit, WriterTakes, vars, loopVars
  <2> QED
    BY <2>1, RestStays
<1> QED
  BY <1>1, <1>2, <1>3

\* What waits: the message in hand, then app.ch.
LEMMA Waiting ==
  ASSUME TypeOK
  PROVE  /\ msg \in Seq(Messages) /\ ch \in Seq(Messages) /\ msg \o ch \in Seq(Messages)
         /\ Len(msg \o ch) = Len(msg) + Len(ch) /\ Len(ch) \in Nat
         /\ (todo = <<>> /\ msg = <<>>) \/ (todo /= <<>> /\ Len(msg) = 1)
<1>1. msg \in Seq(Messages) /\ ch \in Seq(Messages)
  BY DEF TypeOK
<1>2. (todo = <<>> /\ Len(msg) = 0) \/ (todo /= <<>> /\ Len(msg) = 1)
  BY DEF TypeOK
<1>3. msg \o ch \in Seq(Messages) /\ Len(msg \o ch) = Len(msg) + Len(ch) /\ Len(ch) \in Nat
  BY <1>1, ConcatProperties, LenProperties
<1>4. Len(msg) = 0 => msg = <<>>
  BY <1>1, EmptySeq
<1> QED
  BY <1>1, <1>2, <1>3, <1>4

\* The message in hand is the first of those that wait.
LEMMA InHand ==
  ASSUME TypeOK, todo /= <<>>
  PROVE  /\ msg \o ch /= <<>> /\ Head(msg \o ch) = msg[1] /\ Tail(msg \o ch) = ch /\ msg[1] \in Messages
<1>1. msg \in Seq(Messages) /\ ch \in Seq(Messages) /\ Len(msg) = 1
  BY Waiting
<1>2. msg \o ch \in Seq(Messages) /\ Len(msg \o ch) = 1 + Len(ch) /\ Len(ch) \in Nat
  BY <1>1, Waiting
<1>3. msg \o ch # <<>>
  BY <1>2
<1>4. Head(msg \o ch) = msg[1]
  <2>1. (msg \o ch)[1] = msg[1]
    BY <1>1, <1>2, ConcatProperties
  <2> QED
    BY <1>2, <1>3, <2>1
<1>5. Tail(msg \o ch) = ch
  <2>1. Tail(msg \o ch) \in Seq(Messages) /\ Len(Tail(msg \o ch)) = Len(ch)
    BY <1>2, <1>3, HeadTailProperties
  <2>2. \A i \in 1 .. Len(ch) : Tail(msg \o ch)[i] = (msg \o ch)[i + 1]
    BY <1>2, <1>3, <2>1, HeadTailProperties
  <2>3. \A i \in 1 .. Len(ch) : (msg \o ch)[i + 1] = ch[i]
    <3> TAKE i \in 1 .. Len(ch)
    <3>1. i + 1 \in 1 .. Len(msg) + Len(ch) /\ ~(i + 1 <= Len(msg)) /\ (i + 1) - Len(msg) = i
      BY <1>1, <1>2
    <3>2. \A j \in 1 .. Len(msg) + Len(ch) :
            (msg \o ch)[j] = IF j <= Len(msg) THEN msg[j] ELSE ch[j - Len(msg)]
      BY <1>1, ConcatProperties
    <3> QED
      BY <3>1, <3>2
  <2> QED
    BY <1>1, <2>1, <2>2, <2>3, SeqEqual
<1>6. msg[1] \in Messages
  BY <1>1
<1> QED
  BY <1>3, <1>4, <1>5, <1>6
\* One message more fits a queue that is not full.
LEMMA OneMoreFits == \A a \in {0, 1}, b, c \in Nat : (b < c => a + b <= c) /\ (~(b < c) => a + b >= c)
OBVIOUS

\* A message that finds room is posted, and refused otherwise.
LEMMA PostStep ==
  ASSUME TypeOK, NEW c \in Conns \cup {NoConn}, NEW s \in Path!ScopesOf(c), NEW d \in Dests, NEW us \in SUBSET Uids,
         NewCotMessage(Path!Stamp(c, s, d, us)), UNCHANGED <<state, msg, got>>,
         IF c = NoConn THEN UNCHANGED uids ELSE Path!Enters(c)
  PROVE  Path!Next
<1> DEFINE m == Path!Stamp(c, s, d, us)
<1>1. /\ msg \in Seq(Messages) /\ ch \in Seq(Messages)
      /\ Len(msg \o ch) = Len(msg) + Len(ch) /\ Len(ch) \in Nat /\ Len(msg) \in {0, 1}
  <2>1. msg = <<>> => Len(msg) = 0
    OBVIOUS
  <2> QED
    BY <2>1, Waiting
<1>2. nextId' = nextId + 1
  BY DEF NewCotMessage
<1>3. QueueCap \in Nat
  BY RouterAssumption DEF RouterAssumption
<1>4. Path!Post(c) \/ Path!Refuse
  <2>1. CASE Len(ch) < QueueCap
    <3>1. ch' = Append(ch, m)
      BY <2>1 DEF NewCotMessage
    <3>2. m \in Messages
      BY RouterAssumption DEF RouterAssumption, Path!Stamp, Path!ScopesOf, Messages, TypeOK
    <3> HIDE DEF m
    <3>3. <<m>> \in Seq(Messages)
      BY <3>2
    <3>4. (msg \o ch) \o <<m>> = msg \o (ch \o <<m>>)
      BY <1>1, <3>3, ConcatAssociative
    <3>5. Append(ch, m) = ch \o <<m>> /\ Append(msg \o ch, m) = (msg \o ch) \o <<m>>
      BY <1>1, <3>2, ConcatProperties, AppendIsConcat
    <3>6. msg' \o ch' = Append(msg \o ch, m)
      BY <3>1, <3>4, <3>5
    <3>7. Len(msg \o ch) <= QueueCap
      BY <1>1, <1>3, <2>1, OneMoreFits
    <3> QED
      BY <3>6, <3>7 DEF m, Path!Post
  <2>2. CASE ~(Len(ch) < QueueCap)
    <3>1. ch' = ch
      BY <2>2 DEF NewCotMessage
    <3>2. Len(msg \o ch) >= QueueCap
      BY <1>1, <1>3, <2>2, OneMoreFits
    <3> QED
      BY <3>1, <3>2 DEF Path!Refuse
  <2> QED
    BY <2>1, <2>2
<1>5. Path!Posting(c)
  BY <1>2, <1>4 DEF Path!Posting
<1> QED
  BY <1>5 DEF Path!Next

\* A reader hands on what is in the scope of its connection, and enters or
\* strikes a contact of its own.
LEMMA ReaderPosts ==
  ASSUME TypeOK, NEW c \in Conns, NEW d \in Dests, NEW us \in SUBSET Uids,
         NewCotMessage([id |-> nextId, from |-> c, scope |-> Home[c], dest |-> d, offline |-> us]),
         UNCHANGED <<state, msg, got>>, Path!Enters(c)
  PROVE  Path!Next
<1>1. Home[c] \in Path!ScopesOf(c) /\ c # NoConn
  BY RouterAssumption DEF RouterAssumption, Path!ScopesOf
<1>2. NewCotMessage(Path!Stamp(c, Home[c], d, us))
  BY DEF Path!Stamp
<1>3. IF c = NoConn THEN UNCHANGED uids ELSE Path!Enters(c)
  BY <1>1
<1> QED
  BY <1>1, <1>2, <1>3, PostStep
\* Nothing that Delivery speaks of changes.
LEMMA QuietStutters ==
  ASSUME UNCHANGED <<msg, ch, uids, got, nextId>>, {c \in Conns : state'[c] = "open"} = {c \in Conns : state[c] = "open"}
  PROVE  UNCHANGED Path!dvars
BY DEF Path!dvars

\* The loop takes the first message in hand, where it stays the first.
LEMMA DequeueStutters == ASSUME TypeOK, Dequeue PROVE UNCHANGED Path!dvars
<1>1. todo = <<>> /\ ch # <<>> /\ msg' = <<Head(ch)>> /\ ch' = Tail(ch) /\ UNCHANGED <<state, uids, got, nextId>>
  BY DEF Dequeue, outVars
<1>2. msg = <<>> /\ ch \in Seq(Messages)
  BY <1>1, Waiting
<1>3. ch = SubSeq(ch, 1, Len(ch)) /\ Len(ch) \in Nat /\ Len(ch) >= 1
  BY <1>1, <1>2, SubSeqFull, EmptySeq, LenProperties
<1>4. SubSeq(ch, 1, Len(ch)) = <<ch[1]>> \o SubSeq(ch, 1 + 1, Len(ch))
  <2>1. 1 \in 1 .. Len(ch) /\ Len(ch) \in 1 .. Len(ch)
    BY <1>3
  <2> QED
    BY <2>1, <1>2, <1>3, SubSeqRecursiveFirst
<1>5. Head(ch) = ch[1] /\ Tail(ch) = SubSeq(ch, 2, Len(ch))
  BY <1>1, <1>2, TailIsSubSeq
<1>6. msg' \o ch' = msg \o ch
  BY <1>1, <1>2, <1>3, <1>4, <1>5, ConcatEmptySeq
<1> QED
  BY <1>1, <1>6 DEF Path!dvars

\* The last walk of a message retires it.
LEMMA EndRangeRetires == ASSUME TypeOK, EndRange PROVE Path!Next \/ UNCHANGED Path!dvars
<1>1. todo # <<>> /\ UNCHANGED <<state, uids, ch, got, nextId>>
  BY DEF EndRange, outVars
<1>2. CASE Tail(todo) = <<>>
  <2>1. msg' = <<>> /\ ch' = ch /\ ch \in Seq(Messages)
    BY <1>1, <1>2, Waiting DEF EndRange
  <2>2. msg' \o ch' = ch
    BY <2>1, ConcatEmptySeq
  <2>3. msg \o ch # <<>> /\ Tail(msg \o ch) = ch
    BY <1>1, InHand
  <2>4. Path!Retire
    BY <1>1, <2>2, <2>3 DEF Path!Retire
  <2> QED
    BY <2>4 DEF Path!Next
<1>3. CASE Tail(todo) # <<>>
  <2>1. msg' = msg
    BY <1>3 DEF EndRange
  <2> QED
    BY <1>1, <2>1, QuietStutters
<1> QED
  BY <1>2, <1>3

\* A handler that is sent a message is open, meant, may see it, and has had
\* neither this copy nor a later one.
LEMMA VisitDelivers ==
  ASSUME IInv, RestOfDest, NEW c \in Conns, Visit(c)
  PROVE  Path!Next \/ UNCHANGED Path!dvars
<1> DEFINE m == msg[1]
           k == Len(todo)
           p == [message |-> m, walk |-> k]
<1>1. /\ todo # <<>> /\ c \notin visited /\ UNCHANGED <<state, uids, ch, msg, nextId>>
      /\ (Wanted(c) /\ Send(c)) \/ UNCHANGED <<queue, got>>
  BY DEF Visit, outVars
<1>2. CASE UNCHANGED <<queue, got>>
  BY <1>1, <1>2, QuietStutters
<1>3. CASE Wanted(c) /\ Send(c)
  <2>1. msg \o ch # <<>> /\ Head(msg \o ch) = m /\ m \in Messages
    BY <1>1, InHand DEF IInv
  <2>2. state[c] = "open" /\ Addressed(c, m, Head(todo)) /\ CanSee(c, m)
    BY <1>3 DEF Wanted
  <2>3. todo \in Seq(Targets) /\ k \in Nat /\ k >= 1 /\ Head(todo) = todo[1]
    <3>1. todo \in Seq(Targets)
      BY DEF IInv, TypeOK
    <3> QED
      BY <1>1, <3>1
  <2>4. Len(m.dest) \in Nat
    BY <2>1, MessageDest
  <2>5. k <= Len(m.dest) /\ \A i \in 1 .. k : todo[i] = m.dest[Len(m.dest) - k + i]
    BY <1>1 DEF RestOfDest
  <2>6. k \in 1 .. Len(m.dest) /\ Head(todo) = m.dest[Len(m.dest) - k + 1]
    <3> HIDE DEF k, m
    <3>1. 1 \in 1 .. k
      BY <2>3
    <3>2. todo[1] = m.dest[Len(m.dest) - k + 1]
      BY <2>5, <3>1
    <3> QED
      BY <2>3, <2>4, <2>5, <3>2
  <2>7. got' = [got EXCEPT ![c] = Append(@, p)]
    BY <1>3 DEF Send
  <2>8. ASSUME NEW i \in 1 .. Len(got[c]) PROVE Path!Before(got[c][i], p)
    <3>1. /\ got[c][i].message.id <= m.id
          /\ got[c][i].message.id = m.id => got[c][i].walk >= k /\ got[c][i].walk # k
      BY <1>1 DEF IInv, Stages, SentOlder
    <3>2. got[c][i].message.id \in Nat /\ got[c][i].walk \in Nat /\ m.id \in Nat
      <4>1. got[c] \in Seq(Packets)
        BY DEF IInv, TypeOK
      <4> QED
        BY <4>1, <2>1, PacketId DEF Messages
    <3>3. p.message = m /\ p.walk = k
      OBVIOUS
    <3> DEFINE q == got[c][i]
    <3> HIDE DEF p, m, k, q
    <3>4. q.message.id < m.id \/ (q.message.id = m.id /\ q.walk > k)
      <4>1. /\ q.message.id \in Nat /\ q.walk \in Nat /\ m.id \in Nat /\ q.message.id <= m.id
            /\ q.message.id = m.id => q.walk >= k /\ q.walk # k
        BY <3>1, <3>2 DEF q
      <4> QED
        BY <2>3, <4>1
    <3> QED
      BY <3>3, <3>4 DEF q, Path!Before
  <2>9. Path!Meant(c, m, m.dest[Len(m.dest) - k + 1]) /\ Path!MaySee(c, m)
    BY <2>2, <2>6 DEF Path!Meant, Path!MaySee, Addressed, CanSee
  <2>10. c \in {d \in Conns : state[d] = "open"}
    BY <2>2
  <2>11. Path!Deliver(c, k) /\ k \in Path!Turns
    BY <1>1, <2>1, <2>6, <2>7, <2>8, <2>9, <2>10 DEF Path!Deliver, Path!Turns
  <2> QED
    BY <2>11 DEF Path!Next
<1> QED
  BY <1>1, <1>2, <1>3
\* Every step of the path is a step of Delivery or a stutter.
LEMMA DeliveryStep == IInv /\ RestOfDest /\ [Next]_vars => [Path!Next]_(Path!dvars)
<1> SUFFICES ASSUME IInv, RestOfDest, [Next]_vars PROVE Path!Next \/ UNCHANGED Path!dvars
  OBVIOUS
<1>t. TypeOK /\ Broadcast \in Dests
  BY RouterAssumption DEF RouterAssumption, IInv
<1>s. state \in [Conns -> {"new", "open", "stopped", "leaving", "gone"}]
  BY <1>t DEF TypeOK
<1> DEFINE open == {c \in Conns : state[c] = "open"}
           Stutters == UNCHANGED Path!dvars
<1>1. ASSUME NEW c \in Conns, NEW d \in Dests, Publish(c, d) PROVE Path!Next
  <2>1. NewCotMessage([id |-> nextId, from |-> c, scope |-> Home[c], dest |-> d, offline |-> {}])
    BY <1>1 DEF Publish, FromReader
  <2>2. UNCHANGED <<state, msg, got>> /\ Path!Enters(c) /\ {} \in SUBSET Uids
    BY <1>1 DEF Publish, loopVars, outVars, Path!Enters
  <2> QED
    BY <1>t, <2>1, <2>2, ReaderPosts
<1>2. ASSUME NEW c \in Conns, NEW u \in Uids, Announce(c, u) \/ Withdraw(c, u) PROVE Path!Next
  <2>1. NewCotMessage([id |-> nextId, from |-> c, scope |-> Home[c], dest |-> Broadcast, offline |-> {}])
    BY <1>2 DEF Announce, Withdraw, FromReader
  <2>2. UNCHANGED <<state, msg, got>> /\ Path!Enters(c) /\ {} \in SUBSET Uids
    BY <1>2 DEF Announce, Withdraw, loopVars, outVars, Path!Enters
  <2> QED
    BY <1>t, <2>1, <2>2, ReaderPosts
<1>3. ASSUME NEW s \in Scopes \cup {Local}, Inject(s) PROVE Path!Next
  <2>1. NewCotMessage(Path!Stamp(NoConn, s, Broadcast, {}))
    BY <1>3 DEF Inject, Path!Stamp
  <2>2. UNCHANGED <<state, uids, msg, got>>
    BY <1>3 DEF Inject, loopVars, outVars
  <2>3. s \in Path!ScopesOf(NoConn) /\ {} \in SUBSET Uids
    BY DEF Path!ScopesOf
  <2> QED
    BY <1>t, <2>1, <2>2, <2>3, PostStep
<1>4. ASSUME NEW c \in Conns, NEW u \in Uids, TellOffline(c, u) PROVE Path!Next
  <2>1. NewCotMessage([id |-> nextId, from |-> c, scope |-> Home[c], dest |-> Broadcast, offline |-> {u}])
    BY <1>4 DEF TellOffline
  <2>2. UNCHANGED <<state, msg, got>> /\ Path!Enters(c) /\ {u} \in SUBSET Uids
    BY <1>4 DEF TellOffline, loopVars, outVars, Path!Enters
  <2> QED
    BY <1>t, <2>1, <2>2, ReaderPosts
<1>5. ASSUME NEW c \in Conns, Accept(c) PROVE Path!Next
  <2>1. state[c] = "new" /\ state' = [state EXCEPT ![c] = "open"] /\ UNCHANGED <<uids, ch, msg, got, nextId>>
    BY <1>5 DEF Accept, loopVars, outVars
  <2>2. c \notin open /\ {d \in Conns : state'[d] = "open"} = open \cup {c}
    BY <1>s, <2>1
  <2>3. Path!Join(c)
    BY <2>1, <2>2 DEF Path!Join
  <2> QED
    BY <2>3 DEF Path!Next
<1>6. ASSUME NEW c \in Conns, StopConn(c) PROVE Path!Next
  <2>1. state[c] = "open" /\ state' = [state EXCEPT ![c] = "stopped"] /\ UNCHANGED <<uids, ch, msg, got, nextId>>
    BY <1>6 DEF StopConn, loopVars, outVars
  <2>2. c \in open /\ {d \in Conns : state'[d] = "open"} = open \ {c}
    BY <1>s, <2>1
  <2>3. Path!Close(c)
    BY <2>1, <2>2 DEF Path!Close
  <2> QED
    BY <2>3 DEF Path!Next
<1>7. ASSUME NEW c \in Conns, RemoveHandler(c) \/ Removed(c) PROVE Stutters
  <2>1. /\ state[c] # "open" /\ \E r \in {"leaving", "gone"} : state' = [state EXCEPT ![c] = r]
        /\ UNCHANGED <<uids, ch, msg, got, nextId>>
    BY <1>7 DEF RemoveHandler, Removed, loopVars, outVars
  <2>2. {d \in Conns : state'[d] = "open"} = open
    BY <1>s, <2>1
  <2> QED
    BY <2>1, <2>2, QuietStutters
<1>8. ASSUME NEW c \in Conns, WriterTakes(c) PROVE Stutters
  BY <1>8, QuietStutters DEF WriterTakes, loopVars
<1>9. CASE UNCHANGED vars
  BY <1>9, QuietStutters DEF vars, loopVars, outVars
<1>10. ASSUME NEW c \in Conns, Visit(c) PROVE Path!Next \/ Stutters
  BY <1>10, VisitDelivers
<1>11. CASE Dequeue
  BY <1>11, <1>t, DequeueStutters
<1>12. CASE EndRange
  BY <1>12, <1>t, EndRangeRetires
<1> HIDE DEF Stutters, open
<1>13. \/ \E c \in Conns, d \in Dests : Publish(c, d)
       \/ \E c \in Conns, u \in Uids : Announce(c, u) \/ Withdraw(c, u) \/ TellOffline(c, u)
       \/ \E s \in Scopes \cup {Local} : Inject(s)
       \/ \E c \in Conns : Accept(c) \/ StopConn(c) \/ RemoveHandler(c) \/ Removed(c) \/ WriterTakes(c) \/ Visit(c)
       \/ Dequeue \/ EndRange \/ UNCHANGED vars
  BY DEF Next, FromPeers, Injects, Leave, LoopStep
<1>14. Path!Next \/ Stutters
  BY <1>1, <1>2, <1>3, <1>4, <1>5, <1>6, <1>7, <1>8, <1>9, <1>10, <1>11, <1>12, <1>13 DEF Stutters
<1> QED
  BY <1>14 DEF Stutters

\* At the start nothing waits and nobody is there.
LEMMA DeliveryInit == Init => RestOfDest /\ Path!Init
<1> SUFFICES ASSUME Init PROVE RestOfDest /\ Path!Init
  OBVIOUS
<1>1. <<>> \o <<>> = <<>>
  BY EmptySeq, ConcatEmptySeq
<1>2. {c \in Conns : state[c] = "open"} = {}
  BY DEF Init
<1> QED
  BY <1>1, <1>2 DEF Init, RestOfDest, Path!Init

\* The message path as a whole is the bounded, lossy, ordered broadcast of
\* Delivery: what a connection is sent are copies of posted messages, in their
\* order, each once per target, while it is open and may see them
\* (main.go:386, client_handler.go:498).
THEOREM RefinesDelivery == Spec => ImplementsDelivery
<1>1. IInv /\ RestOfDest /\ [Next]_vars => RestOfDest'
  BY RestStep DEF IInv
<1> QED
  BY <1>1, InitInv, InvStep, DeliveryInit, DeliveryStep, PTL DEF Spec, ImplementsDelivery, Path!Spec
=============================================================================
