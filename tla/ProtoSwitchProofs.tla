--------------------------- MODULE ProtoSwitchProofs ---------------------------
(***************************************************************************)
(* The negotiation, for any number of senders, any capacity of sendChan    *)
(* and any number of messages: its steps come in their order, and no XML   *)
(* reader meets a protobuf frame unless the answer was dropped.  Then      *)
(* Profiles, as Prof: what a device that connects is configured with.      *)
(***************************************************************************)
EXTENDS ProtoSwitch, TLAPS
-----------------------------------------------------------------------------
\* Each end writes control messages of its own, in XML, and answers those of
\* the other.
KindsApart ==
  /\ \A i \in DOMAIN stream[Server] : stream[Server][i].kind \in {"offer", "ok", "cot"}
  /\ \A i \in DOMAIN stream[Client] : stream[Client][i].kind \in {"request", "cot"}
  /\ \A e \in Ends : \A i \in DOMAIN stream[e] : stream[e][i].format = "proto" => stream[e][i].kind = "cot"
  /\ rpc[Server] \in {"read", "reply", "set version"} /\ rpc[Client] \in {"read", "request"}

\* One offer, and one request once the offer has been read.
OfferedOnce ==
  /\ starter # "done" => Positions(Server, "offer") = {}
  /\ \A i, j \in Positions(Server, "offer") : i = j

AskedOnce ==
  /\ rpc[Client] = "request" \/ Positions(Client, "request") # {} =>
       \E k \in Positions(Server, "offer") : k <= consumed[Server]
  /\ rpc[Client] = "request" => Positions(Client, "request") = {}
  /\ \A i, j \in Positions(Client, "request") : i = j

\* The answer comes before the switch, and before what is encoded after it;
\* the client switches when it reads the answer.
AnsweredFirst ==
  /\ ver[Server] = 1 \/ rpc[Server] = "set version" => "ok" \in dropped \/ Positions(Server, "ok") # {}
  /\ Positions(Server, "ok") # {} => ver[Server] = 1 \/ rpc[Server] = "set version"
  /\ ver[Client] = 1 => Positions(Server, "ok") # {}
  /\ ver[Client] = 0 => \A i \in Positions(Server, "ok") : i > consumed[Server]

\* Protobuf frames come from ends that have switched.
ProtoAfterSwitch ==
  /\ \A s \in Senders : held[s] = "proto" => ver[Owner[s]] = 1
  /\ \A i \in DOMAIN stream[Client] : stream[Client][i].format = "proto" => ver[Client] = 1
  /\ \A j \in DOMAIN stream[Server] : stream[Server][j].format = "proto" =>
       "ok" \in dropped \/ \E i \in Positions(Server, "ok") : i < j

\* Who holds a message has one left to send.
SendsLeft == \A s \in Senders : held[s] # "nothing" => sends[s] < MaxSends

\* The marks are places of both directions.
MarksFit == {written, fetched, consumed} \subseteq [Ends -> Nat]

\* The inductive invariant.
IInv == /\ TypeOK /\ MarksFit /\ SendsLeft /\ KindsApart /\ OfferedOnce /\ AskedOnce /\ AnsweredFirst /\ ProtoAfterSwitch
        /\ XmlReadersSeeXml
-----------------------------------------------------------------------------
(* Steps that queue nothing. *)

\* The two ends.
LEMMA EndsFacts ==
  /\ Server \in Ends /\ Client \in Ends /\ Server # Client
  /\ Peer(Server) = Client /\ Peer(Client) = Server
  /\ \A e \in Ends : (e = Server \/ e = Client) /\ Peer(e) \in Ends /\ Peer(e) # e
BY DEF Ends, Server, Client, Peer

\* How far each direction has come.
MarkedOK == \A e \in Ends : /\ written[e] \in 0 .. Len(stream[e]) /\ fetched[e] \in 0 .. written[e]
                            /\ consumed[e] \in 0 .. fetched[e] /\ Len(stream[e]) - written[e] <= Cap
RestOK == /\ ver \in [Ends -> {0, 1}] /\ stream \in [Ends -> Seq(Frames)]
          /\ starter \in {"check", "push", "done"}
          /\ rpc \in [Ends -> {"read", "reply", "set version", "request"}]
          /\ held \in [Senders -> Formats \cup {"nothing"}]
          /\ sends \in [Senders -> 0 .. MaxSends]
          /\ dropped \subseteq Controls /\ garbled \subseteq Ends

\* The type invariant in two parts: the marks of each direction, and the rest.
LEMMA TypeParts == TypeOK <=> MarkedOK /\ RestOK
BY DEF TypeOK, MarkedOK, RestOK

\* What the frames and the places of the readers say is kept by a step that
\* leaves these alone.
LEMMA QuietParts ==
  ASSUME IInv, stream' = stream, ver' = ver, rpc' = rpc, consumed' = consumed, dropped' = dropped,
         garbled' = garbled, starter' = starter \/ starter' = "done",
         \A s \in Senders : held'[s] = "proto" => ver[Owner[s]] = 1
  PROVE  /\ KindsApart' /\ OfferedOnce' /\ AskedOnce' /\ AnsweredFirst' /\ ProtoAfterSwitch'
         /\ XmlReadersSeeXml'
<1>1. KindsApart'
  BY DEF IInv, KindsApart
<1>2. OfferedOnce'
  BY DEF IInv, OfferedOnce, Positions
<1>3. AskedOnce'
  BY DEF IInv, AskedOnce, Positions
<1>4. AnsweredFirst'
  BY DEF IInv, AnsweredFirst, Positions
<1>5. ProtoAfterSwitch'
  BY DEF IInv, ProtoAfterSwitch, Positions
<1>6. XmlReadersSeeXml'
  BY DEF IInv, XmlReadersSeeXml
<1> QED
  BY <1>1, <1>2, <1>3, <1>4, <1>5, <1>6

\* Start looks at the version before it offers.
LEMMA OfferCheckKeeps == ASSUME IInv, OfferCheck PROVE IInv'
<1>1. /\ starter = "check" /\ starter' \in {"push", "done"}
      /\ UNCHANGED <<ver, stream, marks, rpc, held, sends, dropped, garbled>>
  BY DEF OfferCheck
<1>2. TypeOK' /\ MarksFit'
  BY <1>1 DEF IInv, TypeOK, MarksFit, marks
<1>3. KindsApart' /\ OfferedOnce' /\ AskedOnce' /\ AnsweredFirst' /\ ProtoAfterSwitch' /\ XmlReadersSeeXml'
  <2>1. KindsApart'
    BY <1>1 DEF IInv, KindsApart
  <2>2. OfferedOnce'
    <3>1. Positions(Server, "offer")' = Positions(Server, "offer")
      BY <1>1 DEF Positions
    <3> QED
      BY <1>1, <3>1 DEF IInv, OfferedOnce
  <2>3. AskedOnce'
    BY <1>1 DEF IInv, AskedOnce, Positions, marks
  <2>4. AnsweredFirst'
    BY <1>1 DEF IInv, AnsweredFirst, Positions, marks
  <2>5. ProtoAfterSwitch'
    BY <1>1 DEF IInv, ProtoAfterSwitch, Positions
  <2>6. XmlReadersSeeXml'
    BY <1>1 DEF IInv, XmlReadersSeeXml
  <2> QED
    BY <2>1, <2>2, <2>3, <2>4, <2>5, <2>6
<1>s. SendsLeft'
  BY <1>1 DEF IInv, SendsLeft
<1> QED
  BY <1>s, <1>2, <1>3 DEF IInv

\* A message is encoded in protobuf by an end that has switched.
LEMMA EncodeKeeps == ASSUME IInv, NEW s \in Senders, Encode(s) PROVE IInv'
<1>1. /\ sends[s] < MaxSends /\ held' = [held EXCEPT ![s] = Format(ver[Owner[s]])]
      /\ UNCHANGED <<ver, stream, marks, starter, rpc, sends, dropped, garbled>>
  BY DEF Encode
<1>2. Owner[s] \in Ends
  BY SwitchAssumption DEF SwitchAssumption
<1>3. Format(ver[Owner[s]]) \in Formats /\ (Format(ver[Owner[s]]) = "proto" => ver[Owner[s]] = 1)
  BY <1>2 DEF IInv, TypeOK, Format, Formats
<1>4. TypeOK' /\ MarksFit'
  <2>1. held' \in [Senders -> Formats \cup {"nothing"}]
    BY <1>1, <1>3 DEF IInv, TypeOK
  <2> QED
    BY <2>1, <1>1 DEF IInv, TypeOK, MarksFit, marks
<1>5. \A q \in Senders : held'[q] = "proto" => ver[Owner[q]] = 1
  BY <1>1, <1>3 DEF IInv, TypeOK, ProtoAfterSwitch
<1>s. SendsLeft'
  <2> SUFFICES ASSUME NEW q \in Senders, held'[q] # "nothing" PROVE sends[q] < MaxSends
    BY <1>1 DEF SendsLeft
  <2> QED
    BY <1>1 DEF IInv, TypeOK, SendsLeft
<1> QED
  BY <1>s, <1>1, <1>4, <1>5, QuietParts DEF IInv, marks

\* The writer sends one packet of sendChan.
LEMMA WriteKeeps == ASSUME IInv, NEW e \in Ends, Write(e) PROVE IInv'
<1>1. /\ written[e] < Len(stream[e]) /\ written' = [written EXCEPT ![e] = @ + 1]
      /\ ver' = ver /\ stream' = stream /\ fetched' = fetched /\ consumed' = consumed /\ starter' = starter
      /\ rpc' = rpc /\ held' = held /\ sends' = sends /\ dropped' = dropped /\ garbled' = garbled
  BY DEF Write
<1>2. MarkedOK /\ RestOK /\ MarksFit
  BY TypeParts DEF IInv
<1>3. written' \in [Ends -> Nat] /\ written'[e] = written[e] + 1 /\ \A o \in Ends : o # e => written'[o] = written[o]
  BY <1>1, <1>2 DEF MarksFit
<1>4. Len(stream[e]) \in Nat
  <2>1. stream[e] \in Seq(Frames)
    BY <1>2 DEF RestOK
  <2> QED
    BY <2>1
<1>5. MarkedOK'
  <2>1. ASSUME NEW o \in Ends
        PROVE  /\ written'[o] \in 0 .. Len(stream[o]) /\ fetched[o] \in 0 .. written'[o]
               /\ consumed[o] \in 0 .. fetched[o] /\ Len(stream[o]) - written'[o] <= Cap
    <3>1. CASE o = e
      <4>1. Cap \in Nat /\ written[e] \in Nat
        BY <1>2, <1>4, SwitchAssumption DEF SwitchAssumption, MarkedOK
      <4> QED
        BY <3>1, <4>1, <1>1, <1>2, <1>3, <1>4 DEF MarkedOK
    <3>2. CASE o # e
      BY <3>2, <1>2, <1>3 DEF MarkedOK
    <3> QED
      BY <3>1, <3>2
  <2> QED
    BY <2>1, <1>1 DEF MarkedOK
<1>6. RestOK' /\ MarksFit'
  BY <1>1, <1>2, <1>3 DEF RestOK, MarksFit
<1>7. KindsApart' /\ OfferedOnce' /\ AskedOnce' /\ AnsweredFirst' /\ ProtoAfterSwitch' /\ XmlReadersSeeXml'
  BY <1>1, QuietParts DEF IInv, ProtoAfterSwitch
<1>s. SendsLeft'
  BY <1>1 DEF IInv, SendsLeft
<1> QED
  BY <1>s, <1>5, <1>6, <1>7, TypeParts DEF IInv, TypeOK, MarkedOK, RestOK

\* A bufio.Reader takes what has been written.
LEMMA FetchKeeps == ASSUME IInv, NEW e \in Ends, Fetch(e) PROVE IInv'
<1> DEFINE p == Peer(e)
<1>0. p \in Ends
  BY EndsFacts
<1>1. PICK n \in fetched[p] + 1 .. written[p] :
        /\ fetched' = [fetched EXCEPT ![p] = n]
        /\ ver' = ver /\ stream' = stream /\ written' = written /\ consumed' = consumed /\ starter' = starter
        /\ rpc' = rpc /\ held' = held /\ sends' = sends /\ dropped' = dropped /\ garbled' = garbled
  BY DEF Fetch
<1> HIDE DEF p
<1>2. MarkedOK /\ RestOK /\ MarksFit
  BY TypeParts DEF IInv
<1>n. fetched[p] \in Nat /\ written[p] \in Nat /\ consumed[p] \in 0 .. fetched[p] /\ written[p] \in 0 .. Len(stream[p])
  BY <1>0, <1>2 DEF MarkedOK, MarksFit
<1>3. n \in Nat /\ n \in 0 .. written[p] /\ consumed[p] \in 0 .. n
  BY <1>n
<1>4. fetched' \in [Ends -> Nat] /\ fetched'[p] = n /\ \A o \in Ends : o # p => fetched'[o] = fetched[o]
  BY <1>0, <1>1, <1>2, <1>3 DEF MarksFit
<1>5. MarkedOK'
  BY <1>1, <1>2, <1>3, <1>4 DEF MarkedOK
<1>6. RestOK' /\ MarksFit'
  BY <1>1, <1>2, <1>4 DEF RestOK, MarksFit
<1>7. KindsApart' /\ OfferedOnce' /\ AskedOnce' /\ AnsweredFirst' /\ ProtoAfterSwitch' /\ XmlReadersSeeXml'
  BY <1>1, QuietParts DEF IInv, ProtoAfterSwitch
<1>s. SendsLeft'
  BY <1>1 DEF IInv, SendsLeft
<1> QED
  BY <1>s, <1>5, <1>6, <1>7, TypeParts DEF IInv, TypeOK, MarkedOK, RestOK

\* How far a step may move the mark of a reader.
Moves(p, n) ==
  /\ n \in consumed[p] .. fetched[p] /\ consumed' = [consumed EXCEPT ![p] = n]
  /\ stream' = stream /\ written' = written /\ fetched' = fetched

\* Such a step keeps the marks in their order.
LEMMA MarkMoves ==
  ASSUME IInv, NEW p \in Ends, NEW n, Moves(p, n)
  PROVE  /\ MarkedOK' /\ MarksFit' /\ consumed'[p] = n /\ n \in Nat
         /\ \A o \in Ends : o # p => consumed'[o] = consumed[o]
         /\ \A o \in Ends : consumed[o] \in Nat /\ consumed'[o] \in Nat /\ consumed[o] <= consumed'[o]
<1>1. MarkedOK /\ MarksFit
  BY TypeParts DEF IInv
<1>2. /\ n \in consumed[p] .. fetched[p] /\ consumed' = [consumed EXCEPT ![p] = n]
      /\ stream' = stream /\ written' = written /\ fetched' = fetched
  BY DEF Moves
<1>3. consumed[p] \in Nat /\ fetched[p] \in Nat
  BY <1>1 DEF MarksFit
<1>4. n \in Nat /\ n \in 0 .. fetched[p] /\ consumed[p] <= n
  BY <1>2, <1>3
<1>5. consumed' \in [Ends -> Nat] /\ consumed'[p] = n /\ \A o \in Ends : o # p => consumed'[o] = consumed[o]
  BY <1>1, <1>2, <1>4 DEF MarksFit
<1>6. MarkedOK'
  BY <1>1, <1>2, <1>4, <1>5 DEF MarkedOK
<1>7. MarksFit'
  BY <1>1, <1>2, <1>5 DEF MarksFit
<1>8. ASSUME NEW o \in Ends PROVE consumed[o] \in Nat /\ consumed'[o] \in Nat /\ consumed[o] <= consumed'[o]
  <2>1. CASE o = p
    BY <2>1, <1>3, <1>4, <1>5
  <2>2. CASE o # p
    BY <2>2, <1>1, <1>5 DEF MarksFit
  <2> QED
    BY <2>1, <2>2
<1> QED
  BY <1>4, <1>5, <1>6, <1>7, <1>8

-----------------------------------------------------------------------------
(* Reading. *)

\* The frame a reader is at, and the place behind it.
LEMMA Reading ==
  ASSUME IInv, NEW e \in Ends, HasInput(e)
  PROVE  /\ Peer(e) \in Ends /\ consumed[Peer(e)] + 1 \in DOMAIN stream[Peer(e)]
         /\ consumed[Peer(e)] + 1 \in consumed[Peer(e)] .. fetched[Peer(e)]
         /\ consumed[Peer(e)] \in Nat /\ Next1(e) \in Frames
<1> DEFINE p == Peer(e)
<1>1. p \in Ends
  BY EndsFacts
<1>2. consumed[p] < fetched[p]
  BY DEF HasInput
<1>3. stream[p] \in Seq(Frames)
  BY <1>1 DEF IInv, TypeOK
<1>4. /\ consumed[p] \in Nat /\ fetched[p] \in Nat /\ written[p] \in Nat /\ fetched[p] \in 0 .. written[p]
      /\ written[p] \in 0 .. Len(stream[p])
  BY <1>1 DEF IInv, MarksFit, TypeOK
<1>5. consumed[p] + 1 \in 1 .. Len(stream[p]) /\ consumed[p] + 1 \in consumed[p] .. fetched[p]
  <2> HIDE DEF p
  <2>1. Len(stream[p]) \in Nat
    BY <1>3
  <2> QED
    BY <2>1, <1>2, <1>4
<1>6. DOMAIN stream[p] = 1 .. Len(stream[p]) /\ \A i \in 1 .. Len(stream[p]) : stream[p][i] \in Frames
  BY <1>3
<1> QED
  BY <1>1, <1>4, <1>5, <1>6 DEF Next1

\* A place in a direction is that of a frame.
LEMMA PositionsAre ==
  ASSUME IInv, NEW e \in Ends, NEW kind
  PROVE  /\ \A i : i \in Positions(e, kind) <=> i \in DOMAIN stream[e] /\ stream[e][i].kind = kind
         /\ \A i \in DOMAIN stream[e] : i \in Nat
<1>1. stream[e] \in Seq(Frames)
  BY DEF IInv, TypeOK
<1>2. DOMAIN stream[e] = 1 .. Len(stream[e]) /\ Len(stream[e]) \in Nat
  BY <1>1
<1> QED
  BY <1>2 DEF Positions

\* The version of a frame tells who sent it, and the place of a reader which
\* control message it waits for.
LEMMA ReadXmlKeeps == ASSUME IInv, NEW e \in Ends, ReadXml(e) PROVE IInv'
<1> DEFINE p == Peer(e)
           n == consumed[p] + 1
           to == CASE Next1(e).kind = "request" -> "reply"
                   [] e = Client /\ Next1(e).kind = "offer" -> "request"
                   [] OTHER -> "read"
<1>1. /\ ver[e] = 0 /\ HasInput(e) /\ rpc[e] = "read" /\ Next1(e).format = "xml" /\ ~(e = Client /\ Next1(e).kind = "ok")
      /\ consumed' = [consumed EXCEPT ![p] = n] /\ rpc' = [rpc EXCEPT ![e] = to]
      /\ ver' = ver /\ stream' = stream /\ written' = written /\ fetched' = fetched /\ starter' = starter
      /\ held' = held /\ sends' = sends /\ dropped' = dropped /\ garbled' = garbled
  BY DEF ReadXml, Consume, HasInput
<1>2. /\ p \in Ends /\ n \in DOMAIN stream[p] /\ n \in consumed[p] .. fetched[p] /\ consumed[p] \in Nat
      /\ Next1(e) = stream[p][n] /\ Next1(e) \in Frames
  BY <1>1, Reading DEF Next1
<1>3. to \in {"read", "reply", "request"}
  OBVIOUS
<1>4. /\ to = "reply" => e = Server
      /\ to = "request" => e = Client /\ n \in Positions(Server, "offer")
  <2>1. CASE e = Server
    <3>1. p = Client
      BY <2>1, EndsFacts
    <3>2. Server # Client
      BY EndsFacts
    <3>3. Next1(e).kind = "request" \/ to = "read"
      BY <2>1, <3>2
    <3> QED
      BY <2>1, <3>3
  <2>2. CASE e = Client
    <3>1. p = Server
      BY <2>2, EndsFacts
    <3>2. Next1(e).kind # "request"
      BY <1>2, <3>1 DEF IInv, KindsApart
    <3>3. n \in Positions(Server, "offer") <=> n \in DOMAIN stream[Server] /\ stream[Server][n].kind = "offer"
      BY PositionsAre, EndsFacts
    <3> QED
      BY <2>2, <3>1, <3>2, <3>3, <1>2
  <2> QED
    BY <2>1, <2>2, EndsFacts
<1>5. /\ rpc' \in [Ends -> {"read", "reply", "set version", "request"}] /\ rpc'[e] = to
      /\ \A o \in Ends : o # e => rpc'[o] = rpc[o]
  BY <1>1, <1>3 DEF IInv, TypeOK
<1> HIDE DEF to
<1>6. /\ MarkedOK' /\ MarksFit' /\ consumed'[p] = n /\ \A o \in Ends : o # p => consumed'[o] = consumed[o]
      /\ \A o \in Ends : consumed[o] \in Nat /\ consumed'[o] \in Nat /\ consumed[o] <= consumed'[o]
  BY <1>1, <1>2, MarkMoves DEF Moves
<1>7. RestOK'
  BY <1>1, <1>5, TypeParts DEF IInv, RestOK
<1>8. KindsApart'
  <2>1. rpc'[Server] \in {"read", "reply", "set version"} /\ rpc'[Client] \in {"read", "request"}
    <3>1. rpc[Server] \in {"read", "reply", "set version"} /\ rpc[Client] \in {"read", "request"}
      BY DEF IInv, KindsApart
    <3>2. Server \in Ends /\ Client \in Ends /\ Server # Client
      BY EndsFacts
    <3>3. CASE e = Server
      <4>1. rpc'[Client] = rpc[Client] /\ rpc'[Server] = to /\ to # "request"
        BY <3>2, <3>3, <1>4, <1>5
      <4> QED
        BY <4>1, <3>1, <1>3
    <3>4. CASE e = Client
      <4>1. rpc'[Server] = rpc[Server] /\ rpc'[Client] = to /\ to # "reply"
        BY <3>2, <3>4, <1>4, <1>5
      <4> QED
        BY <4>1, <3>1, <1>3
    <3> QED
      BY <3>3, <3>4, EndsFacts
  <2> QED
    BY <2>1, <1>1 DEF IInv, KindsApart
<1>9. OfferedOnce' /\ XmlReadersSeeXml' /\ ProtoAfterSwitch'
  BY <1>1 DEF IInv, OfferedOnce, XmlReadersSeeXml, ProtoAfterSwitch, Positions
<1>10. AskedOnce'
  <2>0. Server \in Ends /\ Client \in Ends
    BY EndsFacts
  <2>1. \A k \in Positions(Server, "offer") : k <= consumed[Server] => k <= consumed'[Server]
    <3>1. \A k \in Positions(Server, "offer") : k \in Nat
      BY <2>0, PositionsAre
    <3> QED
      BY <3>1, <2>0, <1>6
  <2>2. CASE rpc'[Client] = "request" /\ rpc[Client] # "request"
    <3>1. e = Client /\ to = "request"
      BY <2>2, <2>0, <1>5
    <3>2. p = Server /\ n \in Positions(Server, "offer") /\ n <= consumed'[Server]
      BY <3>1, <1>4, <1>6, <2>0, EndsFacts
    <3>3. Positions(Client, "request") = {}
      <4>1. ~ (n <= consumed[Server])
        BY <3>2, <1>2
      <4>2. ~ \E k \in Positions(Server, "offer") : k <= consumed[Server]
        BY <4>1, <3>2 DEF IInv, OfferedOnce
      <4> QED
        BY <4>2 DEF IInv, AskedOnce
    <3> QED
      BY <3>2, <3>3, <1>1 DEF AskedOnce, Positions
  <2>3. CASE rpc'[Client] = "request" => rpc[Client] = "request"
    BY <2>1, <2>3, <1>1 DEF IInv, AskedOnce, Positions
  <2> QED
    BY <2>2, <2>3
<1>11. AnsweredFirst'
  <2>0. Server \in Ends /\ Client \in Ends /\ (e = Client => p = Server) /\ (e # Client => p # Server)
    BY EndsFacts
  <2>1. (ver[Server] = 1 \/ rpc'[Server] = "set version") <=> (ver[Server] = 1 \/ rpc[Server] = "set version")
    BY <2>0, <1>1, <1>3, <1>5
  <2>2. ASSUME ver[Client] = 0, NEW i \in Positions(Server, "ok") PROVE i > consumed'[Server]
    <3>1. i > consumed[Server] /\ i \in DOMAIN stream[Server] /\ stream[Server][i].kind = "ok" /\ i \in Nat
      BY <2>2, <2>0, PositionsAre DEF IInv, AnsweredFirst
    <3>2. CASE e = Client
      <4>1. i # n
        BY <3>1, <3>2, <2>0, <1>1, <1>2
      <4> QED
        BY <4>1, <3>1, <3>2, <2>0, <1>2, <1>6
    <3>3. CASE e # Client
      BY <3>1, <3>3, <2>0, <1>6
    <3> QED
      BY <3>2, <3>3
  <2> QED
    BY <2>1, <2>2, <1>1 DEF IInv, AnsweredFirst, Positions
<1>s. SendsLeft'
  BY <1>1 DEF IInv, SendsLeft
<1> QED
  BY <1>s, <1>6, <1>7, <1>8, <1>9, <1>10, <1>11 DEF IInv, TypeOK, MarkedOK, RestOK

\* A reader that parses or skips frames changes nothing but its mark, when no
\* answer is among them.
LEMMA SkipParts ==
  ASSUME IInv, NEW e \in Ends, NEW n, Moves(Peer(e), n), rpc' = rpc, starter' = starter, dropped' = dropped,
         held' = held, ver' = ver,
         e = Client /\ ver[Client] = 0 => \A i \in Positions(Server, "ok") : i > n
  PROVE  MarkedOK' /\ MarksFit' /\ KindsApart' /\ OfferedOnce' /\ AskedOnce' /\ AnsweredFirst' /\ ProtoAfterSwitch'
<1> DEFINE p == Peer(e)
<1>0. Server \in Ends /\ Client \in Ends /\ (e = Client => p = Server) /\ (e # Client => p # Server) /\ p \in Ends
  BY EndsFacts
<1>1. /\ MarkedOK' /\ MarksFit' /\ consumed'[p] = n /\ n \in Nat /\ \A o \in Ends : o # p => consumed'[o] = consumed[o]
      /\ \A o \in Ends : consumed[o] \in Nat /\ consumed'[o] \in Nat /\ consumed[o] <= consumed'[o]
  BY <1>0, MarkMoves
<1>2. stream' = stream
  BY DEF Moves
<1>3. KindsApart' /\ OfferedOnce' /\ ProtoAfterSwitch'
  <2>1. KindsApart'
    BY <1>2 DEF IInv, KindsApart
  <2>2. OfferedOnce'
    BY <1>2 DEF IInv, OfferedOnce, Positions
  <2>3. ProtoAfterSwitch'
    BY <1>2 DEF IInv, ProtoAfterSwitch, Positions
  <2> QED
    BY <2>1, <2>2, <2>3
<1>4. AskedOnce'
  <2>1. \A k \in Positions(Server, "offer") : k <= consumed[Server] => k <= consumed'[Server]
    <3>1. \A k \in Positions(Server, "offer") : k \in Nat
      BY <1>0, PositionsAre
    <3> QED
      BY <3>1, <1>0, <1>1
  <2> QED
    BY <2>1, <1>2 DEF IInv, AskedOnce, Positions
<1>5. AnsweredFirst'
  <2>1. ASSUME ver[Client] = 0, NEW i \in Positions(Server, "ok") PROVE i > consumed'[Server]
    <3>1. CASE e = Client
      BY <3>1, <2>1, <1>0, <1>1
    <3>2. CASE e # Client
      BY <3>2, <2>1, <1>0, <1>1 DEF IInv, AnsweredFirst
    <3> QED
      BY <3>1, <3>2
  <2> QED
    BY <2>1, <1>2 DEF IInv, AnsweredFirst, Positions
<1> QED
  BY <1>1, <1>3, <1>4, <1>5

\* A reader in protobuf has switched: what it reads or skips says nothing more.
LEMMA ReadProtoKeeps == ASSUME IInv, NEW e \in Ends, ReadProto(e) PROVE IInv'
<1> DEFINE p == Peer(e)
           n == consumed[p] + 1
<1>1. /\ ver[e] = 1 /\ HasInput(e) /\ consumed' = [consumed EXCEPT ![p] = n]
      /\ ver' = ver /\ stream' = stream /\ written' = written /\ fetched' = fetched /\ starter' = starter
      /\ rpc' = rpc /\ held' = held /\ sends' = sends /\ dropped' = dropped /\ garbled' = garbled
  BY DEF ReadProto, Consume
<1>2. Moves(p, n)
  BY <1>1, Reading DEF Moves
<1>3. RestOK'
  BY <1>1, TypeParts DEF IInv, RestOK
<1>4. MarkedOK' /\ MarksFit' /\ KindsApart' /\ OfferedOnce' /\ AskedOnce' /\ AnsweredFirst' /\ ProtoAfterSwitch'
  BY <1>1, <1>2, SkipParts
<1>5. XmlReadersSeeXml'
  BY <1>1 DEF IInv, XmlReadersSeeXml
<1>s. SendsLeft'
  BY <1>1 DEF IInv, SendsLeft
<1> QED
  BY <1>s, <1>3, <1>4, <1>5 DEF IInv, TypeOK, MarkedOK, RestOK

\* A protobuf frame before an XML reader: the answer was dropped.
LEMMA ReadGarbledKeeps == ASSUME IInv, NEW e \in Ends, ReadGarbled(e) PROVE IInv'
<1> DEFINE p == Peer(e)
           n == consumed[p] + 1
<1>1. /\ ver[e] = 0 /\ HasInput(e) /\ rpc[e] = "read" /\ Next1(e).format = "proto"
      /\ consumed' = [consumed EXCEPT ![p] = n] /\ garbled' = garbled \cup {e}
      /\ ver' = ver /\ stream' = stream /\ written' = written /\ fetched' = fetched /\ starter' = starter
      /\ rpc' = rpc /\ held' = held /\ sends' = sends /\ dropped' = dropped
  BY DEF ReadGarbled, Consume, HasInput
<1>2. /\ p \in Ends /\ n \in DOMAIN stream[p] /\ n \in consumed[p] .. fetched[p] /\ consumed[p] \in Nat
      /\ Next1(e) = stream[p][n]
  BY <1>1, Reading DEF Next1
<1>3. Moves(p, n)
  BY <1>1, <1>2 DEF Moves
<1>4. RestOK'
  BY <1>1, TypeParts DEF IInv, RestOK
<1>e. Server \in Ends /\ Client \in Ends /\ (e = Client => p = Server) /\ (e # Client => e = Server /\ p = Client)
  BY EndsFacts
<1>5. ASSUME e = Client, NEW i \in Positions(Server, "ok") PROVE i > n
  <2>1. i > consumed[Server] /\ i \in DOMAIN stream[Server] /\ stream[Server][i].kind = "ok" /\ i \in Nat
    BY <1>5, <1>1, <1>e, PositionsAre DEF IInv, AnsweredFirst
  <2>2. stream[Server][n].kind = "cot"
    BY <1>5, <1>1, <1>2, <1>e DEF IInv, KindsApart
  <2>3. i # n
    BY <2>1, <2>2
  <2> QED
    BY <2>1, <2>3, <1>2, <1>5, <1>e
<1>6. MarkedOK' /\ MarksFit' /\ KindsApart' /\ OfferedOnce' /\ AskedOnce' /\ AnsweredFirst' /\ ProtoAfterSwitch'
  BY <1>1, <1>3, <1>5, SkipParts
<1>7. "ok" \in dropped
  <2>1. CASE e = Client
    <3>1. "ok" \in dropped \/ \E i \in Positions(Server, "ok") : i < n
      BY <2>1, <1>1, <1>2, <1>e DEF IInv, ProtoAfterSwitch
    <3>2. \A i \in Positions(Server, "ok") : i > n /\ i \in Nat /\ n \in Nat
      BY <2>1, <1>2, <1>5, <1>e, PositionsAre
    <3> QED
      BY <3>1, <3>2
  <2>2. CASE e # Client
    <3>1. ver[Client] = 1
      BY <2>2, <1>1, <1>2, <1>e DEF IInv, ProtoAfterSwitch
    <3>2. Positions(Server, "ok") # {}
      BY <3>1 DEF IInv, AnsweredFirst
    <3>3. ver[Server] = 1 \/ rpc[Server] = "set version"
      BY <3>2 DEF IInv, AnsweredFirst
    <3> QED
      <4>1. ver[Server] = 0 /\ rpc[Server] = "read"
        BY <2>2, <1>1, <1>e
      <4> QED
        BY <3>3, <4>1
  <2> QED
    BY <2>1, <2>2
<1>8. XmlReadersSeeXml'
  BY <1>1, <1>7 DEF XmlReadersSeeXml
<1>s. SendsLeft'
  BY <1>1 DEF IInv, SendsLeft
<1> QED
  BY <1>s, <1>4, <1>6, <1>8 DEF IInv, TypeOK, MarkedOK, RestOK

\* The client switches when it reads the answer.
LEMMA ReadOkKeeps == ASSUME IInv, ReadOk PROVE IInv'
<1> DEFINE n == consumed[Server] + 1
<1>0. Server \in Ends /\ Client \in Ends /\ Server # Client /\ Peer(Client) = Server
  BY EndsFacts
<1>1. /\ ver[Client] = 0 /\ HasInput(Client) /\ Next1(Client) = [format |-> "xml", kind |-> "ok"]
      /\ ver' = [ver EXCEPT ![Client] = 1] /\ consumed' = [consumed EXCEPT ![Server] = fetched[Server]]
      /\ stream' = stream /\ written' = written /\ fetched' = fetched /\ starter' = starter
      /\ rpc' = rpc /\ held' = held /\ sends' = sends /\ dropped' = dropped /\ garbled' = garbled
  BY <1>0 DEF ReadOk, SwitchReader
<1>2. n \in DOMAIN stream[Server] /\ Next1(Client) = stream[Server][n]
  BY <1>0, <1>1, Reading DEF Next1
<1>3. fetched[Server] \in consumed[Server] .. fetched[Server]
  <2>1. consumed[Server] \in 0 .. fetched[Server] /\ fetched[Server] \in Nat
    BY <1>0 DEF IInv, TypeOK, MarksFit
  <2> QED
    BY <2>1
<1>4. Moves(Server, fetched[Server])
  BY <1>1, <1>3 DEF Moves
<1>5. ver' \in [Ends -> {0, 1}] /\ ver'[Client] = 1 /\ ver'[Server] = ver[Server]
  BY <1>0, <1>1 DEF IInv, TypeOK
<1>6. n \in Positions(Server, "ok")
  <2>1. stream[Server][n].kind = "ok"
    BY <1>1, <1>2
  <2> QED
    BY <2>1, <1>0, <1>2, PositionsAre
<1>7. RestOK'
  BY <1>1, <1>5, TypeParts DEF IInv, RestOK
<1>8. MarkedOK' /\ MarksFit' /\ consumed[Server] \in Nat /\ consumed'[Server] \in Nat /\ consumed[Server] <= consumed'[Server]
  BY <1>0, <1>4, MarkMoves
<1>9. KindsApart' /\ OfferedOnce' /\ XmlReadersSeeXml'
  <2>1. KindsApart'
    BY <1>1 DEF IInv, KindsApart
  <2>2. OfferedOnce'
    BY <1>1 DEF IInv, OfferedOnce, Positions
  <2>3. XmlReadersSeeXml'
    BY <1>1 DEF IInv, XmlReadersSeeXml
  <2> QED
    BY <2>1, <2>2, <2>3
<1>10. AskedOnce'
  <2>1. \A k \in Positions(Server, "offer") : k <= consumed[Server] => k <= consumed'[Server]
    <3>1. \A k \in Positions(Server, "offer") : k \in Nat
      BY <1>0, PositionsAre
    <3> QED
      BY <3>1, <1>8
  <2> QED
    BY <2>1, <1>1 DEF IInv, AskedOnce, Positions
<1>11. AnsweredFirst'
  <2>1. Positions(Server, "ok") # {}
    BY <1>6
  <2>2. ver[Server] = 1 \/ rpc[Server] = "set version"
    BY <2>1 DEF IInv, AnsweredFirst
  <2> QED
    <3>1. stream' = stream /\ rpc' = rpc /\ dropped' = dropped
      BY <1>1
    <3>2. ver'[Server] = ver[Server] /\ ver'[Client] = 1
      BY <1>5
    <3> QED
      <4>1. Positions(Server, "ok")' = Positions(Server, "ok")
        BY <3>1 DEF Positions
      <4>2. ~(ver'[Client] = 0)
        BY <3>2
      <4>3. ver'[Server] = 1 \/ rpc'[Server] = "set version"
        BY <2>2, <3>1, <3>2
      <4>4. Positions(Server, "ok")' # {}
        BY <2>1, <4>1
      <4> QED
        BY <4>2, <4>3, <4>4 DEF AnsweredFirst
<1>12. ProtoAfterSwitch'
  <2>1. \A s \in Senders : held[s] = "proto" => ver'[Owner[s]] = 1
    <3> SUFFICES ASSUME NEW s \in Senders, held[s] = "proto" PROVE ver'[Owner[s]] = 1
      OBVIOUS
    <3>1. ver[Owner[s]] = 1 /\ Owner[s] \in Ends
      BY SwitchAssumption DEF IInv, ProtoAfterSwitch, SwitchAssumption
    <3> QED
      BY <3>1, <1>5, EndsFacts
  <2> QED
    BY <2>1, <1>1, <1>5 DEF IInv, ProtoAfterSwitch, Positions
<1>s. SendsLeft'
  BY <1>1 DEF IInv, SendsLeft
<1> QED
  BY <1>s, <1>7, <1>8, <1>9, <1>10, <1>11, <1>12 DEF IInv, TypeOK, MarkedOK, RestOK

\* The server switches, its answer written or dropped.
LEMMA SetVersionKeeps == ASSUME IInv, SetVersion PROVE IInv'
<1>0. Server \in Ends /\ Client \in Ends /\ Server # Client /\ Peer(Server) = Client
  BY EndsFacts
<1>1. /\ rpc[Server] = "set version" /\ rpc' = [rpc EXCEPT ![Server] = "read"]
      /\ ver' = [ver EXCEPT ![Server] = 1] /\ consumed' = [consumed EXCEPT ![Client] = fetched[Client]]
      /\ stream' = stream /\ written' = written /\ fetched' = fetched /\ starter' = starter
      /\ held' = held /\ sends' = sends /\ dropped' = dropped /\ garbled' = garbled
  BY <1>0 DEF SetVersion, SwitchReader
<1>3. fetched[Client] \in consumed[Client] .. fetched[Client]
  <2>1. consumed[Client] \in 0 .. fetched[Client] /\ fetched[Client] \in Nat
    BY <1>0 DEF IInv, TypeOK, MarksFit
  <2> QED
    BY <2>1
<1>4. Moves(Client, fetched[Client])
  BY <1>1, <1>3 DEF Moves
<1>5. ver' \in [Ends -> {0, 1}] /\ ver'[Server] = 1 /\ ver'[Client] = ver[Client]
  BY <1>0, <1>1 DEF IInv, TypeOK
<1>6. /\ rpc' \in [Ends -> {"read", "reply", "set version", "request"}]
      /\ rpc'[Server] = "read" /\ rpc'[Client] = rpc[Client]
  BY <1>0, <1>1 DEF IInv, TypeOK
<1>7. RestOK'
  BY <1>1, <1>5, <1>6, TypeParts DEF IInv, RestOK
<1>8. MarkedOK' /\ MarksFit' /\ consumed'[Server] = consumed[Server]
  BY <1>0, <1>4, MarkMoves
<1>9. KindsApart' /\ OfferedOnce' /\ XmlReadersSeeXml'
  <2>1. KindsApart'
    BY <1>1, <1>6 DEF IInv, KindsApart
  <2>2. OfferedOnce'
    <3>1. Positions(Server, "offer")' = Positions(Server, "offer")
      BY <1>1 DEF Positions
    <3> QED
      BY <1>1, <3>1 DEF IInv, OfferedOnce
  <2>3. XmlReadersSeeXml'
    BY <1>1 DEF IInv, XmlReadersSeeXml
  <2> QED
    BY <2>1, <2>2, <2>3
<1>10. AskedOnce'
  <2>1. stream' = stream
    BY <1>1
  <2> QED
    <3>1. /\ Positions(Server, "offer")' = Positions(Server, "offer")
          /\ Positions(Client, "request")' = Positions(Client, "request")
      BY <2>1 DEF Positions
    <3>2. consumed'[Server] = consumed[Server] /\ rpc'[Client] = rpc[Client]
      BY <1>6, <1>8
    <3> QED
      BY <3>1, <3>2 DEF IInv, AskedOnce
<1>11. AnsweredFirst'
  BY <1>1, <1>5, <1>6, <1>8 DEF IInv, AnsweredFirst, Positions
<1>12. ProtoAfterSwitch'
  <2>1. \A s \in Senders : held[s] = "proto" => ver'[Owner[s]] = 1
    <3> SUFFICES ASSUME NEW s \in Senders, held[s] = "proto" PROVE ver'[Owner[s]] = 1
      OBVIOUS
    <3>1. ver[Owner[s]] = 1 /\ Owner[s] \in Ends
      BY SwitchAssumption DEF IInv, ProtoAfterSwitch, SwitchAssumption
    <3> QED
      BY <3>1, <1>5, EndsFacts
  <2> QED
    BY <2>1, <1>1, <1>5 DEF IInv, ProtoAfterSwitch, Positions
<1>s. SendsLeft'
  BY <1>1 DEF IInv, SendsLeft
<1> QED
  BY <1>s, <1>7, <1>8, <1>9, <1>10, <1>11, <1>12 DEF IInv, TypeOK, MarkedOK, RestOK

-----------------------------------------------------------------------------
(* Queueing. *)

\* What a packet that is queued, or dropped, leaves behind.
Added(e, f) ==
  LET n == Len(stream[e]) + 1 IN
  /\ \A o \in Ends : o # e => stream'[o] = stream[o]
  /\ DOMAIN stream'[e] = DOMAIN stream[e] \cup {n} /\ n \notin DOMAIN stream[e] /\ stream'[e][n] = f
  /\ \A i \in DOMAIN stream[e] : stream'[e][i] = stream[e][i] /\ i < n
  /\ consumed[e] < n
  /\ dropped' = dropped

\* tryAddPacket queues the packet behind the others, or drops it.
LEMMA Sending ==
  ASSUME IInv, NEW e \in Ends, NEW f \in Frames, TryAddPacket(e, f), UNCHANGED marks
  PROVE  /\ stream' \in [Ends -> Seq(Frames)] /\ MarkedOK' /\ MarksFit' /\ dropped' \subseteq Controls
         /\ \/ Added(e, f)
            \/ stream' = stream /\ dropped' = dropped \cup ({f.kind} \cap Controls)
<1>1. MarkedOK /\ MarksFit /\ RestOK
  BY TypeParts DEF IInv
<1>2. written' = written /\ fetched' = fetched /\ consumed' = consumed
  BY DEF marks
<1>3. MarksFit'
  BY <1>1, <1>2 DEF MarksFit
<1>4. CASE Len(stream[e]) - written[e] < Cap
  <2>1. stream' = [stream EXCEPT ![e] = Append(stream[e], f)] /\ dropped' = dropped
    BY <1>4 DEF TryAddPacket
  <2>2. stream[e] \in Seq(Frames) /\ stream \in [Ends -> Seq(Frames)]
    BY <1>1 DEF RestOK
  <2>3. /\ stream' \in [Ends -> Seq(Frames)] /\ stream'[e] = Append(stream[e], f)
        /\ \A o \in Ends : o # e => stream'[o] = stream[o]
    BY <2>1, <2>2
  <2>4. /\ Len(stream[e]) \in Nat /\ DOMAIN stream[e] = 1 .. Len(stream[e])
        /\ Len(stream'[e]) = Len(stream[e]) + 1 /\ DOMAIN stream'[e] = 1 .. Len(stream[e]) + 1
    BY <2>2, <2>3
  <2>5. stream'[e][Len(stream[e]) + 1] = f /\ \A i \in 1 .. Len(stream[e]) : stream'[e][i] = stream[e][i]
    BY <2>2, <2>3, <2>4
  <2>6. MarkedOK'
    <3>1. ASSUME NEW o \in Ends
          PROVE  /\ written[o] \in 0 .. Len(stream'[o]) /\ fetched[o] \in 0 .. written[o]
                 /\ consumed[o] \in 0 .. fetched[o] /\ Len(stream'[o]) - written[o] <= Cap
      <4>1. CASE o = e
        <5>1. Cap \in Nat /\ written[e] \in Nat /\ written[e] \in 0 .. Len(stream[e])
          BY <1>1, SwitchAssumption DEF SwitchAssumption, MarkedOK, MarksFit
        <5>2. written[e] \in 0 .. Len(stream'[e]) /\ Len(stream'[e]) - written[e] <= Cap
          BY <5>1, <1>4, <2>4
        <5> QED
          BY <4>1, <5>2, <1>1 DEF MarkedOK
      <4>2. CASE o # e
        BY <4>2, <2>3, <1>1 DEF MarkedOK
      <4> QED
        BY <4>1, <4>2
    <3> QED
      BY <3>1, <1>2 DEF MarkedOK
  <2>7. Added(e, f)
    <3>1. DOMAIN stream'[e] = DOMAIN stream[e] \cup {Len(stream[e]) + 1} /\ Len(stream[e]) + 1 \notin DOMAIN stream[e]
      BY <2>4
    <3>2. \A i \in DOMAIN stream[e] : i < Len(stream[e]) + 1
      BY <2>4
    <3>3. consumed[e] < Len(stream[e]) + 1
      <4>1. /\ consumed[e] \in 0 .. fetched[e] /\ fetched[e] \in 0 .. written[e] /\ written[e] \in 0 .. Len(stream[e])
            /\ consumed[e] \in Nat /\ fetched[e] \in Nat /\ written[e] \in Nat
        BY <1>1 DEF MarkedOK, MarksFit
      <4> QED
        BY <4>1, <2>4
    <3> QED
      BY <3>1, <3>2, <3>3, <2>1, <2>3, <2>4, <2>5 DEF Added
  <2> QED
    BY <2>1, <2>3, <2>6, <2>7, <1>1, <1>3 DEF RestOK
<1>5. CASE ~(Len(stream[e]) - written[e] < Cap)
  <2>1. stream' = stream /\ dropped' = dropped \cup ({f.kind} \cap Controls)
    BY <1>5 DEF TryAddPacket
  <2> QED
    BY <2>1, <1>1, <1>2, <1>3 DEF RestOK, MarkedOK
<1> QED
  BY <1>4, <1>5

\* Where the control messages are after a packet has been queued.
LEMMA AddedPositions ==
  ASSUME IInv, NEW e \in Ends, NEW f \in Frames, Added(e, f), stream' \in [Ends -> Seq(Frames)],
         NEW o \in Ends, NEW kind
  PROVE  Positions(o, kind)' = IF o = e /\ f.kind = kind THEN Positions(o, kind) \cup {Len(stream[e]) + 1}
                                                         ELSE Positions(o, kind)
<1> DEFINE n == Len(stream[e]) + 1
<1>1. DOMAIN stream[o] = 1 .. Len(stream[o])
  <2>1. stream[o] \in Seq(Frames)
    BY DEF IInv, TypeOK
  <2> QED
    BY <2>1
<1>2. DOMAIN stream'[o] = 1 .. Len(stream'[o])
  <2>1. stream'[o] \in Seq(Frames)
    OBVIOUS
  <2> QED
    BY <2>1
<1>3. /\ o # e => stream'[o] = stream[o]
      /\ DOMAIN stream'[e] = DOMAIN stream[e] \cup {n} /\ n \notin DOMAIN stream[e] /\ stream'[e][n] = f
      /\ \A i \in DOMAIN stream[e] : stream'[e][i] = stream[e][i]
  BY DEF Added
<1> HIDE DEF n
<1>4. /\ Positions(o, kind)' = {i \in DOMAIN stream'[o] : stream'[o][i].kind = kind}
      /\ Positions(o, kind) = {i \in DOMAIN stream[o] : stream[o][i].kind = kind}
  BY <1>1, <1>2 DEF Positions
<1> DEFINE after == {i \in DOMAIN stream'[o] : stream'[o][i].kind = kind}
           before == {i \in DOMAIN stream[o] : stream[o][i].kind = kind}
<1>5. after = IF o = e /\ f.kind = kind THEN before \cup {n} ELSE before
  BY <1>3
<1> QED
  BY <1>4, <1>5 DEF n

\* The kinds and formats of the frames, the new one among them.
LEMMA AddedFrames ==
  ASSUME IInv, NEW e \in Ends, NEW f \in Frames, Added(e, f),
         e = Server => f.kind \in {"offer", "ok", "cot"}, e = Client => f.kind \in {"request", "cot"},
         f.format = "proto" => f.kind = "cot" /\ ver[e] = 1,
         rpc'[Server] \in {"read", "reply", "set version"}, rpc'[Client] \in {"read", "request"},
         ver' = ver, \A s \in Senders : held'[s] = "proto" => held[s] = "proto",
         stream' \in [Ends -> Seq(Frames)]
  PROVE  KindsApart' /\ ProtoAfterSwitch'
<1> DEFINE n == Len(stream[e]) + 1
<1>0. Server \in Ends /\ Client \in Ends /\ Server # Client
  BY EndsFacts
<1>1. /\ \A o \in Ends : o # e => stream'[o] = stream[o]
      /\ DOMAIN stream'[e] = DOMAIN stream[e] \cup {n} /\ stream'[e][n] = f
      /\ \A i \in DOMAIN stream[e] : stream'[e][i] = stream[e][i] /\ i < n
      /\ dropped' = dropped
  BY DEF Added
<1> HIDE DEF n
\* A frame is an old one, or the new one.
<1>2. ASSUME NEW o \in Ends, NEW i \in DOMAIN stream'[o]
      PROVE  \/ i \in DOMAIN stream[o] /\ stream'[o][i] = stream[o][i]
             \/ o = e /\ i = n /\ stream'[o][i] = f
  <2>1. CASE o = e
    BY <2>1, <1>1
  <2>2. CASE o # e
    BY <2>2, <1>1
  <2> QED
    BY <2>1, <2>2
<1>3. KindsApart'
  <2>1. \A i \in DOMAIN stream'[Server] : stream'[Server][i].kind \in {"offer", "ok", "cot"}
    BY <1>0, <1>2 DEF IInv, KindsApart
  <2>2. \A i \in DOMAIN stream'[Client] : stream'[Client][i].kind \in {"request", "cot"}
    BY <1>0, <1>2 DEF IInv, KindsApart
  <2>3. \A o \in Ends : \A i \in DOMAIN stream'[o] : stream'[o][i].format = "proto" => stream'[o][i].kind = "cot"
    BY <1>2 DEF IInv, KindsApart
  <2> QED
    BY <2>1, <2>2, <2>3 DEF KindsApart
<1>4. ProtoAfterSwitch'
  <2>1. \A s \in Senders : held'[s] = "proto" => ver[Owner[s]] = 1
    BY DEF IInv, ProtoAfterSwitch
  <2>2. \A i \in DOMAIN stream'[Client] : stream'[Client][i].format = "proto" => ver[Client] = 1
    BY <1>0, <1>2 DEF IInv, ProtoAfterSwitch
  <2>p. \A i \in Positions(Server, "ok") : i \in Positions(Server, "ok")' /\ i \in DOMAIN stream[Server]
    <3>1. Positions(Server, "ok")' = IF Server = e /\ f.kind = "ok" THEN Positions(Server, "ok") \cup {Len(stream[e]) + 1}
                                     ELSE Positions(Server, "ok")
      BY <1>0, AddedPositions
    <3>2. \A i : i \in Positions(Server, "ok") => i \in DOMAIN stream[Server]
      BY <1>0, PositionsAre
    <3> QED
      BY <3>1, <3>2
  <2>3. ASSUME NEW j \in DOMAIN stream'[Server], stream'[Server][j].format = "proto", "ok" \notin dropped
        PROVE  \E i \in Positions(Server, "ok")' : i < j
    <3>1. CASE j \in DOMAIN stream[Server] /\ stream'[Server][j] = stream[Server][j]
      <4>1. PICK i \in Positions(Server, "ok") : i < j
        BY <2>3, <3>1 DEF IInv, ProtoAfterSwitch
      <4> QED
        BY <4>1, <2>p
    <3>2. CASE Server = e /\ j = n /\ stream'[Server][j] = f
      <4>1. Positions(Server, "ok") # {}
        BY <2>3, <3>2 DEF IInv, AnsweredFirst
      <4>2. PICK i : i \in Positions(Server, "ok")
        BY <4>1
      <4>3. i < n
        BY <4>2, <2>p, <3>2, <1>1
      <4> QED
        BY <4>2, <4>3, <2>p, <3>2
    <3> QED
      BY <3>1, <3>2, <1>0, <1>2
  <2> QED
    BY <2>1, <2>2, <2>3, <1>1 DEF ProtoAfterSwitch
<1> QED
  BY <1>3, <1>4

\* The negotiation is where it was when no control message was queued.
LEMMA PartsKept ==
  ASSUME IInv, \A o \in Ends : \A kind \in {"offer", "ok", "request"} : Positions(o, kind)' = Positions(o, kind),
         ver' = ver, rpc' = rpc, consumed' = consumed, starter' = starter, dropped' = dropped
  PROVE  OfferedOnce' /\ AskedOnce' /\ AnsweredFirst'
<1>0. Server \in Ends /\ Client \in Ends
  BY EndsFacts
<1>1. /\ Positions(Server, "offer")' = Positions(Server, "offer") /\ Positions(Server, "ok")' = Positions(Server, "ok")
      /\ Positions(Client, "request")' = Positions(Client, "request")
  BY <1>0
<1>2. OfferedOnce'
  BY <1>1 DEF IInv, OfferedOnce
<1>3. AskedOnce'
  BY <1>1 DEF IInv, AskedOnce
<1>4. AnsweredFirst'
  BY <1>1 DEF IInv, AnsweredFirst
<1> QED
  BY <1>2, <1>3, <1>4

\* A message goes out in the encoding chosen before.
LEMMA QueueKeeps == ASSUME IInv, NEW s \in Senders, Queue(s) PROVE IInv'
<1> DEFINE e == Owner[s]
           f == [format |-> held[s], kind |-> "cot"]
<1>0. e \in Ends /\ Server \in Ends /\ Client \in Ends
  BY SwitchAssumption, EndsFacts DEF SwitchAssumption
<1>1. /\ held[s] # "nothing" /\ TryAddPacket(e, f) /\ held' = [held EXCEPT ![s] = "nothing"]
      /\ sends' = [sends EXCEPT ![s] = sends[s] + 1]
      /\ UNCHANGED marks /\ ver' = ver /\ starter' = starter /\ rpc' = rpc /\ garbled' = garbled
  BY DEF Queue
<1>2. f \in Frames /\ f.format = held[s] /\ f.kind = "cot" /\ {f.kind} \cap Controls = {}
  BY <1>1 DEF IInv, TypeOK, Frames, Formats, Controls
<1>3. held[s] = "proto" => ver[e] = 1
  BY DEF IInv, ProtoAfterSwitch
<1> HIDE DEF e, f
<1>4. /\ stream' \in [Ends -> Seq(Frames)] /\ MarkedOK' /\ MarksFit' /\ dropped' \subseteq Controls
      /\ Added(e, f) \/ (stream' = stream /\ dropped' = dropped)
  BY <1>0, <1>1, <1>2, Sending
<1>5. held' \in [Senders -> Formats \cup {"nothing"}] /\ \A q \in Senders : held'[q] = "proto" => held[q] = "proto"
  BY <1>1 DEF IInv, TypeOK
<1>6. RestOK'
  <2>1. sends[s] + 1 \in 0 .. MaxSends
    <3>1. sends[s] < MaxSends /\ sends[s] \in 0 .. MaxSends
      BY <1>1 DEF IInv, SendsLeft, TypeOK
    <3>2. MaxSends \in Nat
      BY SwitchAssumption DEF SwitchAssumption
    <3> QED
      BY <3>1, <3>2
  <2>2. sends' \in [Senders -> 0 .. MaxSends]
    BY <2>1, <1>1 DEF IInv, TypeOK
  <2> QED
    BY <2>2, <1>1, <1>4, <1>5, TypeParts DEF IInv, RestOK
<1>7. SendsLeft'
  <2> SUFFICES ASSUME NEW q \in Senders, held'[q] # "nothing" PROVE sends'[q] < MaxSends
    BY DEF SendsLeft
  <2>1. q # s /\ held[q] # "nothing" /\ sends'[q] = sends[q]
    BY <1>1 DEF IInv, TypeOK
  <2> QED
    BY <2>1 DEF IInv, SendsLeft
<1>8. XmlReadersSeeXml'
  BY <1>1, <1>4 DEF IInv, XmlReadersSeeXml, Added
<1>9. CASE Added(e, f)
  <2>1. \A o \in Ends : \A kind \in {"offer", "ok", "request"} : Positions(o, kind)' = Positions(o, kind)
    BY <1>0, <1>2, <1>4, <1>9, AddedPositions
  <2>2. KindsApart' /\ ProtoAfterSwitch'
    <3>1. rpc'[Server] \in {"read", "reply", "set version"} /\ rpc'[Client] \in {"read", "request"}
      BY <1>1 DEF IInv, KindsApart
    <3> QED
      BY <3>1, <1>0, <1>1, <1>2, <1>3, <1>4, <1>5, <1>9, AddedFrames
  <2>3. OfferedOnce' /\ AskedOnce' /\ AnsweredFirst'
    BY <2>1, <1>0, <1>1, <1>9, PartsKept DEF Added, marks
  <2> QED
    BY <2>2, <2>3, <1>4, <1>6, <1>7, <1>8 DEF IInv, TypeOK, MarkedOK, RestOK
<1>10. CASE stream' = stream /\ dropped' = dropped
  <2>1. \A q \in Senders : held'[q] = "proto" => ver[Owner[q]] = 1
    BY <1>5 DEF IInv, ProtoAfterSwitch
  <2>2. consumed' = consumed
    BY <1>1 DEF marks
  <2> QED
    BY <2>1, <2>2, <1>1, <1>4, <1>6, <1>7, <1>10, QuietParts DEF IInv, TypeOK, MarkedOK, RestOK
<1> QED
  BY <1>4, <1>9, <1>10

\* A control message that is dropped: the place of a reader may change as if
\* it had been sent.
LEMMA DroppedParts ==
  ASSUME IInv, stream' = stream, ver' = ver, consumed' = consumed, held' = held, garbled' = garbled,
         dropped \subseteq dropped', starter' = starter \/ starter' = "done",
         rpc'[Server] = rpc[Server] \/ (rpc'[Server] = "set version" /\ "ok" \in dropped'),
         rpc[Server] = "set version" => rpc'[Server] = "set version",
         rpc'[Client] = rpc[Client] \/ rpc'[Client] = "read"
  PROVE  /\ KindsApart' /\ OfferedOnce' /\ AskedOnce' /\ AnsweredFirst' /\ ProtoAfterSwitch'
         /\ XmlReadersSeeXml'
<1>0. Positions(Server, "offer")' = Positions(Server, "offer") /\ Positions(Server, "ok")' = Positions(Server, "ok")
      /\ Positions(Client, "request")' = Positions(Client, "request")
  BY DEF Positions
<1>1. KindsApart'
  BY DEF IInv, KindsApart
<1>2. OfferedOnce'
  BY <1>0 DEF IInv, OfferedOnce
<1>3. AskedOnce'
  BY <1>0 DEF IInv, AskedOnce
<1>4. AnsweredFirst'
  BY <1>0 DEF IInv, AnsweredFirst
<1>5. ProtoAfterSwitch'
  BY <1>0 DEF IInv, ProtoAfterSwitch
<1>6. XmlReadersSeeXml'
  BY DEF IInv, XmlReadersSeeXml
<1> QED
  BY <1>1, <1>2, <1>3, <1>4, <1>5, <1>6

\* Start offers the protocol, once.
LEMMA OfferKeeps == ASSUME IInv, Offer PROVE IInv'
<1> DEFINE f == [format |-> "xml", kind |-> "offer"]
           n == Len(stream[Server]) + 1
<1>0. Server \in Ends /\ Client \in Ends /\ Server # Client
  BY EndsFacts
<1>1. /\ starter = "push" /\ TryAddPacket(Server, f) /\ starter' = "done"
      /\ UNCHANGED marks /\ ver' = ver /\ rpc' = rpc /\ held' = held /\ sends' = sends /\ garbled' = garbled
  BY DEF Offer
<1>2. f \in Frames /\ f.format = "xml" /\ f.kind = "offer"
  BY DEF Frames, Formats, Controls
<1> HIDE DEF f
<1>4. /\ stream' \in [Ends -> Seq(Frames)] /\ MarkedOK' /\ MarksFit' /\ dropped' \subseteq Controls
      /\ Added(Server, f) \/ (stream' = stream /\ dropped' = dropped \cup ({f.kind} \cap Controls))
  BY <1>0, <1>1, <1>2, Sending
<1>5. RestOK'
  BY <1>1, <1>4, TypeParts DEF IInv, RestOK
<1>6. SendsLeft'
  BY <1>1 DEF IInv, SendsLeft
<1>7. Positions(Server, "offer") = {}
  BY <1>1 DEF IInv, OfferedOnce
<1>c. consumed' = consumed
  BY <1>1 DEF marks
<1>8. Positions(Client, "request") = {} /\ rpc[Client] # "request"
  BY <1>7 DEF IInv, AskedOnce
<1>9. CASE Added(Server, f)
  <2>1. /\ Positions(Server, "offer")' = {n} /\ Positions(Server, "ok")' = Positions(Server, "ok")
        /\ Positions(Client, "request")' = {}
    BY <1>0, <1>2, <1>4, <1>7, <1>8, <1>9, AddedPositions
  <2> HIDE DEF n
  <2>2. KindsApart' /\ ProtoAfterSwitch'
    <3>1. rpc'[Server] \in {"read", "reply", "set version"} /\ rpc'[Client] \in {"read", "request"}
      BY <1>1 DEF IInv, KindsApart
    <3> QED
      BY <3>1, <1>0, <1>1, <1>2, <1>4, <1>9, AddedFrames
  <2>3. OfferedOnce'
    BY <2>1, <1>1 DEF OfferedOnce
  <2>4. AskedOnce'
    BY <2>1, <1>1, <1>8 DEF AskedOnce
  <2>d. dropped' = dropped
    BY <1>9 DEF Added
  <2>5. AnsweredFirst'
    BY <2>1, <2>d, <1>1, <1>c DEF IInv, AnsweredFirst
  <2>6. XmlReadersSeeXml'
    BY <2>d, <1>1 DEF IInv, XmlReadersSeeXml
  <2> QED
    BY <2>2, <2>3, <2>4, <2>5, <2>6, <1>4, <1>5, <1>6 DEF IInv, TypeOK, MarkedOK, RestOK
<1>10. CASE stream' = stream /\ dropped' = dropped \cup ({f.kind} \cap Controls)
  <2> QED
    BY <1>1, <1>4, <1>5, <1>6, <1>7, <1>8, <1>10, <1>c, DroppedParts DEF IInv, TypeOK, MarkedOK, RestOK
<1> QED
  BY <1>4, <1>9, <1>10

\* The client asks, once.
LEMMA RequestKeeps == ASSUME IInv, Request PROVE IInv'
<1> DEFINE f == [format |-> "xml", kind |-> "request"]
           n == Len(stream[Client]) + 1
<1>0. Server \in Ends /\ Client \in Ends /\ Server # Client
  BY EndsFacts
<1>1. /\ rpc[Client] = "request" /\ TryAddPacket(Client, f) /\ rpc' = [rpc EXCEPT ![Client] = "read"]
      /\ UNCHANGED marks /\ ver' = ver /\ starter' = starter /\ held' = held /\ sends' = sends /\ garbled' = garbled
  BY DEF Request, SendEvent
<1>2. f \in Frames /\ f.format = "xml" /\ f.kind = "request"
  BY DEF Frames, Formats, Controls
<1> HIDE DEF f
<1>3. /\ rpc' \in [Ends -> {"read", "reply", "set version", "request"}]
      /\ rpc'[Client] = "read" /\ rpc'[Server] = rpc[Server]
  BY <1>0, <1>1 DEF IInv, TypeOK
<1>4. /\ stream' \in [Ends -> Seq(Frames)] /\ MarkedOK' /\ MarksFit' /\ dropped' \subseteq Controls
      /\ Added(Client, f) \/ (stream' = stream /\ dropped' = dropped \cup ({f.kind} \cap Controls))
  BY <1>0, <1>1, <1>2, Sending
<1>5. RestOK'
  BY <1>1, <1>3, <1>4, TypeParts DEF IInv, RestOK
<1>6. SendsLeft'
  BY <1>1 DEF IInv, SendsLeft
<1>7. /\ Positions(Client, "request") = {}
      /\ \E k \in Positions(Server, "offer") : k <= consumed[Server]
  BY <1>1 DEF IInv, AskedOnce
<1>c. consumed' = consumed
  BY <1>1 DEF marks
<1>9. CASE Added(Client, f)
  <2>1. /\ Positions(Server, "offer")' = Positions(Server, "offer") /\ Positions(Server, "ok")' = Positions(Server, "ok")
        /\ Positions(Client, "request")' = {n}
    BY <1>0, <1>2, <1>4, <1>7, <1>9, AddedPositions
  <2> HIDE DEF n
  <2>2. KindsApart' /\ ProtoAfterSwitch'
    <3>1. rpc'[Server] \in {"read", "reply", "set version"} /\ rpc'[Client] \in {"read", "request"}
      BY <1>3 DEF IInv, KindsApart
    <3> QED
      BY <3>1, <1>0, <1>1, <1>2, <1>4, <1>9, AddedFrames
  <2>3. OfferedOnce'
    BY <2>1, <1>1 DEF IInv, OfferedOnce
  <2>4. AskedOnce'
    BY <2>1, <1>3, <1>7, <1>c DEF AskedOnce
  <2>d. dropped' = dropped
    BY <1>9 DEF Added
  <2>v. ver' = ver
    BY <1>1
  <2>5. AnsweredFirst'
    BY <2>1, <2>d, <2>v, <1>3, <1>c DEF IInv, AnsweredFirst
  <2>6. XmlReadersSeeXml'
    BY <2>d, <1>1 DEF IInv, XmlReadersSeeXml
  <2> QED
    BY <2>2, <2>3, <2>4, <2>5, <2>6, <1>4, <1>5, <1>6 DEF IInv, TypeOK, MarkedOK, RestOK
<1>10. CASE stream' = stream /\ dropped' = dropped \cup ({f.kind} \cap Controls)
  <2>1. rpc'[Server] = rpc[Server] /\ rpc'[Client] = "read"
    BY <1>3
  <2> QED
    BY <2>1, <1>1, <1>4, <1>5, <1>6, <1>10, <1>c, DroppedParts DEF IInv, TypeOK, MarkedOK, RestOK
<1> QED
  BY <1>4, <1>9, <1>10

\* The server answers; the answer is queued before the version is changed.
LEMMA ReplyOkKeeps == ASSUME IInv, ReplyOk PROVE IInv'
<1> DEFINE f == [format |-> "xml", kind |-> "ok"]
           n == Len(stream[Server]) + 1
<1>0. Server \in Ends /\ Client \in Ends /\ Server # Client
  BY EndsFacts
<1>1. /\ rpc[Server] = "reply" /\ TryAddPacket(Server, f) /\ rpc' = [rpc EXCEPT ![Server] = "set version"]
      /\ UNCHANGED marks /\ ver' = ver /\ starter' = starter /\ held' = held /\ sends' = sends /\ garbled' = garbled
  BY DEF ReplyOk, SendEvent
<1>2. f \in Frames /\ f.format = "xml" /\ f.kind = "ok" /\ {f.kind} \cap Controls = {"ok"}
  BY DEF Frames, Formats, Controls
<1> HIDE DEF f
<1>3. /\ rpc' \in [Ends -> {"read", "reply", "set version", "request"}]
      /\ rpc'[Server] = "set version" /\ rpc'[Client] = rpc[Client]
  BY <1>0, <1>1 DEF IInv, TypeOK
<1>4. /\ stream' \in [Ends -> Seq(Frames)] /\ MarkedOK' /\ MarksFit' /\ dropped' \subseteq Controls
      /\ Added(Server, f) \/ (stream' = stream /\ dropped' = dropped \cup ({f.kind} \cap Controls))
  BY <1>0, <1>1, <1>2, Sending
<1>5. RestOK'
  BY <1>1, <1>3, <1>4, TypeParts DEF IInv, RestOK
<1>6. SendsLeft'
  BY <1>1 DEF IInv, SendsLeft
<1>c. consumed' = consumed
  BY <1>1 DEF marks
<1>9. CASE Added(Server, f)
  <2>1. /\ Positions(Server, "offer")' = Positions(Server, "offer")
        /\ Positions(Server, "ok")' = Positions(Server, "ok") \cup {n}
        /\ Positions(Client, "request")' = Positions(Client, "request")
    BY <1>0, <1>2, <1>4, <1>9, AddedPositions
  <2>n. n > consumed[Server]
    <3>1. consumed[Server] < n
      BY <1>9 DEF Added
    <3>2. Len(stream[Server]) \in Nat /\ consumed[Server] \in Nat
      <4>1. stream[Server] \in Seq(Frames)
        BY <1>0 DEF IInv, TypeOK
      <4> QED
        BY <4>1, <1>0 DEF IInv, MarksFit
    <3> QED
      BY <3>1, <3>2
  <2> HIDE DEF n
  <2>2. KindsApart' /\ ProtoAfterSwitch'
    <3>1. rpc'[Server] \in {"read", "reply", "set version"} /\ rpc'[Client] \in {"read", "request"}
      BY <1>3 DEF IInv, KindsApart
    <3> QED
      BY <3>1, <1>0, <1>1, <1>2, <1>4, <1>9, AddedFrames
  <2>3. OfferedOnce'
    BY <2>1, <1>1 DEF IInv, OfferedOnce
  <2>4. AskedOnce'
    BY <2>1, <1>3, <1>c DEF IInv, AskedOnce
  <2>d. dropped' = dropped
    BY <1>9 DEF Added
  <2>v. ver' = ver
    BY <1>1
  <2>5. AnsweredFirst'
    <3>1. ver[Client] = 0 => \A i \in Positions(Server, "ok")' : i > consumed'[Server]
      BY <2>1, <2>n, <1>c DEF IInv, AnsweredFirst
    <3>2. Positions(Server, "ok")' # {}
      BY <2>1
    <3> QED
      BY <3>1, <3>2, <2>v, <1>3 DEF AnsweredFirst
  <2>6. XmlReadersSeeXml'
    BY <2>d, <1>1 DEF IInv, XmlReadersSeeXml
  <2> QED
    BY <2>2, <2>3, <2>4, <2>5, <2>6, <1>4, <1>5, <1>6 DEF IInv, TypeOK, MarkedOK, RestOK
<1>10. CASE stream' = stream /\ dropped' = dropped \cup ({f.kind} \cap Controls)
  <2>1. "ok" \in dropped'
    BY <1>2, <1>10
  <2>2. rpc'[Server] = "set version" /\ rpc'[Client] = rpc[Client]
    BY <1>3
  <2> QED
    BY <2>1, <2>2, <1>1, <1>4, <1>5, <1>6, <1>10, <1>c, DroppedParts DEF IInv, TypeOK, MarkedOK, RestOK
<1> QED
  BY <1>4, <1>9, <1>10

-----------------------------------------------------------------------------
(* The theorems. *)

\* Nothing has been sent at the start.
LEMMA InitHolds == Init => IInv
<1> SUFFICES ASSUME Init PROVE IInv
  OBVIOUS
<1>0. Server \in Ends /\ Client \in Ends
  BY EndsFacts
<1>1. \A e \in Ends : stream[e] = <<>> /\ written[e] = 0 /\ fetched[e] = 0 /\ consumed[e] = 0 /\ ver[e] = 0 /\ rpc[e] = "read"
  BY DEF Init
<1>2. \A e \in Ends : \A kind : Positions(e, kind) = {}
  BY <1>1 DEF Positions
<1>3. MarkedOK
  <2>1. Cap \in Nat
    BY SwitchAssumption DEF SwitchAssumption
  <2> QED
    BY <2>1, <1>1 DEF MarkedOK
<1>4. RestOK
  <2>1. /\ ver \in [Ends -> {0, 1}] /\ stream \in [Ends -> Seq(Frames)]
        /\ rpc \in [Ends -> {"read", "reply", "set version", "request"}]
    BY DEF Init
  <2>2. sends \in [Senders -> 0 .. MaxSends]
    <3>1. 0 \in 0 .. MaxSends
      BY SwitchAssumption DEF SwitchAssumption
    <3> QED
      BY <3>1 DEF Init
  <2>3. held \in [Senders -> Formats \cup {"nothing"}] /\ starter = "check" /\ dropped = {} /\ garbled = {}
    BY DEF Init
  <2> QED
    BY <2>1, <2>2, <2>3 DEF RestOK
<1>5. MarksFit /\ SendsLeft
  BY DEF Init, MarksFit, SendsLeft
<1>6. KindsApart /\ ProtoAfterSwitch
  <2>1. \A e \in Ends : DOMAIN stream[e] = {}
    BY <1>1
  <2>2. \A s \in Senders : held[s] # "proto"
    BY DEF Init
  <2> QED
    BY <2>1, <2>2, <1>0, <1>1 DEF KindsApart, ProtoAfterSwitch
<1>7. OfferedOnce /\ AskedOnce /\ AnsweredFirst
  <2>1. /\ Positions(Server, "offer") = {} /\ Positions(Server, "ok") = {} /\ Positions(Client, "request") = {}
        /\ ver[Server] # 1 /\ ver[Client] # 1 /\ rpc[Server] = "read" /\ rpc[Client] = "read"
    BY <1>0, <1>1, <1>2
  <2>2. OfferedOnce
    BY <2>1 DEF OfferedOnce
  <2>3. AskedOnce
    BY <2>1 DEF AskedOnce
  <2>4. AnsweredFirst
    BY <2>1 DEF AnsweredFirst
  <2> QED
    BY <2>2, <2>3, <2>4
<1>8. XmlReadersSeeXml
  BY DEF Init, XmlReadersSeeXml
<1> QED
  BY <1>3, <1>4, <1>5, <1>6, <1>7, <1>8, TypeParts DEF IInv

\* Every step keeps the invariant.
LEMMA NextKeeps == IInv /\ [Next]_vars => IInv'
<1> SUFFICES ASSUME IInv, [Next]_vars PROVE IInv'
  OBVIOUS
<1>1. CASE Negotiate
  BY <1>1, OfferCheckKeeps, OfferKeeps, ReadOkKeeps, RequestKeeps, ReplyOkKeeps, SetVersionKeeps DEF Negotiate
<1>2. CASE \E e \in Ends : Write(e) \/ ReaderStep(e)
  BY <1>2, WriteKeeps, FetchKeeps, ReadXmlKeeps, ReadGarbledKeeps, ReadProtoKeeps DEF ReaderStep
<1>3. CASE \E s \in Senders : Encode(s) \/ Queue(s)
  BY <1>3, EncodeKeeps, QueueKeeps
<1>4. CASE UNCHANGED vars
  <2>1. /\ ver' = ver /\ stream' = stream /\ written' = written /\ fetched' = fetched /\ consumed' = consumed
        /\ starter' = starter /\ rpc' = rpc /\ held' = held /\ sends' = sends /\ dropped' = dropped
        /\ garbled' = garbled
    BY <1>4 DEF vars, marks
  <2>2. TypeOK' /\ MarksFit' /\ SendsLeft'
    BY <2>1 DEF IInv, TypeOK, MarksFit, SendsLeft
  <2>3. \A s \in Senders : held'[s] = "proto" => ver[Owner[s]] = 1
    BY <2>1 DEF IInv, ProtoAfterSwitch
  <2> QED
    BY <2>1, <2>2, <2>3, QuietParts DEF IInv
<1> QED
  BY <1>1, <1>2, <1>3, <1>4 DEF Next

\* The inductive invariant holds, whatever is sent while the two ends
\* negotiate (client_handler.go:186-193, 298-370).
THEOREM Invariance == Spec => []IInv
<1>1. Init => IInv
  BY InitHolds
<1>2. IInv /\ [Next]_vars => IInv'
  BY NextKeeps
<1> QED
  BY <1>1, <1>2, PTL DEF Spec

\* The negotiation takes its steps in their order: one offer, and one request
\* after it was read; and no queue overflows (client_handler.go:190, 341-352).
THEOREM NegotiationIsOrderly == Spec => []OrderlyNegotiation
<1>1. IInv => OrderlyNegotiation
  BY DEF IInv, OrderlyNegotiation, AskedOnceAfterOffer, AskedOnce
<1> QED
  BY <1>1, Invariance, PTL

\* "Answer, then switch" keeps protobuf frames from XML readers, in both
\* directions, unless the answer fell to a full queue (client_handler.go:327-335).
THEOREM XmlReadersAreSafe == Spec => []XmlReadersSeeXml
<1>1. IInv => XmlReadersSeeXml
  BY DEF IInv
<1> QED
  BY <1>1, Invariance, PTL

-----------------------------------------------------------------------------
(***************************************************************************)
(* What a device is configured with: Profiles, for any logins, uids, rows, *)
(* options and requests.                                                   *)
(***************************************************************************)
CONSTANTS Logins, Uids, Options, Named, Known, Values, Rows, First, Admins, Devices, MaxFaults
VARIABLES table, past, req, faults

Prof == INSTANCE Profiles

\* What is used of its assumption.
ProfilesConstants ==
  /\ "" \notin Logins \cup Uids /\ "*" \notin Logins \cup Uids
  /\ \A row \in Rows : row.there
  /\ First \subseteq [Prof!Keys -> Rows \cup {Prof!NoRow}]
  /\ \A t \in First, k \in Prof!Keys : t[k].there => "" \notin {k[1], k[2]}
  /\ MaxFaults \in Nat

(* What the four reads are merged to. *)
OnConnect == "deviceProfileEnableOnConnect"
RowOpts(callsign, row) == IF callsign THEN Prof!Over(row.columns, row.options) ELSE row.options
RanksOf(t, login, uid, enrol, n) == {i \in 1..4 : Prof!Gives(t, Prof!Ranked(login, uid)[i], n, enrol)}
BestOf(S) == CHOOSE i \in S : \A j \in S : i <= j

\* A row for the very device gives its columns and its options.
LEMMA DeviceRowGives ==
  ASSUME NEW t, NEW k, k[2] # "*", NEW enrol, NEW n
  PROVE  /\ n \in DOMAIN RowOpts(TRUE, t[k]) <=> Prof!Gives(t, k, n, enrol)
         /\ n \in DOMAIN RowOpts(TRUE, t[k]) => RowOpts(TRUE, t[k])[n] = Prof!Given(t, k, n)
BY DEF RowOpts, Prof!Over, Prof!Gives, Prof!Given

\* A row for all devices gives its columns when the device enrols.
LEMMA GeneralRowGives ==
  ASSUME NEW t, NEW k, k[2] = "*", NEW enrol \in BOOLEAN, NEW n
  PROVE  /\ n \in DOMAIN RowOpts(enrol, t[k]) <=> Prof!Gives(t, k, n, enrol)
         /\ n \in DOMAIN RowOpts(enrol, t[k]) => RowOpts(enrol, t[k])[n] = Prof!Given(t, k, n)
<1>1. CASE enrol
  <2>1. RowOpts(enrol, t[k]) = Prof!Over(t[k].columns, t[k].options)
    BY <1>1 DEF RowOpts
  <2> QED
    BY <1>1, <2>1 DEF Prof!Over, Prof!Gives, Prof!Given
<1>2. CASE ~enrol
  <2>1. RowOpts(enrol, t[k]) = t[k].options
    BY <1>2 DEF RowOpts
  <2> QED
    BY <1>2, <2>1 DEF Prof!Gives, Prof!Given
<1> QED
  BY <1>1, <1>2

\* The first of the ranks there are.
LEMMA BestIs ==
  ASSUME NEW S \in SUBSET (1..4), NEW i \in S, \A j \in S : i <= j
  PROVE  BestOf(S) = i
<1>1. BestOf(S) \in S /\ \A j \in S : BestOf(S) <= j
  BY DEF BestOf
<1>2. BestOf(S) <= i /\ i <= BestOf(S)
  BY <1>1
<1>3. BestOf(S) \in 1..4 /\ i \in 1..4
  BY <1>1
<1> QED
  BY <1>2, <1>3

\* Merging the four rows in their order gives each option from the row that is
\* the most particular among those that give it.
LEMMA MergedIsDue ==
  ASSUME NEW t, NEW login, NEW uid, uid # "*", NEW enrol \in BOOLEAN, NEW got,
         got[1] = t[<<"*", "*">>], got[2] = t[<<login, "*">>], got[3] = t[<<"*", uid>>], got[4] = t[<<login, uid>>]
  PROVE  Prof!Content(Prof!MergedOptions(got, enrol)) = Prof!Due(t, login, uid, enrol)
<1> DEFINE a == RowOpts(enrol, got[1])
           b == RowOpts(enrol, got[2])
           c == RowOpts(TRUE, got[3])
           d == RowOpts(TRUE, got[4])
           M == Prof!MergedOptions(got, enrol)
           ranks(n) == RanksOf(t, login, uid, enrol, n)
           D == Prof!Due(t, login, uid, enrol)
           best(n) == Prof!Given(t, Prof!Ranked(login, uid)[BestOf(ranks(n))], n)
<1>1. D = [n \in {m \in Known : m = OnConnect \/ ranks(m) # {}} |-> IF n = OnConnect THEN "true" ELSE best(n)]
  BY DEF Prof!Due, RanksOf, BestOf, OnConnect
<1>2. M = Prof!Over(Prof!Over(Prof!Over(a, b), Prof!Over(c, d)), [n \in {OnConnect} |-> "true"])
  BY DEF Prof!MergedOptions, Prof!profileOpts, RowOpts, OnConnect
<1>r. /\ Prof!Ranked(login, uid)[1] = <<login, uid>> /\ Prof!Ranked(login, uid)[2] = <<"*", uid>>
      /\ Prof!Ranked(login, uid)[3] = <<login, "*">> /\ Prof!Ranked(login, uid)[4] = <<"*", "*">>
  BY DEF Prof!Ranked
<1>3. ASSUME NEW n
      PROVE  /\ n \in DOMAIN d <=> 1 \in ranks(n)
             /\ n \in DOMAIN c <=> 2 \in ranks(n)
             /\ n \in DOMAIN b <=> 3 \in ranks(n)
             /\ n \in DOMAIN a <=> 4 \in ranks(n)
             /\ n \in DOMAIN d => d[n] = Prof!Given(t, Prof!Ranked(login, uid)[1], n)
             /\ n \in DOMAIN c => c[n] = Prof!Given(t, Prof!Ranked(login, uid)[2], n)
             /\ n \in DOMAIN b => b[n] = Prof!Given(t, Prof!Ranked(login, uid)[3], n)
             /\ n \in DOMAIN a => a[n] = Prof!Given(t, Prof!Ranked(login, uid)[4], n)
  <2>1. \A i \in 1..4 : i \in ranks(n) <=> Prof!Gives(t, Prof!Ranked(login, uid)[i], n, enrol)
    BY DEF RanksOf
  <2>2. /\ n \in DOMAIN d <=> Prof!Gives(t, <<login, uid>>, n, enrol)
        /\ n \in DOMAIN d => d[n] = Prof!Given(t, <<login, uid>>, n)
    <3> DEFINE k == <<login, uid>>
    <3>1. k[2] # "*"
      OBVIOUS
    <3>2. t[k] = got[4]
      OBVIOUS
    <3> HIDE DEF k
    <3>3. /\ n \in DOMAIN RowOpts(TRUE, t[k]) <=> Prof!Gives(t, k, n, enrol)
          /\ n \in DOMAIN RowOpts(TRUE, t[k]) => RowOpts(TRUE, t[k])[n] = Prof!Given(t, k, n)
      BY <3>1, DeviceRowGives
    <3> QED
      BY <3>2, <3>3 DEF k
  <2>3. /\ n \in DOMAIN c <=> Prof!Gives(t, <<"*", uid>>, n, enrol)
        /\ n \in DOMAIN c => c[n] = Prof!Given(t, <<"*", uid>>, n)
    <3> DEFINE k == <<"*", uid>>
    <3>1. k[2] # "*"
      OBVIOUS
    <3>2. t[k] = got[3]
      OBVIOUS
    <3> HIDE DEF k
    <3>3. /\ n \in DOMAIN RowOpts(TRUE, t[k]) <=> Prof!Gives(t, k, n, enrol)
          /\ n \in DOMAIN RowOpts(TRUE, t[k]) => RowOpts(TRUE, t[k])[n] = Prof!Given(t, k, n)
      BY <3>1, DeviceRowGives
    <3> QED
      BY <3>2, <3>3 DEF k
  <2>4. /\ n \in DOMAIN b <=> Prof!Gives(t, <<login, "*">>, n, enrol)
        /\ n \in DOMAIN b => b[n] = Prof!Given(t, <<login, "*">>, n)
    <3> DEFINE k == <<login, "*">>
    <3>1. k[2] = "*"
      OBVIOUS
    <3>2. t[k] = got[2]
      OBVIOUS
    <3> HIDE DEF k
    <3>3. /\ n \in DOMAIN RowOpts(enrol, t[k]) <=> Prof!Gives(t, k, n, enrol)
          /\ n \in DOMAIN RowOpts(enrol, t[k]) => RowOpts(enrol, t[k])[n] = Prof!Given(t, k, n)
      BY <3>1, GeneralRowGives
    <3> QED
      BY <3>2, <3>3 DEF k
  <2>5. /\ n \in DOMAIN a <=> Prof!Gives(t, <<"*", "*">>, n, enrol)
        /\ n \in DOMAIN a => a[n] = Prof!Given(t, <<"*", "*">>, n)
    <3> DEFINE k == <<"*", "*">>
    <3>1. k[2] = "*"
      OBVIOUS
    <3>2. t[k] = got[1]
      OBVIOUS
    <3> HIDE DEF k
    <3>3. /\ n \in DOMAIN RowOpts(enrol, t[k]) <=> Prof!Gives(t, k, n, enrol)
          /\ n \in DOMAIN RowOpts(enrol, t[k]) => RowOpts(enrol, t[k])[n] = Prof!Given(t, k, n)
      BY <3>1, GeneralRowGives
    <3> QED
      BY <3>2, <3>3 DEF k
  <2> HIDE DEF a, b, c, d, ranks
  <2> QED
    BY <1>r, <2>1, <2>2, <2>3, <2>4, <2>5
<1>4. ASSUME NEW n PROVE ranks(n) \in SUBSET (1..4)
  BY DEF RanksOf
<1>5. /\ DOMAIN M = DOMAIN a \cup DOMAIN b \cup DOMAIN c \cup DOMAIN d \cup {OnConnect}
      /\ \A n \in DOMAIN M : M[n] = IF n = OnConnect THEN "true" ELSE IF n \in DOMAIN d THEN d[n]
                                    ELSE IF n \in DOMAIN c THEN c[n] ELSE IF n \in DOMAIN b THEN b[n] ELSE a[n]
  <2> HIDE DEF a, b, c, d, M
  <2> DEFINE e == Prof!Over(a, b)
             f == Prof!Over(c, d)
             g == Prof!Over(e, f)
             o == [n \in {OnConnect} |-> "true"]
  <2>1. DOMAIN e = DOMAIN a \cup DOMAIN b /\ \A n \in DOMAIN e : e[n] = IF n \in DOMAIN b THEN b[n] ELSE a[n]
    BY DEF Prof!Over
  <2>2. DOMAIN f = DOMAIN c \cup DOMAIN d /\ \A n \in DOMAIN f : f[n] = IF n \in DOMAIN d THEN d[n] ELSE c[n]
    BY DEF Prof!Over
  <2>3. DOMAIN g = DOMAIN e \cup DOMAIN f /\ \A n \in DOMAIN g : g[n] = IF n \in DOMAIN f THEN f[n] ELSE e[n]
    BY DEF Prof!Over
  <2>4. DOMAIN o = {OnConnect} /\ o[OnConnect] = "true" /\ M = Prof!Over(g, o)
    BY <1>2
  <2> HIDE DEF e, f, g, o
  <2>5. DOMAIN M = DOMAIN g \cup DOMAIN o /\ \A n \in DOMAIN M : M[n] = IF n \in DOMAIN o THEN o[n] ELSE g[n]
    BY <2>4 DEF Prof!Over
  <2> QED
    BY <2>1, <2>2, <2>3, <2>4, <2>5
<1>6. ASSUME NEW n, n # OnConnect, n \in DOMAIN M PROVE M[n] = best(n)
  <2>1. CASE 1 \in ranks(n)
    <3>1. BestOf(ranks(n)) = 1
      BY <1>4, <2>1, BestIs
    <3> HIDE DEF a, b, c, d, M, ranks
    <3> QED
      BY <1>3, <1>5, <1>6, <2>1, <3>1
  <2>2. CASE 1 \notin ranks(n) /\ 2 \in ranks(n)
    <3>1. BestOf(ranks(n)) = 2
      <4>1. \A j \in ranks(n) : 2 <= j
        BY <1>4, <2>2
      <4> QED
        BY <1>4, <2>2, <4>1, BestIs
    <3> HIDE DEF a, b, c, d, M, ranks
    <3> QED
      BY <1>3, <1>5, <1>6, <2>2, <3>1
  <2>3. CASE 1 \notin ranks(n) /\ 2 \notin ranks(n) /\ 3 \in ranks(n)
    <3>1. BestOf(ranks(n)) = 3
      <4>1. \A j \in ranks(n) : 3 <= j
        BY <1>4, <2>3
      <4> QED
        BY <1>4, <2>3, <4>1, BestIs
    <3> HIDE DEF a, b, c, d, M, ranks
    <3> QED
      BY <1>3, <1>5, <1>6, <2>3, <3>1
  <2>4. CASE 1 \notin ranks(n) /\ 2 \notin ranks(n) /\ 3 \notin ranks(n)
    <3>0. 4 \in ranks(n)
      <4> HIDE DEF a, b, c, d, M, ranks
      <4> QED
        BY <1>3, <1>5, <1>6, <2>4
    <3>1. BestOf(ranks(n)) = 4
      <4>1. \A j \in ranks(n) : 4 <= j
        BY <1>4, <2>4
      <4> QED
        BY <1>4, <3>0, <4>1, BestIs
    <3> HIDE DEF a, b, c, d, M, ranks
    <3> QED
      BY <1>3, <1>5, <1>6, <2>4, <3>0, <3>1
  <2> QED
    BY <2>1, <2>2, <2>3, <2>4
<1>7. ASSUME NEW n PROVE n \in DOMAIN M <=> n = OnConnect \/ ranks(n) # {}
  <2>1. ranks(n) # {} <=> 1 \in ranks(n) \/ 2 \in ranks(n) \/ 3 \in ranks(n) \/ 4 \in ranks(n)
    BY <1>4
  <2> HIDE DEF a, b, c, d, M, ranks
  <2> QED
    BY <1>3, <1>5, <2>1
<1>8. Prof!Content(M) = [n \in DOMAIN M \cap Known |-> M[n]]
  BY DEF Prof!Content
<1>9. DOMAIN M \cap Known = {m \in Known : m = OnConnect \/ ranks(m) # {}}
  BY <1>7
<1>10. M[OnConnect] = "true"
  BY <1>5
<1>11. Prof!Content(M) = D
  <2>1. \A n \in DOMAIN M : n # OnConnect => M[n] = best(n)
    BY <1>6
  <2> HIDE DEF M, D, best, ranks
  <2> QED
    BY <1>1, <1>8, <1>9, <1>10, <2>1
<1> QED
  BY <1>11

-----------------------------------------------------------------------------
(* What a request has read, and what the table was. *)
ProfileRequests == Admins \cup Devices
Tables == [Prof!Keys -> Rows \cup {Prof!NoRow}]
Seen == Rows \cup {Prof!NoRow, Prof!Empty}
Prefs == {<<>>} \cup {Prof!Content(Prof!MergedOptions(got, enrol)) : got \in Seq(Seen), enrol \in BOOLEAN}
Reads == {got \in Seq(Seen) : Len(got) <= 4}
DeviceRequest == [op : {"", "ask", "answered", "put", "finished"},
                  login : Logins \cup {"*", ""}, uid : Uids \cup {"*", ""}, row : Rows \cup {Prof!NoRow},
                  enrol : BOOLEAN, got : Reads, since : Nat, until : Nat, failed : BOOLEAN, prefs : Prefs]

ProfileTypes == /\ table \in Tables /\ req \in [ProfileRequests -> DeviceRequest] /\ faults \in 0..MaxFaults
                /\ past \in Seq(Tables) /\ past # <<>> /\ past[Len(past)] = table

\* A statement writes one row.
OneRowAtATime ==
  \A i \in 1..Len(past) : i + 1 <= Len(past) =>
    \A k, l \in Prof!Keys : past[i][k] # past[i + 1][k] /\ past[i][l] # past[i + 1][l] => k = l

\* The rows of a device's request, as the tables had them between its first read and
\* its last.
ReadKeys(login, uid) == <<<<"*", "*">>, <<login, "*">>, <<"*", uid>>, <<login, uid>>>>
ReadUntil(c, tables) == IF c.op = "ask" THEN Len(tables) ELSE c.until
ReadsTrue(c, tables) ==
  \A i \in 1..Len(c.got) : \E j \in c.since..ReadUntil(c, tables) : c.got[i] = tables[j][ReadKeys(c.login, c.uid)[i]]
DeviceFits(c, tables) ==
  c.op \in {"ask", "answered"} =>
    /\ c.login \in Logins /\ c.uid \in Uids \cup {""}
    /\ c.since \in 1..Len(tables) /\ Len(c.got) <= 4
    /\ c.op = "answered" => /\ Len(c.got) = 4 /\ c.until \in c.since..Len(tables)
                            /\ c.prefs = Prof!Content(Prof!MergedOptions(c.got, c.enrol))
    /\ ~c.failed /\ c.uid # "" => ReadsTrue(c, tables)

\* A PUT has found its row, or its read failed.
AdminFits(c, tables, failures) ==
  c.op = "put" =>
    /\ c.since \in 1..Len(tables) /\ c.row \in Rows
    /\ \/ /\ c.login \in Logins \cup {"*"} /\ c.uid \in Uids \cup {"*"}
          /\ tables[c.since][<<c.login, c.uid>>].there
       \/ c.login = "" /\ c.uid = "" /\ failures > 0

ProfilesInv == /\ ProfileTypes /\ OneRowAtATime /\ Prof!StraysNeedFaults
               /\ \A r \in ProfileRequests : DeviceFits(req[r], past) /\ AdminFits(req[r], past, faults)

-----------------------------------------------------------------------------
\* Another element at the end.
LEMMA Longer ==
  ASSUME NEW S, NEW s \in Seq(S), NEW e \in S
  PROVE  /\ Len(s) \in Nat /\ Append(s, e) \in Seq(S) /\ Append(s, e) # <<>>
         /\ Len(Append(s, e)) = Len(s) + 1 /\ Append(s, e)[Len(s) + 1] = e
         /\ \A i \in 1..Len(s) : Append(s, e)[i] = s[i]
OBVIOUS

\* A request that has not begun.
LEMMA IdleIs == Prof!Idle \in DeviceRequest
<1>1. <<>> \in Prefs
  BY DEF Prefs
<1>2. <<>> \in Reads
  BY DEF Reads
<1> QED
  BY <1>1, <1>2 DEF Prof!Idle, DeviceRequest

\* Failed statements stay within their bound.
LEMMA Bounded ==
  ASSUME ProfilesConstants, ProfilesInv
  PROVE  faults \in 0..MaxFaults /\ faults \in Nat /\ MaxFaults \in Nat /\ faults <= faults
<1>1. MaxFaults \in Nat
  BY Zenon DEF ProfilesConstants
<1>2. faults \in 0..MaxFaults
  BY DEF ProfilesInv, ProfileTypes
<1> QED
  BY <1>1, <1>2

\* The last of the tables there were is the table.
LEMMA PastIs ==
  ASSUME ProfilesInv
  PROVE  /\ past \in Seq(Tables) /\ Len(past) \in Nat /\ Len(past) \in 1..Len(past)
         /\ past[Len(past)] = table /\ table \in Tables
<1>1. past \in Seq(Tables) /\ past # <<>> /\ past[Len(past)] = table /\ table \in Tables
  BY DEF ProfilesInv, ProfileTypes
<1>2. Len(past) \in Nat /\ Len(past) # 0
  <2>1. ASSUME NEW S, NEW q \in Seq(S), q # <<>> PROVE Len(q) \in Nat /\ Len(q) # 0
    BY <2>1
  <2> QED
    BY <1>1, <2>1
<1> QED
  BY <1>1, <1>2

\* What a request has read before it reads.
LEMMA NothingRead == ASSUME NEW s, s = <<>> PROVE Len(s) = 0 /\ Len(s) <= 4 /\ 1..Len(s) = {}
OBVIOUS

\* A moment up to now.
LEMMA AtTheEnd == ASSUME NEW m \in Nat, NEW i \in 1..m PROVE m \in i..m
OBVIOUS

\* The reads of GetProfileFiles are in the order of ReadKeys.
Nth(star, l, u, i) == <<<<star, l, star, l>>[i], <<star, star, u, u>>[i]>>
NthKey(star, l, u, i) == <<<<star, star>>, <<l, star>>, <<star, u>>, <<l, u>>>>[i]
LEMMA ReadKeysAre ==
  ASSUME NEW star, NEW l, NEW u, NEW i \in 0..3
  PROVE  /\ Nth(star, l, u, i + 1) = NthKey(star, l, u, i + 1)
         /\ <<star, l, star, l>>[i + 1] \in {star, l} /\ <<star, star, u, u>>[i + 1] \in {star, u}
<1>1. i = 0 \/ i = 1 \/ i = 2 \/ i = 3
  OBVIOUS
<1>2. CASE i = 0
  <2>1. i + 1 = 1
    BY <1>2
  <2> QED
    BY <2>1 DEF Nth, NthKey
<1>3. CASE i = 1
  <2>1. i + 1 = 2
    BY <1>3
  <2> QED
    BY <2>1 DEF Nth, NthKey
<1>4. CASE i = 2
  <2>1. i + 1 = 3
    BY <1>4
  <2> QED
    BY <2>1 DEF Nth, NthKey
<1>5. CASE i = 3
  <2>1. i + 1 = 4
    BY <1>5
  <2> QED
    BY <2>1 DEF Nth, NthKey
<1> QED
  BY <1>1, <1>2, <1>3, <1>4, <1>5

\* A table more takes nothing from what a request has read.
LEMMA PastGrows ==
  ASSUME NEW tables \in Seq(Tables), NEW t \in Tables, NEW c \in DeviceRequest, NEW f \in Nat,
         DeviceFits(c, tables), AdminFits(c, tables, f)
  PROVE  DeviceFits(c, Append(tables, t)) /\ AdminFits(c, Append(tables, t), f)
<1> DEFINE more == Append(tables, t)
<1>1. Len(more) = Len(tables) + 1 /\ Len(tables) \in Nat /\ \A i \in 1..Len(tables) : more[i] = tables[i]
  OBVIOUS
<1> HIDE DEF more
<1>2. AdminFits(c, more, f)
  <2> SUFFICES ASSUME c.op = "put" PROVE AdminFits(c, more, f)
    BY DEF AdminFits
  <2>1. c.since \in 1..Len(tables)
    BY DEF AdminFits
  <2>2. c.since \in 1..Len(more) /\ more[c.since] = tables[c.since]
    BY <1>1, <2>1
  <2> QED
    BY <2>2 DEF AdminFits
<1>3. ASSUME c.op \in {"ask", "answered"}, ReadsTrue(c, tables) PROVE ReadsTrue(c, more)
  <2>1. c.since \in 1..Len(tables) /\ ReadUntil(c, tables) \in Nat /\ ReadUntil(c, tables) <= Len(tables)
        /\ ReadUntil(c, tables) <= ReadUntil(c, more)
        /\ ReadUntil(c, more) \in Nat
    <3>1. CASE c.op = "ask"
      <4>1. c.since \in 1..Len(tables) /\ ReadUntil(c, tables) = Len(tables) /\ ReadUntil(c, more) = Len(more)
        BY <3>1 DEF ReadUntil, DeviceFits
      <4> QED
        BY <1>1, <4>1
    <3>2. CASE c.op = "answered"
      <4>1. c.since \in 1..Len(tables) /\ c.until \in c.since..Len(tables)
        BY <3>2 DEF DeviceFits
      <4>2. ReadUntil(c, tables) = c.until /\ ReadUntil(c, more) = c.until
        BY <3>2 DEF ReadUntil
      <4> QED
        BY <1>1, <4>1, <4>2
    <3> QED
      BY <1>3, <3>1, <3>2
  <2> SUFFICES ASSUME NEW i \in 1..Len(c.got)
               PROVE  \E j \in c.since..ReadUntil(c, more) : c.got[i] = more[j][ReadKeys(c.login, c.uid)[i]]
    BY DEF ReadsTrue
  <2>2. PICK j \in c.since..ReadUntil(c, tables) : c.got[i] = tables[j][ReadKeys(c.login, c.uid)[i]]
    BY <1>3 DEF ReadsTrue
  <2>3. j \in c.since..ReadUntil(c, more) /\ j \in 1..Len(tables)
    BY <2>1, <2>2
  <2> QED
    BY <1>1, <2>2, <2>3
<1>4. DeviceFits(c, more)
  <2> SUFFICES ASSUME c.op \in {"ask", "answered"} PROVE DeviceFits(c, more)
    BY DEF DeviceFits
  <2>1. c.since \in 1..Len(more)
    <3>1. c.since \in 1..Len(tables)
      BY DEF DeviceFits
    <3> QED
      BY <1>1, <3>1
  <2>2. c.op = "answered" => c.until \in c.since..Len(more)
    <3>1. c.op = "answered" => c.since \in 1..Len(tables) /\ c.until \in c.since..Len(tables)
      BY DEF DeviceFits
    <3> QED
      BY <1>1, <3>1
  <2> QED
    BY <1>3, <2>1, <2>2 DEF DeviceFits
<1> QED
  BY <1>2, <1>4 DEF more

\* A step that writes no row.
LEMMA ReadingKeeps ==
  ASSUME ProfilesInv, NEW r \in ProfileRequests, NEW c \in DeviceRequest, req' = [req EXCEPT ![r] = c], Prof!Reading,
         faults' \in 0..MaxFaults, faults <= faults', DeviceFits(c, past), AdminFits(c, past, faults')
  PROVE  ProfilesInv'
<1>1. ProfileTypes'
  BY DEF ProfilesInv, ProfileTypes, Prof!Reading
<1>2. OneRowAtATime'
  BY DEF ProfilesInv, OneRowAtATime, Prof!Reading
<1>3. Prof!StraysNeedFaults'
  <2>1. faults > 0 => faults' > 0
    BY DEF ProfilesInv, ProfileTypes
  <2> QED
    BY <2>1 DEF ProfilesInv, Prof!StraysNeedFaults, Prof!Reading
<1>4. past' = past
  BY DEF Prof!Reading
<1>5. ASSUME NEW q \in ProfileRequests PROVE DeviceFits(req'[q], past) /\ AdminFits(req'[q], past, faults')
  <2>1. CASE q = r
    <3>1. req'[q] = c
      BY <2>1 DEF ProfilesInv, ProfileTypes
    <3> QED
      BY <3>1
  <2>2. CASE q # r
    <3>1. req'[q] = req[q]
      BY <2>2 DEF ProfilesInv, ProfileTypes
    <3>2. DeviceFits(req[q], past) /\ AdminFits(req[q], past, faults)
      BY DEF ProfilesInv
    <3>3. faults > 0 => faults' > 0
      BY DEF ProfilesInv, ProfileTypes
    <3> QED
      BY <3>1, <3>2, <3>3 DEF AdminFits
  <2> QED
    BY <2>1, <2>2
<1> QED
  BY <1>1, <1>2, <1>3, <1>4, <1>5 DEF ProfilesInv

\* Only a PUT whose read failed writes a row without login and uid.
IsMeant(k, row) == row.there /\ "" \in {k[1], k[2]} => k = Prof!Stray /\ faults > 0

\* A step that writes one, and ends the request.
LEMMA WritingKeeps ==
  ASSUME ProfilesConstants, ProfilesInv, NEW r \in ProfileRequests, req' = [req EXCEPT ![r] = Prof!Finished],
     UNCHANGED faults,
         NEW k \in Prof!Keys, NEW row \in Rows \cup {Prof!NoRow}, Prof!Write(k, row),
         IsMeant(k, row)
  PROVE  ProfilesInv'
<1> DEFINE t == [table EXCEPT ![k] = row]
<1>1. t \in Tables /\ table' = t /\ past' = Append(past, t) /\ past \in Seq(Tables) /\ past[Len(past)] = table
      /\ table \in Tables /\ \A l \in Prof!Keys : t[l] = IF l = k THEN row ELSE table[l]
  BY DEF ProfilesInv, ProfileTypes, Prof!Write, Tables
<1> HIDE DEF t
<1>2. /\ Len(past) \in Nat /\ Len(past') = Len(past) + 1 /\ past'[Len(past')] = t /\ past' \in Seq(Tables)
      /\ \A i \in 1..Len(past) : past'[i] = past[i]
  <2> DEFINE more == Append(past, t)
  <2>1. /\ Len(past) \in Nat /\ more \in Seq(Tables)
        /\ Len(more) = Len(past) + 1 /\ more[Len(past) + 1] = t
        /\ \A i \in 1..Len(past) : more[i] = past[i]
    BY <1>1, Longer
  <2> HIDE DEF more
  <2>2. past' = more
    BY <1>1 DEF more
  <2> QED
    BY <2>1, <2>2
<1>3. Prof!Finished \in DeviceRequest /\ Prof!Finished.op = "finished"
  <2> DEFINE c == Prof!Finished
  <2>1. Prof!Idle \in DeviceRequest
    BY IdleIs
  <2>2. c = [Prof!Idle EXCEPT !.op = "finished"]
    BY DEF Prof!Finished
  <2> QED
    BY <2>1, <2>2 DEF DeviceRequest
<1>4. ProfileTypes'
  <2>1. past' # <<>>
    BY <1>1, Longer
  <2> QED
    BY <1>1, <1>2, <1>3, <2>1 DEF ProfilesInv, ProfileTypes
<1>5. OneRowAtATime'
  <2> SUFFICES ASSUME NEW i \in 1..Len(past'), i + 1 <= Len(past'), NEW l \in Prof!Keys, NEW m \in Prof!Keys,
                      past'[i][l] # past'[i + 1][l], past'[i][m] # past'[i + 1][m]
               PROVE  l = m
    BY DEF OneRowAtATime
  <2>1. CASE i + 1 <= Len(past)
    <3>1. i \in 1..Len(past) /\ i + 1 \in 1..Len(past)
      BY <1>2, <2>1
    <3>2. past'[i] = past[i] /\ past'[i + 1] = past[i + 1]
      BY <1>2, <3>1
    <3> QED
      BY <2>1, <3>1, <3>2 DEF ProfilesInv, OneRowAtATime
  <2>2. CASE i = Len(past)
    <3>1. past'[i] = table /\ past'[i + 1] = t
      BY <1>1, <1>2, <2>2
    <3> QED
      BY <1>1, <3>1
  <2> QED
    BY <1>2, <2>1, <2>2
<1>6. Prof!StraysNeedFaults'
  BY <1>1 DEF ProfilesInv, Prof!StraysNeedFaults, IsMeant
<1>7. ASSUME NEW q \in ProfileRequests PROVE DeviceFits(req'[q], past') /\ AdminFits(req'[q], past', faults)
  <2>1. CASE q = r
    <3>1. req'[q] = Prof!Finished
      BY <2>1 DEF ProfilesInv, ProfileTypes
    <3> QED
      BY <1>3, <3>1 DEF DeviceFits, AdminFits
  <2>2. CASE q # r
    <3>1. req'[q] = req[q] /\ req[q] \in DeviceRequest
      BY <2>2 DEF ProfilesInv, ProfileTypes
    <3>3. faults \in Nat
      BY Bounded
    <3>2. DeviceFits(req[q], past) /\ AdminFits(req[q], past, faults)
      BY DEF ProfilesInv
    <3> QED
      BY <1>1, <3>1, <3>2, <3>3, PastGrows
  <2> QED
    BY <2>1, <2>2
<1> QED
  BY <1>4, <1>5, <1>6, <1>7 DEF ProfilesInv

-----------------------------------------------------------------------------
\* A row is found by its two columns.
LEMMA SameKey == ASSUME NEW j \in Prof!Keys, NEW k \in Prof!Keys PROVE j[1] = k[1] /\ j[2] = k[2] <=> j = k
<1> DEFINE A == Logins \cup {"*", ""}
           B == Uids \cup {"*", ""}
<1>1. j \in A \X B /\ k \in A \X B
  BY DEF Prof!Keys
<1> HIDE DEF A, B
<1> QED
  BY <1>1

\* One finds the row of a login and a uid, or an empty one if there is none.
LEMMA OneIs ==
  ASSUME ProfilesConstants, NEW t \in Tables, NEW k \in Prof!Keys, k[1] # "", k[2] # ""
  PROVE  Prof!One(t, k[1], k[2]) = {t[k]}
<1> DEFINE W == Prof!Where(t, k[1], k[2])
<1>1. ASSUME NEW j \in Prof!Keys PROVE j[1] = k[1] /\ j[2] = k[2] <=> j = k
  BY SameKey, Zenon
<1>2. W = {t[j] : j \in {l \in Prof!Keys : t[l].there /\ l = k}}
  BY <1>1 DEF Prof!Where
<1>3. Prof!One(t, k[1], k[2]) = IF W = {} THEN {Prof!NoRow} ELSE W
  BY DEF Prof!One
<1> HIDE DEF W
<1>4. CASE t[k].there
  <2>1. W = {t[k]}
    BY <1>2, <1>4
  <2> QED
    BY <1>3, <2>1
<1>5. CASE ~t[k].there
  <2>1. W = {}
    BY <1>2, <1>5
  <2>2. t[k] = Prof!NoRow
    <3>1. t[k] \in Rows \cup {Prof!NoRow}
      BY DEF Tables
    <3>2. \A row \in Rows : row.there
      BY Zenon DEF ProfilesConstants
    <3> QED
      BY <1>5, <3>1, <3>2
  <2> QED
    BY <1>3, <2>1, <2>2
<1> QED
  BY <1>4, <1>5

\* A request without a uid has the two general rows, and the rows of some device.
LEMMA OneIsSeen ==
  ASSUME NEW t \in Tables, NEW login, NEW uid, NEW row \in Prof!One(t, login, uid)
  PROVE  row \in Rows \cup {Prof!NoRow}
BY DEF Prof!One, Prof!Where, Tables

\* A device asks.
LEMMA AskKeeps ==
  ASSUME ProfilesConstants, ProfilesInv, NEW r \in Devices, NEW login \in Logins, NEW uid \in Uids \cup {""},
     NEW enrol \in BOOLEAN,
         Prof!Ask(r, login, uid, enrol)
  PROVE  ProfilesInv'
<1> DEFINE c == [Prof!Idle EXCEPT !.op = "ask", !.login = login, !.uid = uid, !.enrol = enrol, !.since = Len(past)]
<1>1. /\ c.op = "ask" /\ c.login = login /\ c.uid = uid /\ c.enrol = enrol /\ c.since = Len(past) /\ c.got = <<>>
      /\ req' = [req EXCEPT ![r] = c] /\ Prof!Reading /\ faults' = faults
  BY DEF Prof!Ask, Prof!Idle, Prof!Works
<1>2. Len(past) \in Nat /\ Len(past) \in 1..Len(past)
  BY PastIs
<1>3. c \in DeviceRequest
  <2>1. Prof!Idle \in DeviceRequest
    BY IdleIs
  <2> QED
    BY <1>2, <2>1 DEF DeviceRequest
<1> HIDE DEF c
<1>4. DeviceFits(c, past)
  <2>1. c.got = <<>> /\ c.since = Len(past)
    BY <1>1
  <2>2. Len(c.got) <= 4 /\ 1..Len(c.got) = {}
    BY <2>1, NothingRead, Zenon
  <2>3. ReadsTrue(c, past)
    BY <2>2 DEF ReadsTrue
  <2>4. c.since \in 1..Len(past)
    BY <1>2, <2>1, Zenon
  <2> QED
    BY <1>1, <2>2, <2>3, <2>4 DEF DeviceFits
<1>5. AdminFits(c, past, faults)
  BY <1>1 DEF AdminFits
<1>6. faults \in 0..MaxFaults /\ faults <= faults
  BY Bounded
<1> QED
  BY <1>1, <1>3, <1>4, <1>5, <1>6, ReadingKeeps DEF ProfileRequests

\* It reads a row.
LEMMA ReadRowKeeps == ASSUME ProfilesConstants, ProfilesInv, NEW r \in Devices, Prof!ReadRow(r) PROVE ProfilesInv'
<1> DEFINE b == req[r]
           n == Len(b.got)
           login == <<"*", b.login, "*", b.login>>[n + 1]
           uid == <<"*", "*", b.uid, b.uid>>[n + 1]
<1>1. b \in DeviceRequest /\ b.op = "ask" /\ n \in 0..3 /\ DeviceFits(b, past) /\ past \in Seq(Tables)
      /\ past # <<>> /\ past[Len(past)] = table
      /\ table \in Tables
  <2>1. b \in DeviceRequest /\ DeviceFits(b, past) /\ past \in Seq(Tables) /\ past # <<>>
        /\ past[Len(past)] = table /\ table \in Tables
    BY DEF ProfilesInv, ProfileTypes, ProfileRequests
  <2>4. b.got \in Seq(Seen)
    BY <2>1 DEF DeviceRequest, Reads
  <2>2. b.op = "ask" /\ n < 4
    BY DEF Prof!ReadRow
  <2>3. n \in Nat
    BY <2>4
  <2>5. n \in 0..3
    <3> HIDE DEF n
    <3> QED
      BY <2>2, <2>3
  <2> QED
    BY <2>1, <2>2, <2>5
<1>2. b.login \in Logins /\ b.uid \in Uids \cup {""} /\ b.since \in 1..Len(past)
  BY <1>1 DEF DeviceFits
<1>3. PICK row : \/ /\ row \in Prof!One(table, login, uid) /\ faults' = faults
                    /\ req' = [req EXCEPT ![r].got = Append(@, row)]
                 \/ /\ row = Prof!Empty /\ faults < MaxFaults /\ faults' = faults + 1
                    /\ req' = [req EXCEPT ![r].got = Append(@, Prof!Empty), ![r].failed = TRUE]
  BY DEF Prof!ReadRow, Prof!Works, Prof!Fails
<1>4. row \in Seen
  BY <1>1, <1>3, OneIsSeen DEF Seen
<1> DEFINE s == Append(b.got, row)
           c == [b EXCEPT !.got = s]
           d == [b EXCEPT !.got = s, !.failed = TRUE]
<1>5. b.got \in Seq(Seen)
  BY <1>1 DEF DeviceRequest, Reads
<1>6. /\ s \in Seq(Seen) /\ Len(s) = n + 1 /\ s[n + 1] = row /\ \A i \in 1..n : s[i] = b.got[i]
  BY <1>4, <1>5, Longer
<1>7. ASSUME b.uid # "" PROVE login # "" /\ uid # "" /\ <<login, uid>> \in Prof!Keys
      /\ <<login, uid>> = ReadKeys(b.login, b.uid)[n + 1]
  <2>1. "" \notin Logins /\ "" \notin Uids
    BY Zenon DEF ProfilesConstants
  <2>2. n = 0 \/ n = 1 \/ n = 2 \/ n = 3
    BY <1>1
  <2>3. b.login # "" /\ b.login \in Logins /\ b.uid \in Uids
    BY <1>2, <1>7, <2>1
  <2> HIDE DEF b, n
  <2>5. <<login, uid>> = ReadKeys(b.login, b.uid)[n + 1]
    <3>1. Nth("*", b.login, b.uid, n + 1) = NthKey("*", b.login, b.uid, n + 1)
      BY <1>1, ReadKeysAre
    <3> QED
      BY <3>1, Zenon DEF Nth, NthKey, ReadKeys
  <2>6. login \in {"*", b.login} /\ uid \in {"*", b.uid}
    BY <1>1, ReadKeysAre, Zenon
  <2> HIDE DEF login, uid
  <2>4. login # "" /\ uid # "" /\ login \in Logins \cup {"*"} /\ uid \in Uids \cup {"*"}
    BY <1>7, <2>3, <2>6
  <2> QED
    BY <2>4, <2>5 DEF Prof!Keys
<1>8. ASSUME row \in Prof!One(table, login, uid), b.uid # "", ~b.failed, NEW e, e.got = s, e.op = "ask",
             e.login = b.login, e.uid = b.uid, e.since = b.since
      PROVE  ReadsTrue(e, past)
  <2> HIDE DEF s, n, login, uid
  <2>1. row = table[<<login, uid>>]
    <3> DEFINE k == <<login, uid>>
    <3>1. k[1] = login /\ k[2] = uid
      OBVIOUS
    <3>2. login # "" /\ uid # "" /\ k \in Prof!Keys /\ table \in Tables
      BY <1>1, <1>7, <1>8
    <3> HIDE DEF k
    <3>3. Prof!One(table, login, uid) = {table[k]}
      <4>1. Prof!One(table, k[1], k[2]) = {table[k]}
        BY <3>1, <3>2, OneIs
      <4> QED
        BY <3>1, <4>1
    <3>4. row = table[k]
      BY <1>8, <3>3, Zenon
    <3> QED
      BY <3>4 DEF k
  <2> DEFINE key(i) == ReadKeys(b.login, b.uid)[i]
  <2> SUFFICES ASSUME NEW i \in 1..Len(s) PROVE \E j \in b.since..Len(past) : s[i] = past[j][key(i)]
    BY <1>8 DEF ReadsTrue, ReadUntil
  <2>2. CASE i = n + 1
    <3>1. s[i] = past[Len(past)][key(i)]
      BY <1>1, <1>6, <1>7, <1>8, <2>1, <2>2
    <3>2. Len(past) \in b.since..Len(past)
      <4>1. Len(past) \in Nat
        BY PastIs
      <4> QED
        BY <1>2, <4>1, AtTheEnd
    <3> QED
      BY <3>1, <3>2
  <2>3. CASE i # n + 1
    <3>1. i \in 1..n
      BY <1>1, <1>6, <2>3
    <3>2. ReadsTrue(b, past)
      BY <1>1, <1>8 DEF DeviceFits
    <3>3. i \in 1..Len(b.got)
      BY <3>1 DEF n
    <3>4. \E j \in b.since..Len(past) : b.got[i] = past[j][key(i)]
      BY <1>1, <3>2, <3>3 DEF ReadsTrue, ReadUntil
    <3> QED
      BY <1>6, <3>1, <3>4
  <2> QED
    BY <2>2, <2>3
<1>9. c \in DeviceRequest /\ d \in DeviceRequest
  <2>1. s \in Reads
    <3>1. s \in Seq(Seen) /\ Len(s) = n + 1 /\ n + 1 <= 4
      BY <1>1, <1>6
    <3> HIDE DEF s, n
    <3> QED
      BY <3>1 DEF Reads
  <2> HIDE DEF s
  <2> QED
    BY <1>1, <2>1 DEF DeviceRequest
<1>10. /\ c.op = "ask" /\ c.login = b.login /\ c.uid = b.uid /\ c.since = b.since /\ c.got = s /\ c.failed = b.failed
       /\ d.op = "ask" /\ d.login = b.login /\ d.uid = b.uid /\ d.since = b.since /\ d.got = s /\ d.failed = TRUE
  <2> HIDE DEF s, b
  <2>1. b \in DeviceRequest
    BY <1>1
  <2> QED
    BY <1>1, <2>1 DEF DeviceRequest
<1>11. Len(s) <= 4
  <2>1. Len(s) = n + 1
    BY <1>6
  <2> HIDE DEF s, n
  <2> QED
    BY <1>1, <2>1
<1>12. Prof!Reading
  BY DEF Prof!ReadRow
<1>13. CASE row \in Prof!One(table, login, uid) /\ faults' = faults /\ req' = [req EXCEPT ![r].got = Append(@, row)]
  <2>1. req' = [req EXCEPT ![r] = c]
    BY <1>13
  <2>2. b.uid # "" /\ ~b.failed => ReadsTrue(c, past)
    <3> HIDE DEF c, s, b, n, login, uid
    <3> QED
      BY <1>8, <1>10, <1>13
  <2> HIDE DEF c, s, b, n, login, uid
  <2>3. DeviceFits(c, past)
    BY <1>2, <1>10, <1>11, <2>2 DEF DeviceFits
  <2>4. AdminFits(c, past, faults)
    BY <1>10 DEF AdminFits
  <2>5. faults \in 0..MaxFaults /\ faults <= faults
    BY Bounded
  <2> QED
    BY <1>9, <1>12, <1>13, <2>1, <2>3, <2>4, <2>5, ReadingKeeps DEF ProfileRequests
<1>14. CASE row = Prof!Empty /\ faults < MaxFaults /\ faults' = faults + 1
      /\ req' = [req EXCEPT ![r].got = Append(@, Prof!Empty), ![r].failed = TRUE]
  <2>1. req' = [req EXCEPT ![r] = d]
    BY <1>14
  <2> HIDE DEF d, s, b, n, login, uid
  <2>3. DeviceFits(d, past)
    BY <1>2, <1>10, <1>11 DEF DeviceFits
  <2>4. AdminFits(d, past, faults')
    BY <1>10 DEF AdminFits
  <2>5. faults' \in 0..MaxFaults /\ faults <= faults'
    BY <1>14, Bounded
  <2> QED
    BY <1>9, <1>12, <2>1, <2>3, <2>4, <2>5, ReadingKeeps DEF ProfileRequests
<1> QED
  BY <1>3, <1>13, <1>14

\* The answer.
LEMMA AnswerKeeps == ASSUME ProfilesConstants, ProfilesInv, NEW r \in Devices, Prof!Answer(r) PROVE ProfilesInv'
<1> DEFINE b == req[r]
           p == Prof!Content(Prof!MergedOptions(b.got, b.enrol))
           c == [b EXCEPT !.op = "answered", !.until = Len(past), !.prefs = p]
<1>1. b \in DeviceRequest /\ DeviceFits(b, past) /\ past \in Seq(Tables)
  BY DEF ProfilesInv, ProfileTypes, ProfileRequests
<1>2. b.op = "ask" /\ Len(b.got) = 4 /\ req' = [req EXCEPT ![r] = c] /\ Prof!Reading /\ faults' = faults
  BY DEF Prof!Answer, Prof!Works
<1>3. b.got \in Seq(Seen) /\ b.enrol \in BOOLEAN /\ Len(past) \in Nat
  BY <1>1, PastIs DEF DeviceRequest, Reads
<1>4. p \in Prefs
  BY <1>3 DEF Prefs
<1>5. c \in DeviceRequest /\ c.op = "answered" /\ c.until = Len(past) /\ c.prefs = p /\ c.login = b.login
      /\ c.uid = b.uid
      /\ c.since = b.since /\ c.got = b.got /\ c.failed = b.failed /\ c.enrol = b.enrol
  <2> HIDE DEF p, b
  <2> QED
    BY <1>1, <1>3, <1>4 DEF DeviceRequest
<1> HIDE DEF c, b
<1>6. DeviceFits(c, past)
  <2>1. /\ b.login \in Logins /\ b.uid \in Uids \cup {""} /\ b.since \in 1..Len(past)
        /\ ~b.failed /\ b.uid # "" => ReadsTrue(b, past)
    BY <1>1, <1>2 DEF DeviceFits
  <2>2. c.until \in c.since..Len(past)
    BY <1>3, <1>5, <2>1, AtTheEnd
  <2>3. ReadsTrue(b, past) => ReadsTrue(c, past)
    <3>1. ReadUntil(b, past) = Len(past) /\ ReadUntil(c, past) = Len(past)
      BY <1>2, <1>5 DEF ReadUntil
    <3> QED
      BY <1>5, <3>1 DEF ReadsTrue
  <2>4. Len(c.got) = 4 /\ Len(c.got) <= 4
    <3>1. Len(c.got) = 4
      BY <1>2, <1>5, Zenon
    <3> QED
      BY <3>1
  <2>5. c.login \in Logins /\ c.uid \in Uids \cup {""} /\ c.since \in 1..Len(past)
    BY <1>5, <2>1
  <2>6. c.prefs = Prof!Content(Prof!MergedOptions(c.got, c.enrol))
    BY <1>5 DEF b
  <2>7. ~c.failed /\ c.uid # "" => ReadsTrue(c, past)
    BY <1>5, <2>1, <2>3
  <2> QED
    BY <2>2, <2>4, <2>5, <2>6, <2>7 DEF DeviceFits
<1>7. AdminFits(c, past, faults)
  BY <1>5 DEF AdminFits
<1>8. faults \in 0..MaxFaults /\ faults <= faults
  BY Bounded
<1> QED
  BY <1>2, <1>5, <1>6, <1>7, <1>8, ReadingKeeps DEF ProfileRequests

\* A request that has ended.
LEMMA FinishedIs == Prof!Finished \in DeviceRequest /\ Prof!Finished.op = "finished"
<1>1. Prof!Idle \in DeviceRequest
  BY IdleIs
<1> QED
  BY <1>1 DEF Prof!Finished, DeviceRequest

\* A request that changes nothing and ends.
LEMMA FinishingKeeps ==
  ASSUME ProfilesConstants, ProfilesInv, NEW r \in ProfileRequests, req' = [req EXCEPT ![r] = Prof!Finished],
     Prof!Reading, faults' = faults
  PROVE  ProfilesInv'
<1> DEFINE c == Prof!Finished
<1>1. c \in DeviceRequest /\ c.op = "finished" /\ req' = [req EXCEPT ![r] = c]
  BY FinishedIs
<1> HIDE DEF c
<1>2. DeviceFits(c, past) /\ AdminFits(c, past, faults')
  BY <1>1 DEF DeviceFits, AdminFits
<1>3. faults' \in 0..MaxFaults /\ faults <= faults'
  BY Bounded
<1> QED
  BY <1>1, <1>2, <1>3, ReadingKeeps

\* A POST.
LEMMA PostKeeps ==
  ASSUME ProfilesConstants, ProfilesInv, NEW r \in Admins, NEW login \in Logins \cup {"*", ""},
     NEW uid \in Uids \cup {"*", ""},
         NEW row \in Rows, Prof!Post(r, login, uid, row)
  PROVE  ProfilesInv'
<1> DEFINE l == IF login = "" THEN "*" ELSE login
           u == IF uid = "" THEN "*" ELSE uid
           k == <<l, u>>
<1>1. /\ IF table[k].there THEN Prof!Reading ELSE Prof!Write(k, row)
      /\ req' = [req EXCEPT ![r] = Prof!Finished] /\ faults' = faults /\ r \in ProfileRequests
  BY DEF Prof!Post, Prof!Works, ProfileRequests
<1>2. l \in Logins \cup {"*", ""} /\ u \in Uids \cup {"*", ""} /\ l # "" /\ u # ""
  OBVIOUS
<1> HIDE DEF l, u
<1>3. k \in Prof!Keys
  BY <1>2 DEF Prof!Keys
<1>4. k[1] # "" /\ k[2] # ""
  BY <1>2
<1> HIDE DEF k
<1>5. IsMeant(k, row)
  BY <1>4, Zenon DEF IsMeant
<1> QED
  BY <1>1, <1>3, <1>5, FinishingKeeps, WritingKeeps

\* A PUT reads its row.
LEMMA PutReadKeeps ==
  ASSUME ProfilesConstants, ProfilesInv, NEW r \in Admins, NEW login \in Logins \cup {"*"},
     NEW uid \in Uids \cup {"*"},
         NEW row \in Rows, Prof!PutRead(r, login, uid, row)
  PROVE  ProfilesInv'
<1> DEFINE put(l, u) == [Prof!Idle EXCEPT !.op = "put", !.login = l, !.uid = u, !.row = row, !.since = Len(past)]
<1>1. /\ \/ /\ faults' = faults
            /\ req' = [req EXCEPT ![r] = IF table[<<login, uid>>].there THEN put(login, uid) ELSE Prof!Finished]
         \/ faults < MaxFaults /\ faults' = faults + 1 /\ req' = [req EXCEPT ![r] = put("", "")]
      /\ Prof!Reading /\ r \in ProfileRequests
  BY DEF Prof!PutRead, Prof!Works, Prof!Fails, ProfileRequests
<1>2. past \in Seq(Tables) /\ Len(past) \in Nat /\ Len(past) \in 1..Len(past) /\ past[Len(past)] = table
  BY PastIs
<1>3. ASSUME NEW l \in Logins \cup {"*", ""}, NEW u \in Uids \cup {"*", ""}
      PROVE  /\ put(l, u) \in DeviceRequest /\ put(l, u).op = "put" /\ put(l, u).login = l /\ put(l, u).uid = u
             /\ put(l, u).row = row /\ put(l, u).since = Len(past)
  <2>1. Prof!Idle \in DeviceRequest
    BY IdleIs
  <2> QED
    BY <1>2, <2>1 DEF DeviceRequest
<1> HIDE DEF put
<1>4. CASE faults' = faults /\ table[<<login, uid>>].there /\ req' = [req EXCEPT ![r] = put(login, uid)]
  <2> DEFINE c == put(login, uid)
  <2>1. /\ c \in DeviceRequest /\ c.op = "put" /\ c.login = login /\ c.uid = uid /\ c.row = row /\ c.since = Len(past)
        /\ req' = [req EXCEPT ![r] = c]
    <3>1. login \in Logins \cup {"*", ""} /\ uid \in Uids \cup {"*", ""}
      OBVIOUS
    <3> QED
      BY <1>3, <1>4, <3>1, Zenon
  <2> HIDE DEF c
  <2>2. past[c.since][<<c.login, c.uid>>].there
    BY <1>2, <1>4, <2>1, Zenon
  <2>3. AdminFits(c, past, faults') /\ DeviceFits(c, past)
    BY <1>2, <2>1, <2>2 DEF AdminFits, DeviceFits
  <2>4. faults' \in 0..MaxFaults /\ faults <= faults'
    BY <1>4, Bounded
  <2> QED
    BY <1>1, <2>1, <2>3, <2>4, ReadingKeeps
<1>5. CASE faults < MaxFaults /\ faults' = faults + 1 /\ req' = [req EXCEPT ![r] = put("", "")]
  <2> DEFINE c == put("", "")
  <2>1. /\ c \in DeviceRequest /\ c.op = "put" /\ c.login = "" /\ c.uid = "" /\ c.row = row /\ c.since = Len(past)
        /\ req' = [req EXCEPT ![r] = c]
    <3> DEFINE none == ""
    <3>1. none \in Logins \cup {"*", ""} /\ none \in Uids \cup {"*", ""} /\ c = put(none, none)
      OBVIOUS
    <3> HIDE DEF none, c
    <3>4. c \in DeviceRequest /\ c.op = "put" /\ c.login = none /\ c.uid = none /\ c.row = row /\ c.since = Len(past)
      BY <1>3, <3>1
    <3>2. c \in DeviceRequest /\ c.op = "put" /\ c.login = "" /\ c.uid = "" /\ c.row = row /\ c.since = Len(past)
      BY <3>4 DEF none
    <3>3. req' = [req EXCEPT ![r] = c]
      BY <1>5, Zenon DEF c
    <3> QED
      BY <3>2, <3>3
  <2> HIDE DEF c
  <2>2. faults' \in 0..MaxFaults /\ faults <= faults' /\ faults' > 0
    <3>1. faults < MaxFaults /\ faults' = faults + 1
      BY <1>5
    <3> QED
      BY <3>1, Bounded
  <2>3. AdminFits(c, past, faults') /\ DeviceFits(c, past)
    BY <1>2, <2>1, <2>2 DEF AdminFits, DeviceFits
  <2> QED
    BY <1>1, <2>1, <2>2, <2>3, ReadingKeeps
<1>6. CASE faults' = faults /\ req' = [req EXCEPT ![r] = Prof!Finished]
  BY <1>1, <1>6, FinishingKeeps
<1> QED
  BY <1>1, <1>4, <1>5, <1>6

\* It saves it.
LEMMA PutSaveKeeps ==
  ASSUME ProfilesConstants, ProfilesInv, NEW r \in Admins, Prof!PutSave(r)
  PROVE  ProfilesInv'
<1> DEFINE c == req[r]
           k == <<c.login, c.uid>>
<1>1. /\ c.op = "put" /\ Prof!Write(k, c.row) /\ req' = [req EXCEPT ![r] = Prof!Finished] /\ UNCHANGED faults
      /\ r \in ProfileRequests /\ c \in DeviceRequest /\ AdminFits(c, past, faults)
  BY DEF Prof!PutSave, Prof!Works, ProfileRequests, ProfilesInv, ProfileTypes
<1> HIDE DEF c
<1>2. k \in Prof!Keys /\ c.row \in Rows \cup {Prof!NoRow}
  BY <1>1 DEF DeviceRequest, Prof!Keys
<1>3. "" \notin Logins /\ "" \notin Uids
  BY Zenon DEF ProfilesConstants
<1>4. k[1] = c.login /\ k[2] = c.uid
  OBVIOUS
<1>5. \/ c.login # "" /\ c.uid # ""
      \/ k = Prof!Stray /\ faults > 0
  <2>1. \/ c.login \in Logins \cup {"*"} /\ c.uid \in Uids \cup {"*"}
        \/ c.login = "" /\ c.uid = "" /\ faults > 0
    BY <1>1 DEF AdminFits
  <2>2. CASE c.login \in Logins \cup {"*"} /\ c.uid \in Uids \cup {"*"}
    BY <1>3, <2>2
  <2>3. CASE c.login = "" /\ c.uid = "" /\ faults > 0
    BY <2>3 DEF Prof!Stray
  <2> QED
    BY <2>1, <2>2, <2>3
<1> HIDE DEF k
<1>6. IsMeant(k, c.row)
  BY <1>4, <1>5, Zenon DEF IsMeant
<1> QED
  BY <1>1, <1>2, <1>6, WritingKeeps

\* A DELETE.
LEMMA DeleteKeeps ==
  ASSUME ProfilesConstants, ProfilesInv, NEW r \in Admins, NEW login \in Logins \cup {"*"},
     NEW uid \in Uids \cup {"*"},
         Prof!Delete(r, login, uid)
  PROVE  ProfilesInv'
<1> DEFINE k == <<login, uid>>
<1>1. Prof!Write(k, Prof!NoRow) /\ req' = [req EXCEPT ![r] = Prof!Finished] /\ UNCHANGED faults
      /\ r \in ProfileRequests
  BY DEF Prof!Delete, Prof!Works, ProfileRequests
<1>2. k \in Prof!Keys
  BY DEF Prof!Keys
<1> HIDE DEF k
<1>3. ~Prof!NoRow.there
  BY DEF Prof!NoRow
<1>4. IsMeant(k, Prof!NoRow)
  BY <1>3, Zenon DEF IsMeant
<1> QED
  BY <1>1, <1>2, <1>4, WritingKeeps

\* The initial states.
LEMMA ProfilesInitially == ASSUME ProfilesConstants, Prof!Init PROVE ProfilesInv
<1>1. table \in First /\ past = <<table>> /\ faults = 0 /\ req = [r \in ProfileRequests |-> Prof!Idle]
  BY DEF Prof!Init, ProfileRequests
<1>2. First \subseteq Tables /\ MaxFaults \in Nat
  BY Zenon DEF ProfilesConstants, Tables
<1>3. table \in Tables
  BY <1>1, <1>2
<1>4. ProfileTypes
  <2>1. past \in Seq(Tables) /\ past # <<>> /\ past[Len(past)] = table
    BY <1>1, <1>3
  <2>2. req \in [ProfileRequests -> DeviceRequest]
    BY <1>1, IdleIs
  <2>3. faults \in 0..MaxFaults
    BY <1>1, <1>2
  <2> QED
    BY <1>3, <2>1, <2>2, <2>3 DEF ProfileTypes
<1>5. OneRowAtATime
  <2>1. Len(past) = 1
    BY <1>1
  <2>2. \A i \in 1..Len(past) : ~(i + 1 <= Len(past))
    BY <2>1
  <2> QED
    BY <2>2, Zenon DEF OneRowAtATime
<1>6. Prof!StraysNeedFaults
  <2>1. \A t \in First, k \in Prof!Keys : t[k].there => "" \notin {k[1], k[2]}
    BY Zenon DEF ProfilesConstants
  <2> QED
    BY <1>1, <2>1, Zenon DEF Prof!StraysNeedFaults
<1>7. ASSUME NEW r \in ProfileRequests PROVE DeviceFits(req[r], past) /\ AdminFits(req[r], past, faults)
  <2>1. req[r].op = ""
    BY <1>1 DEF Prof!Idle
  <2> QED
    BY <2>1 DEF DeviceFits, AdminFits
<1> QED
  BY <1>4, <1>5, <1>6, <1>7 DEF ProfilesInv

\* Every step.
LEMMA ProfilesStep == ASSUME ProfilesConstants, ProfilesInv, [Prof!Next]_(Prof!vars) PROVE ProfilesInv'
<1>1. CASE UNCHANGED Prof!vars
  BY <1>1 DEF Prof!vars, ProfilesInv, ProfileTypes, OneRowAtATime, Prof!StraysNeedFaults
<1>2. ASSUME NEW r \in Devices, Prof!DeviceStep(r) PROVE ProfilesInv'
  <2>1. ASSUME NEW login \in Logins, NEW uid \in Uids \cup {""}, Prof!getProfileConnectionHandler(r, login,
     uid) PROVE ProfilesInv'
    BY <2>1, AskKeeps DEF Prof!getProfileConnectionHandler
  <2>2. ASSUME NEW login \in Logins, NEW uid \in Uids \cup {""}, Prof!getProfileEnrollmentHandler(r, login,
     uid) PROVE ProfilesInv'
    BY <2>2, AskKeeps DEF Prof!getProfileEnrollmentHandler
  <2> QED
    BY <1>2, <2>1, <2>2, ReadRowKeeps, AnswerKeeps DEF Prof!DeviceStep
<1>3. ASSUME NEW r \in Admins, Prof!AdminStep(r) PROVE ProfilesInv'
  BY <1>3, PutReadKeeps, DeleteKeeps, PostKeeps, PutSaveKeeps DEF Prof!AdminStep
<1> QED
  BY <1>1, <1>2, <1>3 DEF Prof!Next

-----------------------------------------------------------------------------
\* The four rows a device is given have different keys.
LEMMA KeysDiffer ==
  ASSUME NEW login \in Logins, NEW uid \in Uids, ProfilesConstants, NEW i \in 1..4, NEW j \in 1..4, i # j
  PROVE  ReadKeys(login, uid)[i] # ReadKeys(login, uid)[j]
<1>1. login # "*" /\ uid # "*"
  BY Zenon DEF ProfilesConstants
<1>2. (i = 1 \/ i = 2 \/ i = 3 \/ i = 4) /\ (j = 1 \/ j = 2 \/ j = 3 \/ j = 4)
  OBVIOUS
<1> QED
  BY <1>1, <1>2 DEF ReadKeys

\* They are keys of the table.
LEMMA KeyIsKey == ASSUME NEW login \in Logins, NEW uid \in Uids, NEW i \in 1..4
      PROVE ReadKeys(login, uid)[i] \in Prof!Keys
<1>1. i = 1 \/ i = 2 \/ i = 3 \/ i = 4
  OBVIOUS
<1>2. CASE i = 1
  BY <1>2 DEF ReadKeys, Prof!Keys
<1>3. CASE i = 2
  BY <1>3 DEF ReadKeys, Prof!Keys
<1>4. CASE i = 3
  BY <1>4 DEF ReadKeys, Prof!Keys
<1>5. CASE i = 4
  BY <1>5 DEF ReadKeys, Prof!Keys
<1> QED
  BY <1>1, <1>2, <1>3, <1>4, <1>5

\* Two moments with at most one write between them.
LEMMA OneApart ==
  ASSUME NEW m \in Nat, NEW s \in 1..m, NEW u \in s..m, u - s <= 1
  PROVE  /\ u = s \/ (u = s + 1 /\ s + 1 <= m)
         /\ s \in s..u /\ u \in s..u /\ \A j \in s..u : j = s \/ j = u
OBVIOUS

\* The numbers of the reads.
LEMMA FirstFour == 1 \in 1..4 /\ 2 \in 1..4 /\ 3 \in 1..4 /\ 4 \in 1..4
OBVIOUS

\* What a device is given is due from a table there was while it was asking: if one
\* row was written meanwhile, the reads agree with the table before it or, if one of
\* them differs from that, with the table after it.
LEMMA AnswersDue == ASSUME ProfilesConstants, ProfilesInv PROVE Prof!AnswerIsOfOneMoment
<1> SUFFICES ASSUME NEW r \in Devices, req[r].op = "answered", ~req[r].failed, req[r].uid # "",
   req[r].until - req[r].since <= 1
             PROVE  \E i \in req[r].since..req[r].until :
                      req[r].prefs = Prof!Due(past[i], req[r].login, req[r].uid, req[r].enrol)
  BY DEF Prof!AnswerIsOfOneMoment
<1> DEFINE c == req[r]
           key(i) == ReadKeys(c.login, c.uid)[i]
<1>1. c \in DeviceRequest /\ DeviceFits(c, past) /\ c.op = "answered" /\ ~c.failed /\ c.uid # ""
      /\ c.until - c.since <= 1
  BY DEF ProfilesInv, ProfileTypes, ProfileRequests
<1>2. past \in Seq(Tables) /\ Len(past) \in Nat
  BY PastIs
<1> SUFFICES \E i \in c.since..c.until : c.prefs = Prof!Due(past[i], c.login, c.uid, c.enrol)
  OBVIOUS
<1> HIDE DEF c
<1>3. /\ c.login \in Logins /\ c.uid \in Uids /\ c.since \in 1..Len(past) /\ c.until \in c.since..Len(past)
      /\ Len(c.got) = 4 /\ c.prefs = Prof!Content(Prof!MergedOptions(c.got, c.enrol)) /\ ReadsTrue(c, past)
  BY <1>1 DEF DeviceFits
<1>4. c.enrol \in BOOLEAN
  BY <1>1 DEF DeviceRequest
<1>5. /\ c.until = c.since \/ (c.until = c.since + 1 /\ c.since + 1 <= Len(past))
      /\ c.since \in c.since..c.until /\ c.until \in c.since..c.until
      /\ \A j \in c.since..c.until : j = c.since \/ j = c.until
  <2> DEFINE m == Len(past)
             s == c.since
             u == c.until
  <2>1. m \in Nat /\ s \in 1..m /\ u \in s..m /\ u - s <= 1
    BY <1>1, <1>2, <1>3, Zenon
  <2> HIDE DEF m, s, u
  <2>2. /\ u = s \/ (u = s + 1 /\ s + 1 <= m)
        /\ s \in s..u /\ u \in s..u /\ \A j \in s..u : j = s \/ j = u
    BY <2>1, OneApart
  <2> QED
    BY <2>2, Zenon DEF m, s, u
<1>6. \A i \in 1..4 : key(i) \in Prof!Keys
  BY <1>3, KeyIsKey
<1>7. ASSUME NEW i \in 1..4 PROVE c.got[i] = past[c.since][key(i)] \/ c.got[i] = past[c.until][key(i)]
  <2>1. i \in 1..Len(c.got) /\ ReadUntil(c, past) = c.until
    BY <1>1, <1>3 DEF ReadUntil
  <2>2. PICK j \in c.since..c.until : c.got[i] = past[j][key(i)]
    BY <1>3, <2>1 DEF ReadsTrue
  <2>3. j = c.since \/ j = c.until
    BY <1>5, Zenon
  <2> QED
    BY <2>2, <2>3
<1>8. ASSUME NEW t, \A i \in 1..4 : c.got[i] = t[key(i)] PROVE c.prefs = Prof!Due(t, c.login, c.uid, c.enrol)
  <2>1. /\ key(1) = <<"*", "*">> /\ key(2) = <<c.login, "*">> /\ key(3) = <<"*", c.uid>>
        /\ key(4) = <<c.login, c.uid>>
    BY DEF ReadKeys
  <2>2. c.uid # "*"
    <3>1. "*" \notin Uids
      BY Zenon DEF ProfilesConstants
    <3> QED
      BY <1>3, <3>1
  <2>3. /\ c.got[1] = t[<<"*", "*">>] /\ c.got[2] = t[<<c.login, "*">>]
        /\ c.got[3] = t[<<"*", c.uid>>] /\ c.got[4] = t[<<c.login, c.uid>>]
    <3> HIDE DEF key
    <3> QED
      BY <1>8, <2>1, FirstFour, Zenon
  <2> QED
    BY <1>3, <1>4, <2>2, <2>3, MergedIsDue, Zenon
<1> HIDE DEF key
<1>9. CASE \A i \in 1..4 : c.got[i] = past[c.since][key(i)]
  BY <1>8, <1>5, <1>9
<1>10. CASE ~\A i \in 1..4 : c.got[i] = past[c.since][key(i)]
  <2>1. PICK i \in 1..4 : c.got[i] # past[c.since][key(i)]
    BY <1>10
  <2>2. c.got[i] = past[c.until][key(i)] /\ past[c.since][key(i)] # past[c.until][key(i)]
    BY <1>7, <2>1
  <2>3. c.until = c.since + 1 /\ c.since + 1 <= Len(past)
    <3>1. c.until # c.since
      BY <2>2
    <3> QED
      BY <1>5, <3>1, Zenon
  <2>4. ASSUME NEW j \in 1..4 PROVE c.got[j] = past[c.until][key(j)]
    <3>1. CASE j = i
      BY <2>2, <3>1
    <3>2. CASE j # i
      <4>1. key(j) # key(i)
        BY <1>3, <3>2, KeysDiffer DEF key
      <4>2. past[c.since][key(j)] = past[c.until][key(j)]
        BY <1>3, <1>6, <2>2, <2>3, <4>1 DEF ProfilesInv, OneRowAtATime
      <4> QED
        BY <1>7, <4>2
    <3> QED
      BY <3>1, <3>2
  <2> QED
    BY <1>8, <1>5, <2>4
<1> QED
  BY <1>9, <1>10

\* Who may have written a row that was not there.
WhoseRow(k) ==
  \E r \in Admins : /\ req'[r] # req[r]
                    /\ \/ req[r].op = ""
                       \/ k = Prof!Stray
                       \/ \E i \in req[r].since..Len(past) : past[i][k].there

\* A row appears by a POST, or by a PUT that found it or whose read failed.
LEMMA RowsAppear ==
  ASSUME ProfilesConstants, ProfilesInv, [Prof!Next]_(Prof!vars), NEW k \in Prof!Keys, ~table[k].there,
     table'[k].there
  PROVE  WhoseRow(k)
<1>1. table' # table
  <2>1. CASE table' = table
    BY <2>1
  <2> QED
    BY <2>1
<1>2. Prof!Next
  BY <1>1 DEF Prof!vars
<1>3. PICK r \in Admins : Prof!AdminStep(r)
  <2>1. ASSUME NEW r \in Devices, Prof!DeviceStep(r) PROVE FALSE
    BY <1>1, <2>1 DEF Prof!DeviceStep, Prof!getProfileConnectionHandler, Prof!getProfileEnrollmentHandler, Prof!Ask,
       Prof!ReadRow, Prof!Answer, Prof!Reading
  <2> QED
    BY <1>2, <2>1 DEF Prof!Next
<1>4. req \in [ProfileRequests -> DeviceRequest] /\ r \in ProfileRequests /\ AdminFits(req[r], past, faults)
  BY DEF ProfilesInv, ProfileTypes, ProfileRequests
<1>5. ASSUME req' = [req EXCEPT ![r] = Prof!Finished], req[r].op # "finished" PROVE req'[r] # req[r]
  <2>1. req'[r] = Prof!Finished
    BY <1>4, <1>5
  <2> QED
    BY <1>5, <2>1, FinishedIs
<1>6. ASSUME NEW login \in Logins \cup {"*", ""}, NEW uid \in Uids \cup {"*", ""}, NEW row \in Rows, Prof!Post(r,
   login, uid, row)
      PROVE  WhoseRow(k)
  <2>1. req[r].op = "" /\ req' = [req EXCEPT ![r] = Prof!Finished]
    BY <1>6 DEF Prof!Post
  <2> QED
    BY <1>5, <2>1 DEF WhoseRow
<1>7. ASSUME NEW login \in Logins \cup {"*"}, NEW uid \in Uids \cup {"*"}, NEW row \in Rows, Prof!PutRead(r, login,
   uid, row)
      PROVE  WhoseRow(k)
  <2>1. Prof!Reading
    BY <1>7, Zenon DEF Prof!PutRead
  <2> QED
    BY <1>1, <2>1 DEF Prof!Reading
<1>8. ASSUME NEW login \in Logins \cup {"*"}, NEW uid \in Uids \cup {"*"}, NEW row \in Rows, Prof!Delete(r, login,
   uid)
      PROVE  WhoseRow(k)
  <2>1. req[r].op = "" /\ req' = [req EXCEPT ![r] = Prof!Finished]
    BY <1>8 DEF Prof!Delete
  <2> QED
    BY <1>5, <2>1 DEF WhoseRow
<1>9. CASE Prof!PutSave(r)
  <2> DEFINE c == req[r]
             l == <<c.login, c.uid>>
  <2>1. c.op = "put" /\ req' = [req EXCEPT ![r] = Prof!Finished] /\ table' = [table EXCEPT ![l] = c.row]
    BY <1>9 DEF Prof!PutSave, Prof!Write
  <2>2. req'[r] # req[r]
    BY <1>5, <2>1
  <2> HIDE DEF c
  <2>3. table \in [Prof!Keys -> Rows \cup {Prof!NoRow}]
    BY DEF ProfilesInv, ProfileTypes, Tables
  <2>4. k = l
    <3> HIDE DEF l
    <3> QED
      BY <2>1, <2>3
  <2>5. k = Prof!Stray \/ past[c.since][k].there
    BY <1>4, <2>1, <2>4 DEF AdminFits, Prof!Stray, c
  <2>6. c.since \in 1..Len(past)
    BY <1>4, <2>1 DEF AdminFits, c
  <2>7. c.since \in c.since..Len(past)
    BY <2>6, PastIs
  <2> QED
    BY <2>2, <2>5, <2>7 DEF WhoseRow, c
<1> QED
  BY <1>3, <1>6, <1>7, <1>8, <1>9 DEF Prof!AdminStep

\* The model's shape.
LEMMA ShapeKept == ASSUME ProfilesInv PROVE Prof!TypeOK /\ Prof!StraysNeedFaults
<1>1. table \in [Prof!Keys -> Rows \cup {Prof!NoRow}] /\ Prof!Last(past) = table
  BY DEF ProfilesInv, ProfileTypes, Tables, Prof!Last
<1>2. ASSUME NEW r \in DOMAIN req PROVE req[r].op \in {"", "ask", "answered", "put", "finished"}
      /\ Len(req[r].got) <= 4
  <2>1. req[r] \in DeviceRequest
    BY DEF ProfilesInv, ProfileTypes
  <2> QED
    BY <2>1 DEF DeviceRequest, Reads
<1>3. faults \in 0..MaxFaults
  BY DEF ProfilesInv, ProfileTypes
<1> QED
  BY <1>1, <1>2, <1>3 DEF Prof!TypeOK, ProfilesInv

\* The invariant holds in every behaviour.
LEMMA ProfilesAlways == ASSUME ProfilesConstants PROVE Prof!Spec => []ProfilesInv
<1>1. Prof!Init => ProfilesInv
  BY ProfilesInitially
<1>2. ProfilesInv /\ [Prof!Next]_(Prof!vars) => ProfilesInv'
  BY ProfilesStep
<1> QED
  BY <1>1, <1>2, PTL DEF Prof!Spec

\* AnswerIsOfOneMoment: what GetProfileFiles gives a device, read row after row, is due
\* to it from the table at one moment of its request, when at most one row was written
\* meanwhile and no statement failed.
THEOREM AnswersAreOfOneMoment == ASSUME ProfilesConstants PROVE Prof!Spec => []Prof!AnswerIsOfOneMoment
<1>1. ProfilesInv => Prof!AnswerIsOfOneMoment
  BY AnswersDue
<1> QED
  BY <1>1, ProfilesAlways, PTL

\* RowsAreMeant: a row that was not there appears by a POST, or by ForceSave after a PUT
\* found it or its read failed, and only such a failure leaves a row without login and uid.
THEOREM RowsStayMeant == ASSUME ProfilesConstants PROVE Prof!Spec => Prof!RowsAreMeant
<1>1. ProfilesInv => Prof!TypeOK /\ Prof!StraysNeedFaults
  BY ShapeKept
<1>2. ProfilesInv /\ [Prof!Next]_(Prof!vars) =>
        [\A k \in Prof!Keys :
           ~table[k].there /\ table'[k].there =>
             \E r \in Admins :
               /\ req'[r] # req[r]
               /\ \/ req[r].op = ""
                  \/ k = Prof!Stray
                  \/ \E i \in req[r].since..Len(past) : past[i][k].there]_(Prof!vars)
  BY RowsAppear DEF WhoseRow
<1> QED
  BY <1>1, <1>2, ProfilesAlways, PTL DEF Prof!RowsAreMeant, Prof!NothingFromNowhere, Prof!Spec
=============================================================================
