----------------------------- MODULE ProtoSwitch -----------------------------
(***************************************************************************)
(* The negotiation that moves one connection from CoT XML to TAK protocol  *)
(* version 1, between a goatak server and a goatak client (webclient, or   *)
(* another server's ConnectTo).  Both ends run the same ConnClientHandler; *)
(* isClient tells them apart.  Each end has a reader, which alone changes  *)
(* the version, and senders, which read the version in SendCot and queue   *)
(* the encoded packet in a later step.                                     *)
(*                                                                         *)
(* A direction of the connection is one sequence of frames, named for the  *)
(* end that sends it, with three marks in it: up to written, frames have   *)
(* left sendChan; up to fetched, a bufio.Reader of the other end holds     *)
(* them; up to consumed, that end has parsed or lost them.                 *)
(***************************************************************************)
EXTENDS Naturals, Sequences

CONSTANTS Senders,     \* goroutines that call SendCot
          Owner,       \* the end each of them belongs to
          Cap,         \* capacity of each sendChan (50 in the code)
          MaxSends     \* bound: messages sent by one sender

Server == "server"
Client == "client"
Ends == {Server, Client}
Peer(e) == IF e = Server THEN Client ELSE Server

ASSUME SwitchAssumption == /\ Owner \in [Senders -> Ends]
                           /\ Cap \in Nat \ {0}
                           /\ MaxSends \in Nat

Formats == {"xml", "proto"}
Controls == {"offer", "request", "ok"}     \* t-x-takp-v, t-x-takp-q, t-x-takp-r
Frames == [format : Formats, kind : Controls \cup {"cot"}]
Format(v) == IF v = 0 THEN "xml" ELSE "proto"

VARIABLES
  ver,         \* the version field of each handler
  stream,      \* frames each end has queued, ever
  written,     \* how many of them the writer has sent
  fetched,     \* how many of them the other end holds in a bufio.Reader
  consumed,    \* how many of them the other end is done with
  starter,     \* Start's sendEvent(VersionSupportMsg): "check", "push", "done"
  rpc,         \* what each reader is about to do
  held,        \* the encoding a sender has chosen, before it queues
  sends,       \* messages each sender has sent
  dropped,     \* control messages lost to a full sendChan
  garbled      \* ends whose XML reader met a frame that is not XML

marks == <<written, fetched, consumed>>
vars == <<ver, stream, marks, starter, rpc, held, sends, dropped, garbled>>

TypeOK == /\ ver \in [Ends -> {0, 1}]
          /\ stream \in [Ends -> Seq(Frames)]
          /\ \A e \in Ends : /\ written[e] \in 0 .. Len(stream[e])
                             /\ fetched[e] \in 0 .. written[e]
                             /\ consumed[e] \in 0 .. fetched[e]
                             /\ Len(stream[e]) - written[e] <= Cap
          /\ starter \in {"check", "push", "done"}
          /\ rpc \in [Ends -> {"read", "reply", "set version", "request"}]
          /\ held \in [Senders -> Formats \cup {"nothing"}]
          /\ sends \in [Senders -> 0 .. MaxSends]
          /\ dropped \subseteq Controls
          /\ garbled \subseteq Ends

Init == /\ ver = [e \in Ends |-> 0]
        /\ stream = [e \in Ends |-> <<>>]
        /\ written = [e \in Ends |-> 0]
        /\ fetched = [e \in Ends |-> 0]
        /\ consumed = [e \in Ends |-> 0]
        /\ starter = "check"
        /\ rpc = [e \in Ends |-> "read"]
        /\ held = [s \in Senders |-> "nothing"]
        /\ sends = [s \in Senders |-> 0]
        /\ dropped = {}
        /\ garbled = {}

-----------------------------------------------------------------------------
(* Sending. *)

\* tryAddPacket on a live connection: a full sendChan drops the packet, and
\* the caller is told that it was sent all the same.
TryAddPacket(e, f) ==
  IF Len(stream[e]) - written[e] < Cap
    THEN stream' = [stream EXCEPT ![e] = Append(@, f)] /\ UNCHANGED dropped
    ELSE UNCHANGED stream /\ dropped' = dropped \cup ({f.kind} \cap Controls)

\* sendEvent always writes XML, and only while the version is 0.
SendEvent(e, kind) ==
  /\ ver[e] = 0
  /\ TryAddPacket(e, [format |-> "xml", kind |-> kind])

OfferCheck ==
  /\ starter = "check"
  /\ starter' = IF ver[Server] = 0 THEN "push" ELSE "done"
  /\ UNCHANGED <<ver, stream, marks, rpc, held, sends, dropped, garbled>>

\* Mutant: the offer is repeated as long as nobody takes it.
OfferAgain ==
  /\ starter = "push"
  /\ TryAddPacket(Server, [format |-> "xml", kind |-> "offer"])
  /\ starter' = "check"
  /\ UNCHANGED <<ver, marks, rpc, held, sends, garbled>>

Offer ==
  /\ starter = "push"
  /\ TryAddPacket(Server, [format |-> "xml", kind |-> "offer"])
  /\ starter' = "done"
  /\ UNCHANGED <<ver, marks, rpc, held, sends, garbled>>

\* SendCot reads the version and encodes the message for it ...
Encode(s) ==
  /\ held[s] = "nothing" /\ sends[s] < MaxSends
  /\ held' = [held EXCEPT ![s] = Format(ver[Owner[s]])]
  /\ UNCHANGED <<ver, stream, marks, starter, rpc, sends, dropped, garbled>>

\* ... and queues it, whatever the version has become meanwhile.
Queue(s) ==
  /\ held[s] /= "nothing"
  /\ TryAddPacket(Owner[s], [format |-> held[s], kind |-> "cot"])
  /\ held' = [held EXCEPT ![s] = "nothing"]
  /\ sends' = [sends EXCEPT ![s] = @ + 1]
  /\ UNCHANGED <<ver, marks, starter, rpc, garbled>>

\* handleWrite, one packet.
Write(e) ==
  /\ written[e] < Len(stream[e])
  /\ written' = [written EXCEPT ![e] = @ + 1]
  /\ UNCHANGED <<ver, stream, fetched, consumed, starter, rpc, held, sends, dropped, garbled>>

-----------------------------------------------------------------------------
(* Receiving, at end e.  Its input is the stream of the other end. *)

\* An empty bufio.Reader takes what the socket has, some or all of it.
Fetch(e) ==
  LET p == Peer(e) IN
  /\ rpc[e] = "read" /\ consumed[p] = fetched[p]
  /\ \E n \in fetched[p] + 1 .. written[p] : fetched' = [fetched EXCEPT ![p] = n]
  /\ UNCHANGED <<ver, stream, written, consumed, starter, rpc, held, sends, dropped, garbled>>

Next1(e) == stream[Peer(e)][consumed[Peer(e)] + 1]
HasInput(e) == rpc[e] = "read" /\ consumed[Peer(e)] < fetched[Peer(e)]
Consume(e) == consumed' = [consumed EXCEPT ![Peer(e)] = @ + 1]

\* The other protocol has a bufio.Reader of its own: what this one has
\* fetched and not parsed is never looked at again.
SwitchReader(e) ==
  /\ ver' = [ver EXCEPT ![e] = 1]
  /\ consumed' = [consumed EXCEPT ![Peer(e)] = fetched[Peer(e)]]

\* processXMLRead.  A version request, at the server, or a version offer, at
\* the client, is answered by the reader before it reads on.
ReadXml(e) ==
  /\ ver[e] = 0 /\ HasInput(e) /\ Next1(e).format = "xml"
  /\ ~(e = Client /\ Next1(e).kind = "ok")
  /\ Consume(e)
  /\ rpc' = [rpc EXCEPT ![e] = CASE Next1(e).kind = "request" -> "reply"
                                 [] e = Client /\ Next1(e).kind = "offer" -> "request"
                                 [] OTHER -> "read"]
  /\ UNCHANGED <<ver, stream, written, fetched, starter, held, sends, dropped, garbled>>

\* The client reads t-x-takp-r with status true.
ReadOk ==
  /\ ver[Client] = 0 /\ HasInput(Client)
  /\ Next1(Client) = [format |-> "xml", kind |-> "ok"]
  /\ SwitchReader(Client)
  /\ UNCHANGED <<stream, written, fetched, starter, rpc, held, sends, dropped, garbled>>

\* The XML reader hunts for '<' in a protobuf frame: a bad tag, which ends
\* the connection, or garbage that it skips.
ReadGarbled(e) ==
  /\ ver[e] = 0 /\ HasInput(e) /\ Next1(e).format = "proto"
  /\ Consume(e)
  /\ garbled' = garbled \cup {e}
  /\ UNCHANGED <<ver, stream, written, fetched, starter, rpc, held, sends, dropped>>

\* processProtoRead.  ReadProto skips everything up to the next magic byte,
\* XML included.
ReadProto(e) ==
  /\ ver[e] = 1 /\ HasInput(e)
  /\ Consume(e)
  /\ UNCHANGED <<ver, stream, written, fetched, starter, rpc, held, sends, dropped, garbled>>

Request ==
  /\ rpc[Client] = "request"
  /\ SendEvent(Client, "request")
  /\ rpc' = [rpc EXCEPT ![Client] = "read"]
  /\ UNCHANGED <<ver, marks, starter, held, sends, garbled>>

\* Mutant: the server switches and never answers.
ReplyNothing ==
  /\ rpc[Server] = "reply"
  /\ rpc' = [rpc EXCEPT ![Server] = "set version"]
  /\ UNCHANGED <<ver, stream, marks, starter, held, sends, dropped, garbled>>

\* The server answers first and switches in a second step.
ReplyOk ==
  /\ rpc[Server] = "reply"
  /\ SendEvent(Server, "ok")
  /\ rpc' = [rpc EXCEPT ![Server] = "set version"]
  /\ UNCHANGED <<ver, marks, starter, held, sends, garbled>>

\* Mutant: the server answers and goes on in XML.
SetVersionForgotten ==
  /\ rpc[Server] = "set version"
  /\ rpc' = [rpc EXCEPT ![Server] = "read"]
  /\ UNCHANGED <<ver, stream, marks, starter, held, sends, dropped, garbled>>

SetVersion ==
  /\ rpc[Server] = "set version"
  /\ SwitchReader(Server)
  /\ rpc' = [rpc EXCEPT ![Server] = "read"]
  /\ UNCHANGED <<stream, written, fetched, starter, held, sends, dropped, garbled>>

-----------------------------------------------------------------------------
ReaderStep(e) == Fetch(e) \/ ReadXml(e) \/ ReadGarbled(e) \/ ReadProto(e)
Negotiate == OfferCheck \/ Offer \/ ReadOk \/ Request \/ ReplyOk \/ SetVersion

Next == \/ Negotiate
        \/ \E e \in Ends : Write(e) \/ ReaderStep(e)
        \/ \E s \in Senders : Encode(s) \/ Queue(s)

Spec == Init /\ [][Next]_vars

\* Every goroutine runs and TCP delivers; nobody has to send.
Fairness == /\ WF_vars(OfferCheck \/ Offer)
            /\ WF_vars(ReplyOk \/ SetVersion)
            /\ WF_vars(ReadOk \/ Request)
            /\ \A e \in Ends : WF_vars(Write(e)) /\ WF_vars(ReaderStep(e))

FairSpec == Spec /\ Fairness
-----------------------------------------------------------------------------
Positions(e, kind) == {i \in 1 .. Len(stream[e]) : stream[e][i].kind = kind}

\* A client asks only once, and only after it has parsed the server's offer
\* (protobuf/protocol.txt:204), which comes once per connection (:178).
AskedOnceAfterOffer ==
  \A i, j \in Positions(Client, "request") :
    /\ i = j
    /\ \E k \in Positions(Server, "offer") : k <= consumed[Server]

\* The negotiation takes its steps in their order, and no queue overflows.
OrderlyNegotiation == TypeOK /\ AskedOnceAfterOffer

\* The order "answer, then switch" keeps protobuf frames away from XML
\* readers in both directions, as long as no answer was dropped.
XmlReadersSeeXml == garbled = {} \/ "ok" \in dropped

\* Whatever is sent meanwhile, both ends arrive at version 1 unless a control
\* message fell to a full sendChan.
BothSwitch == <>(dropped /= {} \/ \A e \in Ends : ver[e] = 1)

-----------------------------------------------------------------------------
(* What protobuf/protocol.txt demands and the code does not do. *)

\* :246 "The server MUST NOT send additiona CoT XML after the "true" response"
NoXmlAfterTrue ==
  \A i \in Positions(Server, "ok") : \A j \in i + 1 .. Len(stream[Server]) :
    stream[Server][j].format /= "xml"
=============================================================================
