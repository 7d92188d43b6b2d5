----------------------------- MODULE ConnHandler -----------------------------
(***************************************************************************)
(* One ConnClientHandler (internal/client/client_handler.go): the object   *)
(* that owns one TCP or TLS connection.  Four kinds of goroutine touch it: *)
(*                                                                         *)
(*   - the reader   handleRead: parses messages, keeps the table of the    *)
(*                  contacts behind the connection, hands messages on;     *)
(*   - the writer   handleWrite: drains sendChan into the connection;      *)
(*   - the senders  whoever calls SendMsg, SendCot or sendEvent: the       *)
(*                  message loop of the server, the pinger, the goroutine  *)
(*                  that accepted the connection;                          *)
(*   - the timer    closeIdle, run by time.AfterFunc.                      *)
(*                                                                         *)
(* Stop may be entered by the reader (when it returns) and by the writer   *)
(* (on a write error).  Neither Stop nor tryAddPacket holds a lock, so     *)
(* each of their steps is an action.                                       *)
(***************************************************************************)
EXTENDS Naturals, Sequences, FiniteSets

CONSTANTS Uids,        \* contact uids the peer may announce
          Blocked,     \* uids that UidChecker refuses
          Senders,     \* goroutines that send through this handler
          Cap,         \* capacity of sendChan (50 in the code)
          MaxSends,    \* bound: packets offered by one sender
          MaxReads     \* bound: messages the peer sends

Reader == "reader"
Writer == "writer"
Stoppers == {Reader, Writer}
Procs == Stoppers \cup Senders

ASSUME ConnAssumption == /\ Blocked \subseteq Uids
                         /\ Cap \in Nat \ {0}
                         /\ MaxSends \in Nat
                         /\ MaxReads \in Nat
                         /\ Reader \notin Senders
                         /\ Writer \notin Senders

NoUid == "no uid"
NoOne == "no one"

\* What the reader can take off the wire, as far as handleRead tells it
\* apart.  "ctl" is a t-x-takp-q, answered by the reader itself; "skip" is
\* an <?xml> or <auth> tag; "bad" is anything that does not parse.
Messages == ({"contact", "bye"} \X Uids)
              \cup ({"ping", "ctl", "pong", "data", "skip", "bad"} \X {NoUid})

\* A packet is named by the goroutine that offered it and a serial number.
Packets == ({Reader} \cup Senders) \X Nat

VARIABLES
  active,       \* the flag Stop swaps from 1 to 0
  cancelled,    \* ctx of the reader and the pinger
  chan,         \* contents of sendChan
  chanOpen,     \* FALSE once Stop closed sendChan
  connOpen,     \* FALSE once conn.Close was called on our side
  peerOpen,     \* FALSE once the peer closed or reset the connection
  inbuf,        \* messages received and not yet parsed
  reads,        \* messages the peer has sent so far
  uids,         \* contacts announced on this connection
  timerArmed,   \* closeTimer is running
  idle,         \* the closeIdle goroutine: "none", "load", "close"
  fresh,        \* lastActivity is younger than idleTimeout
  pc,           \* where each goroutine is
  rmsg,         \* the message in the reader's hands
  wmsg,         \* the packet in the writer's hands, as a sequence of at most one
  sent,         \* packets each goroutine has offered
  written,      \* packets handed to the connection, in order
  stopper,      \* who won the swap in Stop
  removed,      \* removeCb has run
  removedUids   \* the contacts it saw

connVars == <<connOpen, peerOpen, inbuf, reads>>
timerVars == <<timerArmed, idle, fresh>>
sendVars == <<chan, sent>>
stopVars == <<active, cancelled, chanOpen, stopper, removed, removedUids>>
ioVars == <<rmsg, wmsg, written, uids>>
vars == <<stopVars, sendVars, connVars, timerVars, ioVars, pc>>

StopBody == {"cancel", "close", "conn", "remove", "disarm"}
ReaderPc == {"read", "wait", "store", "reset", "contact", "reply", "push",
             "deliver", "stop", "done"} \cup StopBody
WriterPc == {"recv", "write", "stop", "done"} \cup StopBody
SenderPc == {"idle", "push", "panicked"}

PcOK == /\ pc \in [Procs -> ReaderPc \cup WriterPc \cup SenderPc]
        /\ pc[Reader] \in ReaderPc
        /\ pc[Writer] \in WriterPc
        /\ \A s \in Senders : pc[s] \in SenderPc

QueueOK == /\ chan \in Seq(Packets) /\ Len(chan) <= Cap
           /\ wmsg \in Seq(Packets) /\ Len(wmsg) <= 1
           /\ written \in Seq(Packets)
           /\ sent \in [{Reader} \cup Senders -> Nat]

DataOK == /\ active \in {0, 1} /\ cancelled \in BOOLEAN
          /\ chanOpen \in BOOLEAN /\ connOpen \in BOOLEAN /\ peerOpen \in BOOLEAN
          /\ inbuf \in Nat /\ reads \in Nat
          /\ rmsg \in Messages /\ uids \subseteq Uids
          /\ timerArmed \in BOOLEAN /\ fresh \in BOOLEAN
          /\ idle \in {"none", "load", "close"}
          /\ stopper \in Stoppers \cup {NoOne}
          /\ removed \in BOOLEAN /\ removedUids \subseteq Uids

\* Every variable has its type, and sendChan never holds more than Cap.
TypeOK == PcOK /\ QueueOK /\ DataOK

Init == /\ active = 1 /\ cancelled = FALSE
        /\ chan = <<>> /\ chanOpen = TRUE
        /\ connOpen = TRUE /\ peerOpen = TRUE
        /\ inbuf = 0 /\ reads = 0
        /\ uids = {}
        /\ timerArmed = TRUE /\ idle = "none" /\ fresh = TRUE
        /\ pc = [p \in Procs |-> CASE p = Reader -> "read"
                                   [] p = Writer -> "recv"
                                   [] OTHER -> "idle"]
        /\ rmsg = <<"skip", NoUid>> /\ wmsg = <<>>
        /\ sent = [p \in {Reader} \cup Senders |-> 0]
        /\ written = <<>>
        /\ stopper = NoOne /\ removed = FALSE /\ removedUids = {}

Goto(p, l) == pc' = [pc EXCEPT ![p] = l]

\* A send on a closed channel panics.  handleRead and handleWrite recover;
\* the goroutines in Senders do not, and the process dies with them.
Crashed == \E s \in Senders : pc[s] = "panicked"

-----------------------------------------------------------------------------
(* The senders: tryAddPacket. *)

\* IsActive says no: the caller gets "client is off" and nothing changes.
\* IsActive says yes: the send itself is a later step.
CheckActive(s) ==
  /\ pc[s] = "idle" /\ sent[s] < MaxSends
  /\ active = 1
  /\ Goto(s, "push")
  /\ UNCHANGED <<stopVars, sendVars, connVars, timerVars, ioVars>>

\* Mutant: a full channel makes room by dropping its oldest packet.
EnqueueDroppingOldest(p) ==
  /\ chan' = Append(IF Len(chan) < Cap THEN chan ELSE Tail(chan), <<p, sent[p]>>)
  /\ sent' = [sent EXCEPT ![p] = @ + 1]

\* Mutant: the capacity test is off by one.
EnqueueOneTooMany(p) ==
  /\ chan' = IF Len(chan) <= Cap THEN Append(chan, <<p, sent[p]>>) ELSE chan
  /\ sent' = [sent EXCEPT ![p] = @ + 1]

\* The select with a default: queue the packet, or drop it when full.
Enqueue(p) ==
  /\ chan' = IF Len(chan) < Cap THEN Append(chan, <<p, sent[p]>>) ELSE chan
  /\ sent' = [sent EXCEPT ![p] = @ + 1]

Push(s) ==
  /\ pc[s] = "push" /\ chanOpen
  /\ Enqueue(s)
  /\ Goto(s, "idle")
  /\ UNCHANGED <<stopVars, connVars, timerVars, ioVars>>

PushPanics(s) ==
  /\ pc[s] = "push" /\ ~chanOpen
  /\ Goto(s, "panicked")
  /\ UNCHANGED <<stopVars, sendVars, connVars, timerVars, ioVars>>

-----------------------------------------------------------------------------
(* The peer and the network. *)

Arrive ==
  /\ connOpen /\ peerOpen /\ reads < MaxReads
  /\ inbuf' = inbuf + 1 /\ reads' = reads + 1
  /\ UNCHANGED <<connOpen, peerOpen, stopVars, sendVars, timerVars, ioVars, pc>>

PeerCloses ==
  /\ peerOpen /\ peerOpen' = FALSE
  /\ UNCHANGED <<connOpen, inbuf, reads, stopVars, sendVars, timerVars, ioVars, pc>>

-----------------------------------------------------------------------------
(* The reader: handleRead. *)

\* Mutant: the loop does not look at its context.
ReadLoopForever ==
  /\ pc[Reader] = "read"
  /\ Goto(Reader, "wait")
  /\ UNCHANGED <<stopVars, sendVars, connVars, timerVars, ioVars>>

\* for ctx.Err() == nil
ReadLoop ==
  /\ pc[Reader] = "read"
  /\ Goto(Reader, IF cancelled THEN "stop" ELSE "wait")
  /\ UNCHANGED <<stopVars, sendVars, connVars, timerVars, ioVars>>

\* A message leaves the bufio reader, which may still hold some after the
\* connection was closed.
ReadMessage ==
  /\ pc[Reader] = "wait" /\ inbuf > 0
  /\ inbuf' = inbuf - 1
  /\ \E m \in Messages :
       /\ rmsg' = m
       /\ Goto(Reader, CASE m[1] = "bad" -> "stop"
                         [] m[1] = "skip" -> "read"
                         [] OTHER -> "store")
  /\ UNCHANGED <<connOpen, peerOpen, reads, stopVars, sendVars, timerVars,
                 wmsg, written, uids>>

ReadFails ==
  /\ pc[Reader] = "wait" /\ inbuf = 0 /\ ~(connOpen /\ peerOpen)
  /\ Goto(Reader, "stop")
  /\ UNCHANGED <<stopVars, sendVars, connVars, timerVars, ioVars>>

\* setActivity, first half: lastActivity.Store(now)
StoreActivity ==
  /\ pc[Reader] = "store"
  /\ fresh' = TRUE
  /\ Goto(Reader, "reset")
  /\ UNCHANGED <<timerArmed, idle, stopVars, sendVars, connVars, ioVars>>

\* Mutant: the timer is created once and never reset.
ForgetTimer ==
  /\ pc[Reader] = "reset"
  /\ Goto(Reader, IF rmsg[1] \in {"ctl", "ping"} THEN "reply" ELSE "contact")
  /\ UNCHANGED <<timerVars, stopVars, sendVars, connVars, ioVars>>

\* setActivity, second half: closeTimer.Reset(idleTimeout)
ResetTimer ==
  /\ pc[Reader] = "reset"
  /\ timerArmed' = TRUE
  /\ Goto(Reader, IF rmsg[1] \in {"ctl", "ping"} THEN "reply" ELSE "contact")
  /\ UNCHANGED <<idle, fresh, stopVars, sendVars, connVars, ioVars>>

\* The bookkeeping on uids.  A blocked uid ends the connection; a pong goes
\* nowhere; everything else goes on to messageCb.
TrackContact ==
  /\ pc[Reader] = "contact"
  /\ IF rmsg[1] = "contact" /\ rmsg[2] \in Blocked
       THEN Goto(Reader, "stop") /\ UNCHANGED uids
       ELSE /\ uids' = CASE rmsg[1] = "contact" -> uids \cup {rmsg[2]}
                         [] rmsg[1] = "bye"     -> uids \ {rmsg[2]}
                         [] OTHER               -> uids
            /\ Goto(Reader, IF rmsg[1] = "pong" THEN "read" ELSE "deliver")
  /\ UNCHANGED <<stopVars, sendVars, connVars, timerVars, rmsg, wmsg, written>>

\* h.messageCb(msg)
DeliverMessage ==
  /\ pc[Reader] = "deliver"
  /\ Goto(Reader, "read")
  /\ UNCHANGED <<stopVars, sendVars, connVars, timerVars, ioVars>>

\* A ping is answered with a pong and a t-x-takp-q with ProtoChangeOk, both
\* through tryAddPacket.  Only the second treats "client is off" as an error.
ReplyCheck ==
  /\ pc[Reader] = "reply"
  /\ Goto(Reader, CASE active = 1      -> "push"
                    [] rmsg[1] = "ctl" -> "stop"
                    [] OTHER           -> "read")
  /\ UNCHANGED <<stopVars, sendVars, connVars, timerVars, ioVars>>

\* On a closed channel the reader panics; the deferred Stop runs, then the
\* deferred recover.
Reply ==
  /\ pc[Reader] = "push"
  /\ IF chanOpen THEN Enqueue(Reader) /\ Goto(Reader, "read")
                 ELSE Goto(Reader, "stop") /\ UNCHANGED sendVars
  /\ UNCHANGED <<stopVars, connVars, timerVars, ioVars>>

-----------------------------------------------------------------------------
(* The writer: handleWrite. *)

\* for msg := range h.sendChan; a closed channel is drained first.
Recv ==
  /\ pc[Writer] = "recv" /\ chan /= <<>>
  /\ wmsg' = <<Head(chan)>> /\ chan' = Tail(chan)
  /\ Goto(Writer, "write")
  /\ UNCHANGED <<sent, stopVars, connVars, timerVars, rmsg, written, uids>>

RecvClosed ==
  /\ pc[Writer] = "recv" /\ chan = <<>> /\ ~chanOpen
  /\ Goto(Writer, "done")
  /\ UNCHANGED <<stopVars, sendVars, connVars, timerVars, ioVars>>

WriteOk ==
  /\ pc[Writer] = "write" /\ connOpen
  /\ written' = written \o wmsg /\ wmsg' = <<>>
  /\ Goto(Writer, "recv")
  /\ UNCHANGED <<stopVars, sendVars, connVars, timerVars, rmsg, uids>>

WriteFails ==
  /\ pc[Writer] = "write" /\ ~(connOpen /\ peerOpen)
  /\ wmsg' = <<>>
  /\ Goto(Writer, "stop")
  /\ UNCHANGED <<stopVars, sendVars, connVars, timerVars, rmsg, written, uids>>

-----------------------------------------------------------------------------
(* Stop, run by p. *)

\* Mutant: the flag is stored, not swapped.
StopStore(p) ==
  /\ pc[p] = "stop"
  /\ active' = 0 /\ stopper' = p
  /\ Goto(p, "cancel")
  /\ UNCHANGED <<cancelled, chanOpen, removed, removedUids, sendVars, connVars, timerVars, ioVars>>

\* Mutant: the flag is tested and left alone until the end.
StopTest(p) ==
  /\ pc[p] = "stop"
  /\ Goto(p, IF active = 1 THEN "cancel" ELSE "done")
  /\ UNCHANGED <<stopVars, sendVars, connVars, timerVars, ioVars>>

StopSwap(p) ==
  /\ pc[p] = "stop"
  /\ IF active = 1
       THEN active' = 0 /\ stopper' = p /\ Goto(p, "cancel")
       ELSE UNCHANGED <<active, stopper>> /\ Goto(p, "done")
  /\ UNCHANGED <<cancelled, chanOpen, removed, removedUids, sendVars, connVars, timerVars, ioVars>>

StopCancel(p) ==
  /\ pc[p] = "cancel"
  /\ cancelled' = TRUE
  /\ Goto(p, "close")
  /\ UNCHANGED <<active, chanOpen, stopper, removed, removedUids, sendVars, connVars, timerVars, ioVars>>

StopCloseChan(p) ==
  /\ pc[p] = "close"
  /\ chanOpen' = FALSE
  /\ Goto(p, "conn")
  /\ UNCHANGED <<active, cancelled, stopper, removed, removedUids, sendVars, connVars, timerVars, ioVars>>

StopCloseConn(p) ==
  /\ pc[p] = "conn"
  /\ connOpen' = FALSE
  /\ Goto(p, "remove")
  /\ UNCHANGED <<peerOpen, inbuf, reads, stopVars, sendVars, timerVars, ioVars>>

\* h.removeCb(h): the callback walks GetUids() and sets every contact offline.
StopRemove(p) ==
  /\ pc[p] = "remove"
  /\ removed' = TRUE /\ removedUids' = uids
  /\ Goto(p, "disarm")
  /\ UNCHANGED <<active, cancelled, chanOpen, stopper, sendVars, connVars, timerVars, ioVars>>

StopDisarm(p) ==
  /\ pc[p] = "disarm"
  /\ timerArmed' = FALSE
  /\ Goto(p, "done")
  /\ UNCHANGED <<idle, fresh, stopVars, sendVars, connVars, ioVars>>

-----------------------------------------------------------------------------
(* The idle timer. *)

\* idleTimeout has passed since the last Reset.  lastActivity is then as old,
\* unless the reader has stored a new one and not reset the timer yet.
TimerFires ==
  /\ timerArmed /\ idle = "none"
  /\ timerArmed' = FALSE /\ idle' = "load"
  /\ fresh' = (pc[Reader] = "reset")
  /\ UNCHANGED <<stopVars, sendVars, connVars, ioVars, pc>>

\* Mutant: idle > idleTimeout where the timer fires at idle = idleTimeout.
IdleLoadStrict ==
  /\ idle = "load"
  /\ idle' = "none"
  /\ UNCHANGED <<timerArmed, fresh, stopVars, sendVars, connVars, ioVars, pc>>

IdleLoad ==
  /\ idle = "load"
  /\ idle' = IF fresh THEN "none" ELSE "close"
  /\ UNCHANGED <<timerArmed, fresh, stopVars, sendVars, connVars, ioVars, pc>>

IdleClose ==
  /\ idle = "close"
  /\ idle' = "none" /\ connOpen' = FALSE
  /\ UNCHANGED <<timerArmed, fresh, peerOpen, inbuf, reads, stopVars, sendVars, ioVars, pc>>

-----------------------------------------------------------------------------
ReaderStep == \/ ReadLoop \/ ReadMessage \/ ReadFails \/ StoreActivity
              \/ ResetTimer \/ TrackContact \/ DeliverMessage
              \/ ReplyCheck \/ Reply
WriterStep == Recv \/ RecvClosed \/ WriteFails
StopStep(p) == \/ StopSwap(p) \/ StopCancel(p) \/ StopCloseChan(p)
               \/ StopCloseConn(p) \/ StopRemove(p) \/ StopDisarm(p)
SenderStep(s) == CheckActive(s) \/ Push(s) \/ PushPanics(s)
IdleStep == IdleLoad \/ IdleClose

Next == /\ ~Crashed
        /\ \/ ReaderStep \/ WriterStep \/ WriteOk
           \/ \E p \in Stoppers : StopStep(p)
           \/ \E s \in Senders : SenderStep(s)
           \/ TimerFires \/ IdleStep
           \/ Arrive \/ PeerCloses

Spec == Init /\ [][Next]_vars

\* Goroutines are scheduled and timers expire.  Nothing is assumed of the
\* peer: it need not send, close, or take what is written to it (WriteOk).
Fairness ==
  /\ WF_vars(~Crashed /\ ReaderStep)
  /\ WF_vars(~Crashed /\ WriterStep)
  /\ \A p \in Stoppers : WF_vars(~Crashed /\ StopStep(p))
  /\ WF_vars(~Crashed /\ TimerFires)
  /\ WF_vars(~Crashed /\ IdleStep)

FairSpec == Spec /\ Fairness
-----------------------------------------------------------------------------
(* Safety. *)

\* What tryAddPacket's IsActive test is worth: as long as the flag reads 1
\* the channel is open, nobody has crashed on it, and no part of Stop has
\* run.  The danger of the code is confined to the window between the test
\* and the send (client_handler.go:537-550 against 438-455).
OpenWhileActive ==
  active = 1 => /\ chanOpen /\ ~cancelled /\ ~Crashed
                /\ stopper = NoOne /\ ~removed

\* The reader's deferred Stop, the writer's Stop after a write error and a
\* Stop during a panic may meet: sendChan is closed once and removeCb runs
\* once, because the swap lets one of them through.
StopOnce ==
  /\ \A p, q \in Stoppers : pc[p] \in StopBody /\ pc[q] \in StopBody => p = q
  /\ \A p \in Stoppers : pc[p] \in {"cancel", "close"} => chanOpen
  /\ \A p \in Stoppers : pc[p] \in {"cancel", "close", "conn", "remove"}
                            => ~removed

\* removeCb walks the contacts once, and the reader may register one more
\* behind its back when it is the writer that stops the handler.  At most
\* one is missed, and none when the reader itself stopped.
ContactsCovered ==
  removed =>
    /\ \A u, v \in uids \ removedUids : u = v
    /\ stopper = Reader => uids \subseteq removedUids

\* An open connection is always watched: the timer runs, or closeIdle is
\* about to decide, or the reader is about to reset the timer.  A timer that
\* expired against a fresh lastActivity must not leave it unwatched.
IdleWatched ==
  active = 1 /\ connOpen => timerArmed \/ idle /= "none" \/ pc[Reader] = "reset"

-----------------------------------------------------------------------------
(* Refinement: the sending side is a bounded lossy FIFO. *)

\* The bounds on sends and reads bound the serial numbers.
OfferedPackets == ({Reader} \cup Senders) \X (0 .. MaxSends + MaxReads)

Queue == INSTANCE SendQueue WITH Packets <- OfferedPackets,
                                 Bound <- Cap + 1,
                                 queue <- wmsg \o chan,
                                 delivered <- written,
                                 closed <- ~chanOpen

\* SendMsg/SendCot/sendEvent and handleWrite together neither reorder nor
\* repeat packets, and nothing is queued after Stop closed the channel.
ImplementsSendQueue == Queue!Spec

-----------------------------------------------------------------------------
(* Liveness. *)

\* Once Stop has begun, it ends: removeCb runs and both goroutines of the
\* handler return, even one that was blocked in a read or a write.
StopCompletes ==
  active = 0 ~> \/ Crashed
                \/ removed /\ pc[Reader] = "done" /\ pc[Writer] = "done"

\* A peer that closed, or that went silent without closing (half-open TCP),
\* is noticed by the idle timer and its contacts are removed.  MaxReads
\* makes every peer of the model silent in the end.
SilentPeerIsRemoved == <>(removed \/ Crashed)

\* Nothing of a handler whose peer is gone stays behind.
HandlersEnd == StopCompletes /\ SilentPeerIsRemoved
=============================================================================
