-------------------------- MODULE ConnHandlerProofs --------------------------
(* Theorems about ConnHandler, for every set of senders and contacts, and   *)
(* about Messages, as Msg: what a type matches, for any types and patterns. *)
EXTENDS ConnHandler, SequenceTheorems, FiniteSetTheorems, TLAPS

\* The winner of the swap is the only goroutine inside Stop, and never leaves
\* it for anything but its end.
OneStopper ==
  /\ active = 0 <=> stopper /= NoOne
  /\ \A p \in Stoppers : pc[p] \in StopBody => stopper = p
  /\ \A p \in Stoppers : stopper = p => pc[p] \in StopBody \cup {"done"}

\* How far Stop has come says what it has done.
StopProgress ==
  /\ \A p \in Stoppers :
        /\ pc[p] \in {"cancel", "close"} => chanOpen
        /\ pc[p] \in {"cancel", "close", "conn", "remove"} => ~removed
        /\ pc[p] \in {"close", "conn", "remove", "disarm"} => cancelled
  /\ removed => cancelled /\ active = 0

\* Until the reader is past TrackContact, nothing escaped removeCb; afterwards
\* at most the contact of the message in hand did.
OneLateContact ==
  removed =>
    /\ \A u, v \in uids \ removedUids : u = v
    /\ stopper = Reader => uids \subseteq removedUids
    /\ pc[Reader] \in {"wait", "store", "reset", "contact"} => uids \subseteq removedUids

\* A closeIdle that will find lastActivity fresh leaves a timer behind.
FreshIsRearmed ==
  active = 1 /\ idle = "load" /\ fresh => timerArmed \/ pc[Reader] = "reset"

IInv == /\ TypeOK
        /\ OpenWhileActive
        /\ OneStopper
        /\ StopProgress
        /\ OneLateContact
        /\ IdleWatched
        /\ FreshIsRearmed

-----------------------------------------------------------------------------
(* Types. *)

\* Moving the reader keeps the program counters typed and moves no one else.
LEMMA GotoReader ==
  ASSUME PcOK, NEW l \in ReaderPc, Goto(Reader, l)
  PROVE  /\ PcOK'
         /\ pc'[Reader] = l
         /\ \A p \in Procs \ {Reader} : pc'[p] = pc[p]
<1>1. pc' = [pc EXCEPT ![Reader] = l]
  BY DEF Goto
<1>2. pc' \in [Procs -> ReaderPc \cup WriterPc \cup SenderPc]
  BY <1>1 DEF PcOK
<1>3. pc'[Reader] = l /\ \A p \in Procs \ {Reader} : pc'[p] = pc[p]
  BY <1>1 DEF PcOK, Procs, Stoppers
<1>4. pc'[Writer] \in WriterPc
  BY <1>3 DEF PcOK, Procs, Stoppers, Reader, Writer
<1>5. \A s \in Senders : pc'[s] \in SenderPc
  BY <1>3, ConnAssumption DEF ConnAssumption, PcOK, Procs
<1> QED
  BY <1>2, <1>3, <1>4, <1>5 DEF PcOK

\* The same for the writer,
LEMMA GotoWriter ==
  ASSUME PcOK, NEW l \in WriterPc, Goto(Writer, l)
  PROVE  /\ PcOK'
         /\ pc'[Writer] = l
         /\ \A p \in Procs \ {Writer} : pc'[p] = pc[p]
<1>1. pc' = [pc EXCEPT ![Writer] = l]
  BY DEF Goto
<1>2. pc' \in [Procs -> ReaderPc \cup WriterPc \cup SenderPc]
  BY <1>1 DEF PcOK
<1>3. pc'[Writer] = l /\ \A p \in Procs \ {Writer} : pc'[p] = pc[p]
  BY <1>1 DEF PcOK, Procs, Stoppers
<1>4. pc'[Reader] \in ReaderPc
  BY <1>3 DEF PcOK, Procs, Stoppers, Reader, Writer
<1>5. \A s \in Senders : pc'[s] \in SenderPc
  BY <1>3, ConnAssumption DEF ConnAssumption, PcOK, Procs
<1> QED
  BY <1>2, <1>3, <1>4, <1>5 DEF PcOK

\* for a sender,
LEMMA GotoSender ==
  ASSUME PcOK, NEW s \in Senders, NEW l \in SenderPc, Goto(s, l)
  PROVE  /\ PcOK'
         /\ pc'[s] = l
         /\ \A p \in Procs \ {s} : pc'[p] = pc[p]
<1>1. pc' = [pc EXCEPT ![s] = l]
  BY DEF Goto
<1>2. pc' \in [Procs -> ReaderPc \cup WriterPc \cup SenderPc]
  BY <1>1 DEF PcOK
<1>3. pc'[s] = l /\ \A p \in Procs \ {s} : pc'[p] = pc[p]
  BY <1>1 DEF PcOK, Procs
<1>4. pc'[Reader] \in ReaderPc /\ pc'[Writer] \in WriterPc
  BY <1>3, ConnAssumption DEF ConnAssumption, PcOK, Procs, Stoppers
<1>5. \A t \in Senders : pc'[t] \in SenderPc
  BY <1>3 DEF PcOK, Procs
<1> QED
  BY <1>2, <1>3, <1>4, <1>5 DEF PcOK

\* and for whoever runs Stop.
LEMMA GotoStopper ==
  ASSUME PcOK, NEW p \in Stoppers, NEW l \in StopBody \cup {"done"}, Goto(p, l)
  PROVE  /\ PcOK'
         /\ pc'[p] = l
         /\ \A q \in Procs \ {p} : pc'[q] = pc[q]
<1>1. CASE p = Reader
  BY <1>1, GotoReader DEF ReaderPc
<1>2. CASE p = Writer
  BY <1>2, GotoWriter DEF WriterPc
<1> QED
  BY <1>1, <1>2 DEF Stoppers

\* tryAddPacket's select keeps sendChan within its capacity.
LEMMA EnqueueType ==
  ASSUME QueueOK, NEW p \in {Reader} \cup Senders, Enqueue(p),
         UNCHANGED <<wmsg, written>>
  PROVE  QueueOK'
<1>1. <<p, sent[p]>> \in Packets
  BY DEF QueueOK, Packets
<1>2. chan' \in Seq(Packets) /\ Len(chan') <= Cap
  BY <1>1, ConnAssumption DEF ConnAssumption, QueueOK, Enqueue
<1>3. sent' \in [{Reader} \cup Senders -> Nat]
  BY DEF QueueOK, Enqueue
<1> QED
  BY <1>2, <1>3 DEF QueueOK

\* Every step of the handler keeps the types.
LEMMA TypeStep == TypeOK /\ [Next]_vars => TypeOK'
<1> SUFFICES ASSUME TypeOK, [Next]_vars PROVE TypeOK'
  OBVIOUS
<1> USE DEF TypeOK
<1>1. CASE ReadLoop
  <2>1. PcOK'
    BY <1>1, GotoReader DEF ReadLoop, ReaderPc, WriterPc, SenderPc, StopBody
  <2>2. QueueOK'
    BY <1>1 DEF ReadLoop, QueueOK, sendVars, ioVars
  <2>3. DataOK'
    BY <1>1 DEF ReadLoop, DataOK, stopVars, connVars, timerVars, ioVars
  <2> QED
    BY <2>1, <2>2, <2>3
<1>2. CASE ReadMessage
  <2>1. PcOK'
    BY <1>2, GotoReader DEF ReadMessage, ReaderPc, WriterPc, SenderPc, StopBody
  <2>2. QueueOK'
    BY <1>2 DEF ReadMessage, QueueOK, sendVars, ioVars
  <2>3. DataOK'
    BY <1>2 DEF ReadMessage, DataOK, stopVars, connVars, timerVars, ioVars
  <2> QED
    BY <2>1, <2>2, <2>3
<1>3. CASE ReadFails
  <2>1. PcOK'
    BY <1>3, GotoReader DEF ReadFails, ReaderPc, WriterPc, SenderPc, StopBody
  <2>2. QueueOK'
    BY <1>3 DEF ReadFails, QueueOK, sendVars, ioVars
  <2>3. DataOK'
    BY <1>3 DEF ReadFails, DataOK, stopVars, connVars, timerVars, ioVars
  <2> QED
    BY <2>1, <2>2, <2>3
<1>4. CASE StoreActivity
  <2>1. PcOK'
    BY <1>4, GotoReader DEF StoreActivity, ReaderPc, WriterPc, SenderPc, StopBody
  <2>2. QueueOK'
    BY <1>4 DEF StoreActivity, QueueOK, sendVars, ioVars
  <2>3. DataOK'
    BY <1>4 DEF StoreActivity, DataOK, stopVars, connVars, timerVars, ioVars
  <2> QED
    BY <2>1, <2>2, <2>3
<1>5. CASE ResetTimer
  <2>1. PcOK'
    BY <1>5, GotoReader DEF ResetTimer, ReaderPc, WriterPc, SenderPc, StopBody
  <2>2. QueueOK'
    BY <1>5 DEF ResetTimer, QueueOK, sendVars, ioVars
  <2>3. DataOK'
    BY <1>5 DEF ResetTimer, DataOK, stopVars, connVars, timerVars, ioVars
  <2> QED
    BY <2>1, <2>2, <2>3
<1>6. CASE TrackContact
  <2>1. PcOK'
    BY <1>6, GotoReader DEF TrackContact, ReaderPc, WriterPc, SenderPc, StopBody
  <2>2. QueueOK'
    BY <1>6 DEF TrackContact, QueueOK, sendVars, ioVars
  <2>3. DataOK'
    <3>1. rmsg[1] = "contact" => rmsg[2] \in Uids
      BY DEF DataOK, Messages
    <3>2. uids' \subseteq Uids
      BY <3>1, <1>6 DEF TrackContact, DataOK
    <3> QED
      BY <3>2, <1>6 DEF TrackContact, DataOK, stopVars, connVars, timerVars
  <2> QED
    BY <2>1, <2>2, <2>3
<1>7. CASE DeliverMessage
  <2>1. PcOK'
    BY <1>7, GotoReader DEF DeliverMessage, ReaderPc, WriterPc, SenderPc, StopBody
  <2>2. QueueOK'
    BY <1>7 DEF DeliverMessage, QueueOK, sendVars, ioVars
  <2>3. DataOK'
    BY <1>7 DEF DeliverMessage, DataOK, stopVars, connVars, timerVars, ioVars
  <2> QED
    BY <2>1, <2>2, <2>3
<1>8. CASE ReplyCheck
  <2>1. PcOK'
    BY <1>8, GotoReader DEF ReplyCheck, ReaderPc, WriterPc, SenderPc, StopBody
  <2>2. QueueOK'
    BY <1>8 DEF ReplyCheck, QueueOK, sendVars, ioVars
  <2>3. DataOK'
    BY <1>8 DEF ReplyCheck, DataOK, stopVars, connVars, timerVars, ioVars
  <2> QED
    BY <2>1, <2>2, <2>3
<1>9. CASE Reply
  <2>1. PcOK'
    BY <1>9, GotoReader DEF Reply, ReaderPc, WriterPc, SenderPc, StopBody
  <2>2. QueueOK'
    BY <1>9, EnqueueType DEF Reply, QueueOK, sendVars, ioVars
  <2>3. DataOK'
    BY <1>9 DEF Reply, DataOK, stopVars, connVars, timerVars, ioVars
  <2> QED
    BY <2>1, <2>2, <2>3
<1>10. CASE Recv
  <2>1. PcOK'
    BY <1>10, GotoWriter DEF Recv, ReaderPc, WriterPc, SenderPc, StopBody
  <2>2. QueueOK'
    <3>1. Head(chan) \in Packets /\ Tail(chan) \in Seq(Packets) /\ Len(Tail(chan)) <= Cap
      BY <1>10, ConnAssumption DEF ConnAssumption, Recv, QueueOK
    <3> QED
      BY <3>1, <1>10 DEF Recv, QueueOK, sendVars
  <2>3. DataOK'
    BY <1>10 DEF Recv, DataOK, stopVars, connVars, timerVars, ioVars
  <2> QED
    BY <2>1, <2>2, <2>3
<1>11. CASE RecvClosed
  <2>1. PcOK'
    BY <1>11, GotoWriter DEF RecvClosed, ReaderPc, WriterPc, SenderPc, StopBody
  <2>2. QueueOK'
    BY <1>11 DEF RecvClosed, QueueOK, sendVars, ioVars
  <2>3. DataOK'
    BY <1>11 DEF RecvClosed, DataOK, stopVars, connVars, timerVars, ioVars
  <2> QED
    BY <2>1, <2>2, <2>3
<1>12. CASE WriteFails
  <2>1. PcOK'
    BY <1>12, GotoWriter DEF WriteFails, ReaderPc, WriterPc, SenderPc, StopBody
  <2>2. QueueOK'
    BY <1>12 DEF WriteFails, QueueOK, sendVars, ioVars
  <2>3. DataOK'
    BY <1>12 DEF WriteFails, DataOK, stopVars, connVars, timerVars, ioVars
  <2> QED
    BY <2>1, <2>2, <2>3
<1>13. CASE WriteOk
  <2>1. PcOK'
    BY <1>13, GotoWriter DEF WriteOk, ReaderPc, WriterPc, SenderPc, StopBody
  <2>2. QueueOK'
    BY <1>13 DEF WriteOk, QueueOK, sendVars, ioVars
  <2>3. DataOK'
    BY <1>13 DEF WriteOk, DataOK, stopVars, connVars, timerVars, ioVars
  <2> QED
    BY <2>1, <2>2, <2>3
<1>14. ASSUME NEW p \in Stoppers, StopSwap(p) PROVE TypeOK'
  <2>1. PcOK'
    BY <1>14, GotoStopper DEF StopSwap, ReaderPc, WriterPc, SenderPc, StopBody
  <2>2. QueueOK'
    BY <1>14 DEF StopSwap, QueueOK, sendVars, ioVars
  <2>3. DataOK'
    BY <1>14 DEF StopSwap, DataOK, stopVars, connVars, timerVars, ioVars
  <2> QED
    BY <2>1, <2>2, <2>3
<1>15. ASSUME NEW p \in Stoppers, StopCancel(p) PROVE TypeOK'
  <2>1. PcOK'
    BY <1>15, GotoStopper DEF StopCancel, ReaderPc, WriterPc, SenderPc, StopBody
  <2>2. QueueOK'
    BY <1>15 DEF StopCancel, QueueOK, sendVars, ioVars
  <2>3. DataOK'
    BY <1>15 DEF StopCancel, DataOK, stopVars, connVars, timerVars, ioVars
  <2> QED
    BY <2>1, <2>2, <2>3
<1>16. ASSUME NEW p \in Stoppers, StopCloseChan(p) PROVE TypeOK'
  <2>1. PcOK'
    BY <1>16, GotoStopper DEF StopCloseChan, ReaderPc, WriterPc, SenderPc, StopBody
  <2>2. QueueOK'
    BY <1>16 DEF StopCloseChan, QueueOK, sendVars, ioVars
  <2>3. DataOK'
    BY <1>16 DEF StopCloseChan, DataOK, stopVars, connVars, timerVars, ioVars
  <2> QED
    BY <2>1, <2>2, <2>3
<1>17. ASSUME NEW p \in Stoppers, StopCloseConn(p) PROVE TypeOK'
  <2>1. PcOK'
    BY <1>17, GotoStopper DEF StopCloseConn, ReaderPc, WriterPc, SenderPc, StopBody
  <2>2. QueueOK'
    BY <1>17 DEF StopCloseConn, QueueOK, sendVars, ioVars
  <2>3. DataOK'
    BY <1>17 DEF StopCloseConn, DataOK, stopVars, connVars, timerVars, ioVars
  <2> QED
    BY <2>1, <2>2, <2>3
<1>18. ASSUME NEW p \in Stoppers, StopRemove(p) PROVE TypeOK'
  <2>1. PcOK'
    BY <1>18, GotoStopper DEF StopRemove, ReaderPc, WriterPc, SenderPc, StopBody
  <2>2. QueueOK'
    BY <1>18 DEF StopRemove, QueueOK, sendVars, ioVars
  <2>3. DataOK'
    BY <1>18 DEF StopRemove, DataOK, stopVars, connVars, timerVars, ioVars
  <2> QED
    BY <2>1, <2>2, <2>3
<1>19. ASSUME NEW p \in Stoppers, StopDisarm(p) PROVE TypeOK'
  <2>1. PcOK'
    BY <1>19, GotoStopper DEF StopDisarm, ReaderPc, WriterPc, SenderPc, StopBody
  <2>2. QueueOK'
    BY <1>19 DEF StopDisarm, QueueOK, sendVars, ioVars
  <2>3. DataOK'
    BY <1>19 DEF StopDisarm, DataOK, stopVars, connVars, timerVars, ioVars
  <2> QED
    BY <2>1, <2>2, <2>3
<1>20. ASSUME NEW s \in Senders, CheckActive(s) PROVE TypeOK'
  <2>1. PcOK'
    BY <1>20, GotoSender DEF CheckActive, ReaderPc, WriterPc, SenderPc, StopBody
  <2>2. QueueOK'
    BY <1>20 DEF CheckActive, QueueOK, sendVars, ioVars
  <2>3. DataOK'
    BY <1>20 DEF CheckActive, DataOK, stopVars, connVars, timerVars, ioVars
  <2> QED
    BY <2>1, <2>2, <2>3
<1>21. ASSUME NEW s \in Senders, Push(s) PROVE TypeOK'
  <2>1. PcOK'
    BY <1>21, GotoSender DEF Push, ReaderPc, WriterPc, SenderPc, StopBody
  <2>2. QueueOK'
    BY <1>21, EnqueueType DEF Push, ioVars
  <2>3. DataOK'
    BY <1>21 DEF Push, DataOK, stopVars, connVars, timerVars, ioVars
  <2> QED
    BY <2>1, <2>2, <2>3
<1>22. ASSUME NEW s \in Senders, PushPanics(s) PROVE TypeOK'
  <2>1. PcOK'
    BY <1>22, GotoSender DEF PushPanics, ReaderPc, WriterPc, SenderPc, StopBody
  <2>2. QueueOK'
    BY <1>22 DEF PushPanics, QueueOK, sendVars, ioVars
  <2>3. DataOK'
    BY <1>22 DEF PushPanics, DataOK, stopVars, connVars, timerVars, ioVars
  <2> QED
    BY <2>1, <2>2, <2>3
<1>23. CASE TimerFires
  BY <1>23 DEF TimerFires, PcOK, QueueOK, DataOK, stopVars, sendVars, connVars, timerVars, ioVars
<1>24. CASE IdleLoad
  BY <1>24 DEF IdleLoad, PcOK, QueueOK, DataOK, stopVars, sendVars, connVars, timerVars, ioVars
<1>25. CASE IdleClose
  BY <1>25 DEF IdleClose, PcOK, QueueOK, DataOK, stopVars, sendVars, connVars, timerVars, ioVars
<1>26. CASE Arrive
  BY <1>26 DEF Arrive, PcOK, QueueOK, DataOK, stopVars, sendVars, connVars, timerVars, ioVars
<1>27. CASE PeerCloses
  BY <1>27 DEF PeerCloses, PcOK, QueueOK, DataOK, stopVars, sendVars, connVars, timerVars, ioVars
<1>28. CASE UNCHANGED vars
  BY <1>28 DEF vars, PcOK, QueueOK, DataOK, stopVars, sendVars, connVars, timerVars, ioVars
<1> QED
  BY <1>1, <1>2, <1>3, <1>4, <1>5, <1>6, <1>7, <1>8, <1>9, <1>10,
     <1>11, <1>12, <1>13, <1>14, <1>15, <1>16, <1>17, <1>18, <1>19, <1>20,
     <1>21, <1>22, <1>23, <1>24, <1>25, <1>26, <1>27, <1>28
     DEF Next, ReaderStep, WriterStep, StopStep, SenderStep, IdleStep

-----------------------------------------------------------------------------
(* The inductive invariant. *)

\* Every step of the handler keeps the invariant.
LEMMA InvStep == IInv /\ [Next]_vars => IInv'
<1> SUFFICES ASSUME IInv, [Next]_vars PROVE IInv'
  OBVIOUS
<1>t. TypeOK /\ TypeOK'
  BY TypeStep DEF IInv
<1>p. Reader \in Stoppers /\ Writer \in Stoppers /\ Reader /= Writer
      /\ NoOne \notin Stoppers /\ Stoppers \cap Senders = {} /\ Procs = Stoppers \cup Senders
      /\ \A p \in Stoppers : p = Reader \/ p = Writer
  BY ConnAssumption DEF ConnAssumption, Stoppers, Reader, Writer, NoOne, Procs
<1> USE DEF OpenWhileActive, OneStopper, StopProgress, OneLateContact, IdleWatched,
            FreshIsRearmed, Crashed
<1>1. CASE ReadLoop /\ ~Crashed
  BY <1>1, <1>t, <1>p, GotoReader
     DEF ReadLoop, IInv, TypeOK, PcOK, DataOK, ReaderPc, WriterPc, SenderPc, stopVars,
         connVars, timerVars, ioVars, StopBody
<1>2. CASE ReadMessage /\ ~Crashed
  BY <1>2, <1>t, <1>p, GotoReader
     DEF ReadMessage, IInv, TypeOK, PcOK, DataOK, ReaderPc, WriterPc, SenderPc,
         stopVars, connVars, timerVars, ioVars, StopBody
<1>3. CASE ReadFails /\ ~Crashed
  BY <1>3, <1>t, <1>p, GotoReader
     DEF ReadFails, IInv, TypeOK, PcOK, DataOK, ReaderPc, WriterPc, SenderPc, stopVars,
         connVars, timerVars, ioVars, StopBody
<1>4. CASE StoreActivity /\ ~Crashed
  BY <1>4, <1>t, <1>p, GotoReader
     DEF StoreActivity, IInv, TypeOK, PcOK, DataOK, ReaderPc, WriterPc, SenderPc,
         stopVars, connVars, timerVars, ioVars, StopBody
<1>5. CASE ResetTimer /\ ~Crashed
  BY <1>5, <1>t, <1>p, GotoReader
     DEF ResetTimer, IInv, TypeOK, PcOK, DataOK, ReaderPc, WriterPc, SenderPc, stopVars,
         connVars, timerVars, ioVars, StopBody
<1>6. CASE TrackContact /\ ~Crashed
  BY <1>6, <1>t, <1>p, GotoReader
     DEF TrackContact, IInv, TypeOK, PcOK, DataOK, ReaderPc, WriterPc, SenderPc,
         stopVars, connVars, timerVars, ioVars, StopBody
<1>7. CASE DeliverMessage /\ ~Crashed
  BY <1>7, <1>t, <1>p, GotoReader
     DEF DeliverMessage, IInv, TypeOK, PcOK, DataOK, ReaderPc, WriterPc, SenderPc,
         stopVars, connVars, timerVars, ioVars, StopBody
<1>8. CASE ReplyCheck /\ ~Crashed
  BY <1>8, <1>t, <1>p, GotoReader
     DEF ReplyCheck, IInv, TypeOK, PcOK, DataOK, ReaderPc, WriterPc, SenderPc, stopVars,
         connVars, timerVars, ioVars, StopBody
<1>9. CASE Reply /\ ~Crashed
  BY <1>9, <1>t, <1>p, GotoReader
     DEF Reply, IInv, TypeOK, PcOK, DataOK, ReaderPc, WriterPc, SenderPc, stopVars,
         connVars, timerVars, ioVars, StopBody
<1>10. CASE Recv /\ ~Crashed
  BY <1>10, <1>t, <1>p, GotoWriter
     DEF Recv, IInv, TypeOK, PcOK, DataOK, ReaderPc, WriterPc, SenderPc, stopVars,
         connVars, timerVars, ioVars, StopBody
<1>11. CASE RecvClosed /\ ~Crashed
  BY <1>11, <1>t, <1>p, GotoWriter
     DEF RecvClosed, IInv, TypeOK, PcOK, DataOK, ReaderPc, WriterPc, SenderPc, stopVars,
         connVars, timerVars, ioVars, StopBody
<1>12. CASE WriteFails /\ ~Crashed
  BY <1>12, <1>t, <1>p, GotoWriter
     DEF WriteFails, IInv, TypeOK, PcOK, DataOK, ReaderPc, WriterPc, SenderPc, stopVars,
         connVars, timerVars, ioVars, StopBody
<1>13. CASE WriteOk /\ ~Crashed
  BY <1>13, <1>t, <1>p, GotoWriter
     DEF WriteOk, IInv, TypeOK, PcOK, DataOK, ReaderPc, WriterPc, SenderPc, stopVars,
         connVars, timerVars, ioVars, StopBody
<1>14. ASSUME NEW p \in Stoppers, StopSwap(p) PROVE IInv'
  BY <1>14, <1>t, <1>p, GotoStopper
     DEF StopSwap, IInv, TypeOK, PcOK, DataOK, ReaderPc, WriterPc, SenderPc, stopVars,
         connVars, timerVars, ioVars, StopBody
<1>15. ASSUME NEW p \in Stoppers, StopCancel(p) PROVE IInv'
  BY <1>15, <1>t, <1>p, GotoStopper
     DEF StopCancel, IInv, TypeOK, PcOK, DataOK, ReaderPc, WriterPc, SenderPc, stopVars,
         connVars, timerVars, ioVars, StopBody
<1>16. ASSUME NEW p \in Stoppers, StopCloseChan(p) PROVE IInv'
  BY <1>16, <1>t, <1>p, GotoStopper
     DEF StopCloseChan, IInv, TypeOK, PcOK, DataOK, ReaderPc, WriterPc, SenderPc,
         stopVars, connVars, timerVars, ioVars, StopBody
<1>17. ASSUME NEW p \in Stoppers, StopCloseConn(p) PROVE IInv'
  BY <1>17, <1>t, <1>p, GotoStopper
     DEF StopCloseConn, IInv, TypeOK, PcOK, DataOK, ReaderPc, WriterPc, SenderPc,
         stopVars, connVars, timerVars, ioVars, StopBody
<1>18. ASSUME NEW p \in Stoppers, StopRemove(p) PROVE IInv'
  BY <1>18, <1>t, <1>p, GotoStopper
     DEF StopRemove, IInv, TypeOK, PcOK, DataOK, ReaderPc, WriterPc, SenderPc, stopVars,
         connVars, timerVars, ioVars, StopBody
<1>19. ASSUME NEW p \in Stoppers, StopDisarm(p) PROVE IInv'
  BY <1>19, <1>t, <1>p, GotoStopper
     DEF StopDisarm, IInv, TypeOK, PcOK, DataOK, ReaderPc, WriterPc, SenderPc, stopVars,
         connVars, timerVars, ioVars, StopBody
<1>20. ASSUME NEW s \in Senders, CheckActive(s) PROVE IInv'
  BY <1>20, <1>t, <1>p, GotoSender
     DEF CheckActive, IInv, TypeOK, PcOK, DataOK, ReaderPc, WriterPc, SenderPc,
         stopVars, connVars, timerVars, ioVars, StopBody
<1>21. ASSUME NEW s \in Senders, Push(s) PROVE IInv'
  BY <1>21, <1>t, <1>p, GotoSender
     DEF Push, IInv, TypeOK, PcOK, DataOK, ReaderPc, WriterPc, SenderPc, stopVars,
         connVars, timerVars, ioVars, StopBody
<1>22. ASSUME NEW s \in Senders, PushPanics(s) PROVE IInv'
  BY <1>22, <1>t, <1>p, GotoSender
     DEF PushPanics, IInv, TypeOK, PcOK, DataOK, ReaderPc, WriterPc, SenderPc, stopVars,
         connVars, timerVars, ioVars, StopBody
<1>23. CASE TimerFires
  BY <1>23, <1>t, <1>p DEF TimerFires, IInv, stopVars, connVars, timerVars, ioVars, StopBody
<1>24. CASE IdleLoad
  BY <1>24, <1>t, <1>p DEF IdleLoad, IInv, stopVars, connVars, timerVars, ioVars, StopBody
<1>25. CASE IdleClose
  BY <1>25, <1>t, <1>p DEF IdleClose, IInv, stopVars, connVars, timerVars, ioVars, StopBody
<1>26. CASE Arrive
  BY <1>26, <1>t, <1>p DEF Arrive, IInv, stopVars, connVars, timerVars, ioVars, StopBody
<1>27. CASE PeerCloses
  BY <1>27, <1>t, <1>p DEF PeerCloses, IInv, stopVars, connVars, timerVars, ioVars, StopBody
<1>28. CASE UNCHANGED vars
  BY <1>28, <1>t DEF IInv, vars, stopVars, connVars, timerVars, ioVars, StopBody
<1> QED
  BY <1>1, <1>2, <1>3, <1>4, <1>5, <1>6, <1>7, <1>8, <1>9, <1>10,
     <1>11, <1>12, <1>13, <1>14, <1>15, <1>16, <1>17, <1>18, <1>19, <1>20,
     <1>21, <1>22, <1>23, <1>24, <1>25, <1>26, <1>27, <1>28
     DEF Next, ReaderStep, WriterStep, StopStep, SenderStep, IdleStep

\* A handler fresh from NewConnClientHandler satisfies it.
LEMMA InitInv == Init => IInv
<1> SUFFICES ASSUME Init PROVE IInv
  OBVIOUS
<1>p. /\ Reader \in Stoppers /\ Writer \in Stoppers /\ Reader /= Writer
      /\ NoOne \notin Stoppers /\ Stoppers \cap Senders = {}
      /\ Procs = Stoppers \cup Senders
      /\ \A p \in Stoppers : p = Reader \/ p = Writer
  BY ConnAssumption DEF ConnAssumption, Stoppers, Reader, Writer, NoOne, Procs
<1>1. /\ pc \in [Procs -> {"read", "recv", "idle"}]
      /\ pc[Reader] = "read" /\ pc[Writer] = "recv"
      /\ \A s \in Senders : pc[s] = "idle"
  BY <1>p DEF Init
<1>2. TypeOK
  <2>1. PcOK
    BY <1>1 DEF PcOK, ReaderPc, WriterPc, SenderPc
  <2>2. QueueOK
    BY ConnAssumption DEF ConnAssumption, Init, QueueOK
  <2>3. DataOK
    BY DEF Init, DataOK, Messages, NoOne
  <2> QED
    BY <2>1, <2>2, <2>3 DEF TypeOK
<1>3. OpenWhileActive
  BY <1>1 DEF Init, OpenWhileActive, Crashed
<1>4. OneStopper /\ StopProgress
  BY <1>1, <1>p DEF Init, OneStopper, StopProgress, StopBody
<1>5. OneLateContact /\ IdleWatched /\ FreshIsRearmed
  BY DEF Init, OneLateContact, IdleWatched, FreshIsRearmed
<1> QED
  BY <1>2, <1>3, <1>4, <1>5 DEF IInv

\* The inductive invariant holds of every handler at all times.
THEOREM Invariance == Spec => []IInv
BY InitInv, InvStep, PTL DEF Spec

\* Every variable keeps its type, and sendChan never exceeds its capacity,
\* for every number of senders, contacts, reads and sends.
THEOREM TypeCorrect == Spec => []TypeOK
<1>1. IInv => TypeOK
  BY DEF IInv
<1> QED
  BY <1>1, Invariance, PTL

\* IsActive() = 1 implies that sendChan is open and Stop has not begun: the
\* guarantee tryAddPacket builds on.
THEOREM ActiveIsOpen == Spec => []OpenWhileActive
<1>1. IInv => OpenWhileActive
  BY DEF IInv
<1> QED
  BY <1>1, Invariance, PTL

\* However reader, writer and panics meet in Stop, sendChan is closed once
\* and removeCb runs once.
THEOREM StopsOnce == Spec => []StopOnce
<1>1. IInv => StopOnce
  BY DEF IInv, OneStopper, StopProgress, StopOnce
<1> QED
  BY <1>1, Invariance, PTL

\* removeCb misses at most one contact of the connection, and none when the
\* reader stopped.
THEOREM CoversContacts == Spec => []ContactsCovered
<1>1. IInv => ContactsCovered
  BY DEF IInv, OneLateContact, ContactsCovered
<1> QED
  BY <1>1, Invariance, PTL

\* No open connection is ever left without an idle watch.
THEOREM AlwaysWatched == Spec => []IdleWatched
<1>1. IInv => IdleWatched
  BY DEF IInv
<1> QED
  BY <1>1, Invariance, PTL

-----------------------------------------------------------------------------
(* The sending side. *)

\* The writer holds a packet while it writes one. Nobody offers more than
\* MaxSends packets, and the reader no more than it has read.
WriterHolds ==
  /\ pc[Writer] = "write" => Len(wmsg) = 1
  /\ pc[Writer] # "write" => wmsg = <<>>

Answering == {"store", "reset", "contact", "deliver", "reply", "push"}

SerialsFit ==
  /\ reads <= MaxReads /\ sent[Reader] + inbuf <= reads
  /\ pc[Reader] \in Answering => sent[Reader] + inbuf < reads
  /\ \A s \in Senders : sent[s] <= MaxSends /\ (pc[s] = "push" => sent[s] < MaxSends)

CountsFit == WriterHolds /\ SerialsFit

\* Every step keeps them.
LEMMA CountsStep == TypeOK /\ TypeOK' /\ CountsFit /\ [Next]_vars => CountsFit'
<1> SUFFICES ASSUME TypeOK, TypeOK', CountsFit, [Next]_vars PROVE CountsFit'
  OBVIOUS
<1>t. TypeOK /\ TypeOK'
  OBVIOUS
<1>p. Reader \in Stoppers /\ Writer \in Stoppers /\ Reader /= Writer
      /\ Stoppers \cap Senders = {} /\ Procs = Stoppers \cup Senders
      /\ MaxSends \in Nat /\ MaxReads \in Nat
  BY ConnAssumption DEF ConnAssumption, Stoppers, Reader, Writer, Procs
<1> USE DEF CountsFit, WriterHolds, SerialsFit, Answering
<1>1. CASE ReadLoop
  BY <1>1, <1>t, <1>p, GotoReader
     DEF ReadLoop, TypeOK, PcOK, QueueOK, DataOK, ReaderPc, WriterPc, SenderPc, StopBody, stopVars, sendVars,
         connVars, timerVars, ioVars
<1>2. CASE ReadMessage
  BY <1>2, <1>t, <1>p, GotoReader
     DEF ReadMessage, TypeOK, PcOK, QueueOK, DataOK, ReaderPc, WriterPc, SenderPc, StopBody, stopVars, sendVars,
         connVars, timerVars, ioVars
<1>3. CASE ReadFails
  BY <1>3, <1>t, <1>p, GotoReader
     DEF ReadFails, TypeOK, PcOK, QueueOK, DataOK, ReaderPc, WriterPc, SenderPc, StopBody, stopVars, sendVars,
         connVars, timerVars, ioVars
<1>4. CASE StoreActivity
  BY <1>4, <1>t, <1>p, GotoReader
     DEF StoreActivity, TypeOK, PcOK, QueueOK, DataOK, ReaderPc, WriterPc, SenderPc, StopBody, stopVars, sendVars,
         connVars, timerVars, ioVars
<1>5. CASE ResetTimer
  BY <1>5, <1>t, <1>p, GotoReader
     DEF ResetTimer, TypeOK, PcOK, QueueOK, DataOK, ReaderPc, WriterPc, SenderPc, StopBody, stopVars, sendVars,
         connVars, timerVars, ioVars
<1>6. CASE TrackContact
  BY <1>6, <1>t, <1>p, GotoReader
     DEF TrackContact, TypeOK, PcOK, QueueOK, DataOK, ReaderPc, WriterPc, SenderPc, StopBody, stopVars, sendVars,
         connVars, timerVars, ioVars
<1>7. CASE DeliverMessage
  BY <1>7, <1>t, <1>p, GotoReader
     DEF DeliverMessage, TypeOK, PcOK, QueueOK, DataOK, ReaderPc, WriterPc, SenderPc, StopBody, stopVars, sendVars,
         connVars, timerVars, ioVars
<1>8. CASE ReplyCheck
  BY <1>8, <1>t, <1>p, GotoReader
     DEF ReplyCheck, TypeOK, PcOK, QueueOK, DataOK, ReaderPc, WriterPc, SenderPc, StopBody, stopVars, sendVars,
         connVars, timerVars, ioVars
<1>9. CASE Reply
  <2>1. /\ pc[Reader] = "push" /\ pc'[Reader] \in {"read", "stop"}
        /\ \A p \in Procs \ {Reader} : pc'[p] = pc[p]
    BY <1>9, <1>t, GotoReader DEF Reply, TypeOK, ReaderPc, StopBody
  <2>2. /\ wmsg' = wmsg /\ reads' = reads /\ inbuf' = inbuf
        /\ sent' = sent \/ sent' = [sent EXCEPT ![Reader] = @ + 1]
    BY <1>9 DEF Reply, Enqueue, sendVars, connVars, ioVars
  <2>3. /\ sent \in [{Reader} \cup Senders -> Nat] /\ inbuf \in Nat /\ reads \in Nat /\ Reader \notin Senders
    BY <1>t, ConnAssumption DEF ConnAssumption, TypeOK, QueueOK, DataOK
  <2>4. sent'[Reader] \in {sent[Reader], sent[Reader] + 1} /\ \A s \in Senders : sent'[s] = sent[s]
    BY <2>2, <2>3
  <2>5. sent'[Reader] + inbuf' <= reads'
    BY <2>1, <2>2, <2>3, <2>4
  <2>6. WriterHolds'
    BY <2>1, <2>2, <1>p
  <2>7. \A s \in Senders : sent'[s] <= MaxSends /\ (pc'[s] = "push" => sent'[s] < MaxSends)
    BY <2>1, <2>4, <1>p
  <2> QED
    BY <2>1, <2>2, <2>5, <2>6, <2>7
<1>10. CASE Recv
  BY <1>10, <1>t, <1>p, GotoWriter
     DEF Recv, TypeOK, PcOK, QueueOK, DataOK, ReaderPc, WriterPc, SenderPc, StopBody, stopVars, sendVars,
         connVars, timerVars, ioVars
<1>11. CASE RecvClosed
  BY <1>11, <1>t, <1>p, GotoWriter
     DEF RecvClosed, TypeOK, PcOK, QueueOK, DataOK, ReaderPc, WriterPc, SenderPc, StopBody, stopVars, sendVars,
         connVars, timerVars, ioVars
<1>12. CASE WriteFails
  BY <1>12, <1>t, <1>p, GotoWriter
     DEF WriteFails, TypeOK, PcOK, QueueOK, DataOK, ReaderPc, WriterPc, SenderPc, StopBody, stopVars, sendVars,
         connVars, timerVars, ioVars
<1>13. CASE WriteOk
  BY <1>13, <1>t, <1>p, GotoWriter
     DEF WriteOk, TypeOK, PcOK, QueueOK, DataOK, ReaderPc, WriterPc, SenderPc, StopBody, stopVars, sendVars,
         connVars, timerVars, ioVars
<1>14. ASSUME NEW p \in Stoppers, StopSwap(p) PROVE CountsFit'
  BY <1>14, <1>t, <1>p, GotoStopper
     DEF StopSwap, TypeOK, PcOK, QueueOK, DataOK, ReaderPc, WriterPc, SenderPc, StopBody, stopVars, sendVars,
         connVars, timerVars, ioVars
<1>15. ASSUME NEW p \in Stoppers, StopCancel(p) PROVE CountsFit'
  BY <1>15, <1>t, <1>p, GotoStopper
     DEF StopCancel, TypeOK, PcOK, QueueOK, DataOK, ReaderPc, WriterPc, SenderPc, StopBody, stopVars, sendVars,
         connVars, timerVars, ioVars
<1>16. ASSUME NEW p \in Stoppers, StopCloseChan(p) PROVE CountsFit'
  BY <1>16, <1>t, <1>p, GotoStopper
     DEF StopCloseChan, TypeOK, PcOK, QueueOK, DataOK, ReaderPc, WriterPc, SenderPc, StopBody, stopVars, sendVars,
         connVars, timerVars, ioVars
<1>17. ASSUME NEW p \in Stoppers, StopCloseConn(p) PROVE CountsFit'
  BY <1>17, <1>t, <1>p, GotoStopper
     DEF StopCloseConn, TypeOK, PcOK, QueueOK, DataOK, ReaderPc, WriterPc, SenderPc, StopBody, stopVars, sendVars,
         connVars, timerVars, ioVars
<1>18. ASSUME NEW p \in Stoppers, StopRemove(p) PROVE CountsFit'
  BY <1>18, <1>t, <1>p, GotoStopper
     DEF StopRemove, TypeOK, PcOK, QueueOK, DataOK, ReaderPc, WriterPc, SenderPc, StopBody, stopVars, sendVars,
         connVars, timerVars, ioVars
<1>19. ASSUME NEW p \in Stoppers, StopDisarm(p) PROVE CountsFit'
  BY <1>19, <1>t, <1>p, GotoStopper
     DEF StopDisarm, TypeOK, PcOK, QueueOK, DataOK, ReaderPc, WriterPc, SenderPc, StopBody, stopVars, sendVars,
         connVars, timerVars, ioVars
<1>20. ASSUME NEW s \in Senders, CheckActive(s) PROVE CountsFit'
  BY <1>20, <1>t, <1>p, GotoSender
     DEF CheckActive, TypeOK, PcOK, QueueOK, DataOK, ReaderPc, WriterPc, SenderPc, StopBody, stopVars, sendVars,
         connVars, timerVars, ioVars
<1>21. ASSUME NEW s \in Senders, Push(s) PROVE CountsFit'
  BY <1>21, <1>t, <1>p, GotoSender
     DEF Push, Enqueue, TypeOK, PcOK, QueueOK, DataOK, ReaderPc, WriterPc, SenderPc, StopBody, stopVars, sendVars,
         connVars, timerVars, ioVars
<1>22. ASSUME NEW s \in Senders, PushPanics(s) PROVE CountsFit'
  BY <1>22, <1>t, <1>p, GotoSender
     DEF PushPanics, TypeOK, PcOK, QueueOK, DataOK, ReaderPc, WriterPc, SenderPc, StopBody, stopVars, sendVars,
         connVars, timerVars, ioVars
<1>23. CASE TimerFires
  BY <1>23, <1>t, <1>p
     DEF TimerFires, TypeOK, PcOK, QueueOK, DataOK, ReaderPc, WriterPc, SenderPc, StopBody, stopVars, sendVars,
         connVars, timerVars, ioVars
<1>24. CASE IdleLoad
  BY <1>24, <1>t, <1>p
     DEF IdleLoad, TypeOK, PcOK, QueueOK, DataOK, ReaderPc, WriterPc, SenderPc, StopBody, stopVars, sendVars,
         connVars, timerVars, ioVars
<1>25. CASE IdleClose
  BY <1>25, <1>t, <1>p
     DEF IdleClose, TypeOK, PcOK, QueueOK, DataOK, ReaderPc, WriterPc, SenderPc, StopBody, stopVars, sendVars,
         connVars, timerVars, ioVars
<1>26. CASE Arrive
  BY <1>26, <1>t, <1>p
     DEF Arrive, TypeOK, PcOK, QueueOK, DataOK, ReaderPc, WriterPc, SenderPc, StopBody, stopVars, sendVars,
         connVars, timerVars, ioVars
<1>27. CASE PeerCloses
  BY <1>27, <1>t, <1>p
     DEF PeerCloses, TypeOK, PcOK, QueueOK, DataOK, ReaderPc, WriterPc, SenderPc, StopBody, stopVars, sendVars,
         connVars, timerVars, ioVars
<1>28. CASE UNCHANGED vars
  BY <1>28, <1>t DEF vars, stopVars, sendVars,
         connVars, timerVars, ioVars
<1> QED
  BY <1>1, <1>2, <1>3, <1>4, <1>5, <1>6, <1>7, <1>8, <1>9, <1>10, <1>11,
     <1>12, <1>13, <1>14, <1>15, <1>16, <1>17, <1>18, <1>19, <1>20, <1>21,
     <1>22, <1>23, <1>24, <1>25, <1>26, <1>27, <1>28
     DEF Next, ReaderStep, WriterStep, StopStep, SenderStep, IdleStep

-----------------------------------------------------------------------------
(* The refinement: what the steps do to the queue of SendQueue. *)

\* What is queued, written and open stays as it is.
Quiet == UNCHANGED <<chan, wmsg, written, chanOpen>>

\* In a fresh handler nothing is queued.
LEMMA QueueInit == Init => CountsFit /\ Queue!Init
<1> SUFFICES ASSUME Init PROVE CountsFit /\ Queue!Init
  OBVIOUS
<1>1. Reader # Writer /\ {Reader, Writer} \cap Senders = {} /\ {Reader, Writer} \cup Senders = Procs
  BY ConnAssumption DEF ConnAssumption, Reader, Writer, Procs, Stoppers
<1>2. pc[Writer] = "recv" /\ pc[Reader] = "read" /\ \A s \in Senders : pc[s] = "idle"
  BY <1>1 DEF Init
<1>3. wmsg = <<>> /\ reads = 0 /\ inbuf = 0 /\ \A p \in {Reader} \cup Senders : sent[p] = 0
  BY DEF Init
<1>4. CountsFit
  BY <1>2, <1>3, ConnAssumption DEF ConnAssumption, CountsFit, WriterHolds, SerialsFit, Answering
<1>5. <<>> \o <<>> = <<>>
  BY EmptySeq, ConcatEmptySeq
<1>6. Queue!Init
  BY <1>5 DEF Init, Queue!Init
<1> QED
  BY <1>4, <1>6

\* The goroutines beside the queue leave it alone.
LEMMA QuietSteps ==
  ASSUME \/ ReadLoop \/ ReadMessage \/ ReadFails \/ StoreActivity \/ ResetTimer \/ TrackContact
         \/ DeliverMessage \/ ReplyCheck \/ RecvClosed
         \/ \E p \in Stoppers : StopSwap(p) \/ StopCancel(p) \/ StopCloseConn(p) \/ StopRemove(p) \/ StopDisarm(p)
         \/ \E s \in Senders : CheckActive(s) \/ PushPanics(s)
         \/ TimerFires \/ IdleStep \/ Arrive \/ PeerCloses \/ UNCHANGED vars
  PROVE  Quiet
<1> USE DEF Quiet, vars, stopVars, sendVars, ioVars, IdleStep
<1>1. CASE ReadLoop
  BY <1>1 DEF ReadLoop
<1>2. CASE ReadMessage
  BY <1>2 DEF ReadMessage
<1>3. CASE ReadFails
  BY <1>3 DEF ReadFails
<1>4. CASE StoreActivity
  BY <1>4 DEF StoreActivity
<1>5. CASE ResetTimer
  BY <1>5 DEF ResetTimer
<1>6. CASE TrackContact
  BY <1>6 DEF TrackContact
<1>7. CASE DeliverMessage
  BY <1>7 DEF DeliverMessage
<1>8. CASE ReplyCheck
  BY <1>8 DEF ReplyCheck
<1>9. CASE RecvClosed
  BY <1>9 DEF RecvClosed
<1>10. CASE TimerFires
  BY <1>10 DEF TimerFires
<1>11. CASE IdleLoad
  BY <1>11 DEF IdleLoad
<1>12. CASE IdleClose
  BY <1>12 DEF IdleClose
<1>13. CASE Arrive
  BY <1>13 DEF Arrive
<1>14. CASE PeerCloses
  BY <1>14 DEF PeerCloses
<1>15. CASE UNCHANGED vars
  BY <1>15
<1>16. ASSUME NEW p \in Stoppers, StopSwap(p) PROVE Quiet
  BY <1>16 DEF StopSwap
<1>17. ASSUME NEW p \in Stoppers, StopCancel(p) PROVE Quiet
  BY <1>17 DEF StopCancel
<1>18. ASSUME NEW p \in Stoppers, StopCloseConn(p) PROVE Quiet
  BY <1>18 DEF StopCloseConn
<1>19. ASSUME NEW p \in Stoppers, StopRemove(p) PROVE Quiet
  BY <1>19 DEF StopRemove
<1>20. ASSUME NEW p \in Stoppers, StopDisarm(p) PROVE Quiet
  BY <1>20 DEF StopDisarm
<1>21. ASSUME NEW s \in Senders, CheckActive(s) PROVE Quiet
  BY <1>21 DEF CheckActive
<1>22. ASSUME NEW s \in Senders, PushPanics(s) PROVE Quiet
  BY <1>22 DEF PushPanics
<1> QED
  BY <1>1, <1>2, <1>3, <1>4, <1>5, <1>6, <1>7, <1>8, <1>9, <1>10, <1>11, <1>12,
     <1>13, <1>14, <1>15, <1>16, <1>17, <1>18, <1>19, <1>20, <1>21, <1>22

\* A quiet step is a stutter of SendQueue.
LEMMA QuietStutters == Quiet => UNCHANGED Queue!qvars
BY DEF Quiet, Queue!qvars

\* What waits, with the packet in the writer's hand.
LEMMA Waiting ==
  ASSUME TypeOK, WriterHolds
  PROVE  /\ wmsg \o chan \in Seq(Packets)
         /\ Len(wmsg \o chan) = Len(wmsg) + Len(chan)
         /\ Len(wmsg) \in {0, 1} /\ Len(chan) \in Nat
BY ConcatProperties, LenProperties DEF TypeOK, QueueOK, WriterHolds

\* One packet more fits a queue that is not full.
LEMMA OneMoreFits == \A a \in {0, 1}, b, c \in Nat : b < c => a + b < c + 1
OBVIOUS

\* A packet that finds room is accepted, and dropped otherwise.
LEMMA EnqueueAccepts ==
  ASSUME TypeOK, WriterHolds, NEW p \in {Reader} \cup Senders, Enqueue(p), chanOpen,
         sent[p] \in 0 .. MaxSends + MaxReads, UNCHANGED <<wmsg, written, chanOpen>>
  PROVE  [Queue!Next]_(Queue!qvars)
<1>1. CASE Len(chan) < Cap
  <2> DEFINE x == <<p, sent[p]>>
  <2>1. x \in Packets /\ x \in OfferedPackets
    BY DEF TypeOK, QueueOK, Packets, OfferedPackets
  <2>2. chan' = Append(chan, x)
    BY <1>1 DEF Enqueue
  <2>3. Append(wmsg \o chan, x) = wmsg \o Append(chan, x)
    <3>1. wmsg \in Seq(Packets) /\ chan \in Seq(Packets) /\ <<x>> \in Seq(Packets)
      BY <2>1 DEF TypeOK, QueueOK
    <3>2. (wmsg \o chan) \o <<x>> = wmsg \o (chan \o <<x>>)
      BY <3>1, ConcatAssociative
    <3>3. Append(chan, x) = chan \o <<x>> /\ Append(wmsg \o chan, x) = (wmsg \o chan) \o <<x>>
      BY <3>1, <2>1, ConcatProperties, AppendIsConcat
    <3> QED
      BY <3>2, <3>3
  <2>4. Len(wmsg \o chan) < Cap + 1
    <3>1. Len(wmsg \o chan) = Len(wmsg) + Len(chan) /\ Len(wmsg) \in {0, 1} /\ Len(chan) \in Nat
      BY Waiting
    <3> QED
      BY <3>1, <1>1, ConnAssumption, OneMoreFits DEF ConnAssumption
  <2>5. wmsg' \o chan' = Append(wmsg \o chan, x)
    BY <2>2, <2>3
  <2>6. Queue!Accept(x)
    BY <2>4, <2>5 DEF Queue!Accept
  <2> QED
    BY <2>1, <2>6 DEF Queue!Next
<1>2. CASE ~(Len(chan) < Cap)
  BY <1>2, QuietStutters DEF Enqueue, Quiet
<1> QED
  BY <1>1, <1>2

\* The writer takes a packet in hand, which the queue of SendQueue still has,
\* and writes it or loses it.
LEMMA WriterTakes ==
  ASSUME TypeOK, WriterHolds, Recv
  PROVE  UNCHANGED Queue!qvars
<1>1. wmsg = <<>> /\ chan # <<>> /\ wmsg' = <<Head(chan)>> /\ chan' = Tail(chan)
  <2>1. pc[Writer] # "write"
    BY DEF Recv
  <2> QED
    BY <2>1 DEF Recv, WriterHolds
<1>2. chan \in Seq(Packets) /\ chan = SubSeq(chan, 1, Len(chan)) /\ Len(chan) \in Nat /\ Len(chan) >= 1
  BY <1>1, SubSeqFull, EmptySeq, LenProperties DEF TypeOK, QueueOK
<1>3. chan = <<chan[1]>> \o SubSeq(chan, 2, Len(chan))
  <2>1. SubSeq(chan, 1, Len(chan)) = <<chan[1]>> \o SubSeq(chan, 1 + 1, Len(chan))
    <3>1. 1 \in 1 .. Len(chan) /\ Len(chan) \in 1 .. Len(chan)
      BY <1>2
    <3> QED
      BY <3>1, <1>2, SubSeqRecursiveFirst
  <2> QED
    BY <2>1, <1>2
<1>4. Head(chan) = chan[1] /\ Tail(chan) = SubSeq(chan, 2, Len(chan))
  BY <1>1, <1>2, TailIsSubSeq
<1>5. <<>> \o chan = chan
  BY <1>2, ConcatEmptySeq
<1>6. wmsg' \o chan' = wmsg \o chan
  BY <1>1, <1>3, <1>4, <1>5
<1> QED
  BY <1>6 DEF Recv, Queue!qvars, stopVars

\* Whether its write succeeds or not, the writer takes a packet off the queue.
LEMMA WriterWrites ==
  ASSUME TypeOK, WriterHolds, WriteOk \/ WriteFails
  PROVE  Queue!Next
<1>1. /\ wmsg \in Seq(Packets) /\ Len(wmsg) = 1 /\ wmsg' = <<>>
      /\ chan \in Seq(Packets) /\ written \in Seq(Packets)
      /\ chan' = chan /\ chanOpen' = chanOpen
  BY DEF WriteOk, WriteFails, TypeOK, QueueOK, WriterHolds, sendVars, stopVars
<1>2. wmsg[1] \in Packets /\ wmsg = <<wmsg[1]>>
  <2>1. wmsg[1] \in Packets
    <3>1. 1 \in 1 .. Len(wmsg)
      BY <1>1
    <3> QED
      BY <3>1, <1>1, ElementOfSeq
  <2>2. <<wmsg[1]>> \in Seq(Packets) /\ Len(<<wmsg[1]>>) = 1
    BY <2>1
  <2>3. \A i \in 1 .. Len(wmsg) : wmsg[i] = <<wmsg[1]>>[i]
    BY <1>1
  <2> QED
    BY <1>1, <2>1, <2>2, <2>3, SeqEqual
<1>3. wmsg \o chan \in Seq(Packets) /\ Len(wmsg \o chan) = 1 + Len(chan) /\ Len(chan) \in Nat
  BY <1>1, Waiting
<1>4. wmsg \o chan # <<>>
  BY <1>3
<1>5. Head(wmsg \o chan) = wmsg[1]
  <2>1. (wmsg \o chan)[1] = wmsg[1]
    BY <1>1, <1>3, ConcatProperties
  <2> QED
    BY <1>3, <1>4, <2>1
<1>6. Tail(wmsg \o chan) = chan
  <2>1. Tail(wmsg \o chan) \in Seq(Packets) /\ Len(Tail(wmsg \o chan)) = Len(chan)
    BY <1>3, <1>4, HeadTailProperties
  <2>2. \A i \in 1 .. Len(chan) : Tail(wmsg \o chan)[i] = (wmsg \o chan)[i + 1]
    BY <1>3, <1>4, <2>1, HeadTailProperties
  <2>3. \A i \in 1 .. Len(chan) : (wmsg \o chan)[i + 1] = chan[i]
    <3> TAKE i \in 1 .. Len(chan)
    <3>1. i + 1 \in 1 .. Len(wmsg) + Len(chan) /\ ~(i + 1 <= Len(wmsg)) /\ (i + 1) - Len(wmsg) = i
      BY <1>1, <1>3
    <3>2. \A j \in 1 .. Len(wmsg) + Len(chan) :
            (wmsg \o chan)[j] = IF j <= Len(wmsg) THEN wmsg[j] ELSE chan[j - Len(wmsg)]
      BY <1>1, ConcatProperties
    <3> QED
      BY <3>1, <3>2
  <2> QED
    BY <1>1, <2>1, <2>2, <2>3, SeqEqual
<1>7. wmsg' \o chan' = Tail(wmsg \o chan)
  BY <1>1, <1>6, ConcatEmptySeq
<1>8. CASE WriteOk
  <2>1. written' = Append(written, Head(wmsg \o chan))
    <3>1. written' = written \o <<wmsg[1]>>
      BY <1>8, <1>2 DEF WriteOk
    <3> QED
      BY <3>1, <1>1, <1>2, <1>5, AppendIsConcat
  <2>2. Queue!Deliver
    BY <2>1, <1>1, <1>4, <1>7 DEF Queue!Deliver
  <2> QED
    BY <2>2 DEF Queue!Next
<1>9. CASE WriteFails
  <2>1. Queue!Lose
    BY <1>9, <1>1, <1>4, <1>7 DEF WriteFails, Queue!Lose
  <2> QED
    BY <2>1 DEF Queue!Next
<1> QED
  BY <1>8, <1>9

\* Every step of the handler is a step of SendQueue or a stutter.
LEMMA QueueStep == IInv /\ CountsFit /\ [Next]_vars => [Queue!Next]_(Queue!qvars)
<1> SUFFICES ASSUME IInv, CountsFit, [Next]_vars PROVE [Queue!Next]_(Queue!qvars)
  OBVIOUS
<1>t. TypeOK /\ WriterHolds
  BY DEF IInv, CountsFit
<1>1. ASSUME NEW s \in Senders, Push(s) PROVE [Queue!Next]_(Queue!qvars)
  <2>1. sent[s] \in 0 .. MaxSends + MaxReads
    BY <1>t, <1>1, ConnAssumption
       DEF ConnAssumption, Push, TypeOK, QueueOK, CountsFit, SerialsFit
  <2>2. Enqueue(s) /\ chanOpen /\ UNCHANGED <<wmsg, written, chanOpen>>
    BY <1>1 DEF Push, stopVars, ioVars
  <2> QED
    BY <2>1, <2>2, <1>t, EnqueueAccepts
<1>2. CASE Reply
  <2>1. CASE chanOpen
    <3>1. sent[Reader] \in 0 .. MaxSends + MaxReads
      <4>1. sent[Reader] \in Nat /\ inbuf \in Nat /\ reads \in Nat
        BY <1>t DEF TypeOK, QueueOK, DataOK
      <4>2. sent[Reader] + inbuf <= reads /\ reads <= MaxReads
        BY DEF CountsFit, SerialsFit
      <4> QED
        BY <4>1, <4>2, ConnAssumption DEF ConnAssumption
    <3>2. Enqueue(Reader) /\ UNCHANGED <<wmsg, written, chanOpen>>
      BY <1>2, <2>1 DEF Reply, stopVars, ioVars
    <3> QED
      BY <3>1, <3>2, <2>1, <1>t, EnqueueAccepts
  <2>2. CASE ~chanOpen
    BY <1>2, <2>2, QuietStutters DEF Reply, Quiet, sendVars, stopVars, ioVars
  <2> QED
    BY <2>1, <2>2
<1>3. ASSUME NEW p \in Stoppers, StopCloseChan(p) PROVE [Queue!Next]_(Queue!qvars)
  <2>1. chanOpen /\ chanOpen' = FALSE
    BY <1>3 DEF StopCloseChan, IInv, StopProgress
  <2>2. Queue!Close
    BY <2>1, <1>3 DEF StopCloseChan, Queue!Close, sendVars, ioVars
  <2> QED
    BY <2>2 DEF Queue!Next
<1>4. CASE Recv
  BY <1>4, <1>t, WriterTakes
<1>5. CASE WriteOk \/ WriteFails
  BY <1>5, <1>t, WriterWrites
<1>6. CASE Quiet
  BY <1>6, QuietStutters
<1>7. \/ Quiet \/ Reply \/ Recv \/ WriteOk \/ WriteFails
      \/ (\E s \in Senders : Push(s)) \/ (\E p \in Stoppers : StopCloseChan(p))
  BY QuietSteps DEF Next, ReaderStep, WriterStep, StopStep, SenderStep
<1> QED
  BY <1>1, <1>2, <1>3, <1>4, <1>5, <1>6, <1>7

\* SendMsg, SendCot, sendEvent and handleWrite together are a bounded lossy
\* FIFO: nothing is reordered or repeated, and nothing is queued once Stop
\* has closed sendChan (client_handler.go:438, 498, 537).
THEOREM RefinesSendQueue == Spec => ImplementsSendQueue
<1>1. TypeOK /\ IInv /\ CountsFit /\ [Next]_vars => CountsFit'
  BY CountsStep, TypeStep
<1>2. IInv => TypeOK
  BY DEF IInv
<1> QED
  BY <1>1, <1>2, InitInv, InvStep, QueueInit, QueueStep, PTL DEF Spec, ImplementsSendQueue, Queue!Spec

-----------------------------------------------------------------------------
(***************************************************************************)
(* What the handlers pass on, and by what its type is chosen: the patterns *)
(* of Messages, for any types and patterns.                                *)
(***************************************************************************)
CONSTANTS Origins, Namespaces, Patterns, MaxDepth, MaxHops, Tokens
VARIABLES msg, first, from, hops, posted

Msg == INSTANCE Messages

\* The token after a dash that ends a pattern; the SMT translation has no "".
Empty == ""
TwoDashes(p) == Len(p) > 2 /\ p[Len(p)] = Empty /\ p[Len(p) - 1] = Empty
Types == Seq(Tokens) \ {<<>>}

\* What is used of the constants: tokens are of any set that has those named here, a
\* pattern does not end in two dashes, and what a sender wrote has a type.
MessagesConstants ==
  /\ {Empty, "a", "b", "f", "t", "u"} \subseteq Tokens
  /\ \A p \in Patterns : p \in Types /\ ~TwoDashes(p)
  /\ \A o \in Origins : /\ o.kind \in {"xml", "proto", "chat"}
                        /\ o.kind # "chat" => o.body.type \in Types

\* A number that is in a set and not less than any other is its Max.
LEMMA MaxIs == ASSUME NEW S \in SUBSET Nat, NEW m \in S, \A y \in S : m >= y PROVE Msg!Max(S) = m
<1>1. Msg!Max(S) \in S /\ \A y \in S : Msg!Max(S) >= y
  BY DEF Msg!Max
<1>2. m >= Msg!Max(S) /\ Msg!Max(S) >= m
  BY <1>1
<1>3. m \in Nat /\ Msg!Max(S) \in Nat
  BY <1>1
<1> QED
  BY <1>2, <1>3

\* TrimRight takes one dash away, if there is one.
LEMMA TrimIs ==
  ASSUME NEW T, NEW p \in Seq(T), p # <<>>, ~TwoDashes(p)
  PROVE  Msg!TrimRight(p) = IF Msg!EndsWithDash(p) THEN SubSeq(p, 1, Len(p) - 1) ELSE p
<1> DEFINE n == Len(p)
           S == {1} \cup {i \in DOMAIN p : p[i] # Empty}
<1>1. n \in Nat /\ n >= 1 /\ DOMAIN p = 1..n
  OBVIOUS
<1>2. Msg!TrimRight(p) = SubSeq(p, 1, Msg!Max(S))
  BY DEF Msg!TrimRight, Empty
<1>3. Msg!EndsWithDash(p) <=> n > 1 /\ p[n] = Empty
  BY DEF Msg!EndsWithDash, Msg!Last, Empty
<1>7. n > 2 /\ p[n] = Empty => p[n - 1] # Empty
  BY DEF TwoDashes
<1>8. ~(n - 1 > 1) /\ n > 1 => n - 1 = 1
  BY <1>1
<1> HIDE DEF n
<1>4. S \in SUBSET Nat /\ S \subseteq 1..n
  <2>1. 1 \in 1..n /\ 1..n \subseteq Nat
    BY <1>1
  <2> QED
    BY <1>1, <2>1
<1>a. \A y \in S : y \in 1..n /\ (y = 1 \/ p[y] # Empty)
  BY <1>4
<1>5. CASE Msg!EndsWithDash(p)
  <2>0. n > 1 /\ p[n] = Empty
    BY <1>3, <1>5
  <2>1. n - 1 \in S
    <3>1. CASE n - 1 = 1
      BY <3>1
    <3>2. CASE n > 2
      <4>1. p[n - 1] # Empty
        BY <1>7, <2>0, <3>2
      <4>2. n - 1 \in DOMAIN p
        BY <1>1, <3>2
      <4> QED
        BY <4>1, <4>2
    <3> QED
      BY <1>1, <2>0, <3>1, <3>2
  <2>2. ASSUME NEW y \in S PROVE n - 1 >= y
    <3>1. y # n
      BY <1>a, <2>0
    <3>2. y \in 1..n
      BY <1>a
    <3> QED
      BY <1>1, <3>1, <3>2
  <2>3. Msg!Max(S) = n - 1
    <3> HIDE DEF S
    <3> QED
      BY <1>4, <2>1, <2>2, MaxIs
  <2> QED
    BY <1>2, <1>5, <2>3 DEF n
<1>6. CASE ~Msg!EndsWithDash(p)
  <2>1. n \in S
    <3>1. n = 1 \/ (p[n] # Empty /\ n \in DOMAIN p)
      BY <1>1, <1>3, <1>6
    <3> QED
      BY <3>1
  <2>2. ASSUME NEW y \in S PROVE n >= y
    BY <1>1, <1>a
  <2>3. Msg!Max(S) = n
    <3> HIDE DEF S
    <3> QED
      BY <1>4, <2>1, <2>2, MaxIs
  <2>4. SubSeq(p, 1, n) = p
    BY DEF n
  <2> QED
    BY <1>2, <1>6, <2>3, <2>4
<1> QED
  BY <1>5, <1>6

\* What a pattern means.
Means(a, p) ==
  \E more \in 0..Len(a) :
    /\ Len(a) = Len(Msg!TrimRight(p)) + more
    /\ Msg!EndsWithDash(p) <=> more > 0
    /\ \A i \in DOMAIN Msg!TrimRight(p) : Msg!TrimRight(p)[i] \in {".", a[i]}
Fits(a, p, t) == /\ Len(a) >= Len(t) /\ (Msg!EndsWithDash(p) <=> Len(a) > Len(t))
                 /\ \A i \in 1..Len(t) : t[i] \in {".", a[i]}

LEMMA MeansFits ==
  ASSUME NEW T, NEW p \in Seq(T), NEW a \in Seq(T), NEW t \in Seq(T), t = Msg!TrimRight(p)
  PROVE  Means(a, p) <=> Fits(a, p, t)
<1>1. Len(t) \in Nat /\ Len(a) \in Nat /\ DOMAIN t = 1..Len(t)
  OBVIOUS
<1>2. ASSUME Means(a, p) PROVE Fits(a, p, t)
  <2>1. PICK more \in 0..Len(a) : /\ Len(a) = Len(t) + more
                                  /\ Msg!EndsWithDash(p) <=> more > 0
                                  /\ \A i \in DOMAIN t : t[i] \in {".", a[i]}
    BY <1>2 DEF Means
  <2>2. Len(a) >= Len(t) /\ (more > 0 <=> Len(a) > Len(t))
    BY <1>1, <2>1
  <2> QED
    BY <1>1, <2>1, <2>2 DEF Fits
<1>3. ASSUME Fits(a, p, t) PROVE Means(a, p)
  <2> DEFINE more == Len(a) - Len(t)
  <2>1. more \in 0..Len(a) /\ Len(a) = Len(t) + more /\ (more > 0 <=> Len(a) > Len(t))
    BY <1>1, <1>3 DEF Fits
  <2> HIDE DEF more
  <2>2. Msg!EndsWithDash(p) <=> more > 0
    BY <1>3, <2>1 DEF Fits
  <2>3. \A i \in DOMAIN t : t[i] \in {".", a[i]}
    BY <1>1, <1>3 DEF Fits
  <2> QED
    BY <2>1, <2>2, <2>3 DEF Means
<1> QED
  BY <1>2, <1>3

\* A prefix is equal token by token.
LEMMA PrefixIs ==
  ASSUME NEW T, NEW f \in Seq(T), NEW a \in Seq(T), Len(f) <= Len(a)
  PROVE  Msg!IsPrefix(f, a) <=> \A i \in 1..Len(f) : f[i] = a[i]
<1> DEFINE m == Len(f)
           g == SubSeq(a, 1, m)
<1>1. m \in Nat /\ f = SubSeq(f, 1, m)
  OBVIOUS
<1>2. g \in Seq(T) /\ Len(g) = m /\ \A i \in 1..m : g[i] = a[i]
  OBVIOUS
<1>3. Msg!IsPrefix(f, a) <=> f = g
  BY <1>1 DEF Msg!IsPrefix
<1> HIDE DEF g
<1>4. f = g <=> \A i \in 1..m : f[i] = g[i]
  BY <1>2
<1> QED
  BY <1>2, <1>3, <1>4

\* MatchPattern and its shortcuts agree with what a pattern means.
LEMMA MatchIs ==
  ASSUME NEW T, NEW p \in Seq(T), p # <<>>, ~TwoDashes(p), NEW a \in Seq(T)
  PROVE  Msg!MatchPattern(a, p) <=> p = <<".", "">> \/ Means(a, p)
<1> DEFINE t == Msg!TrimRight(p)
           n == Len(p)
           dash == Msg!EndsWithDash(p)
           dotted == \E i \in DOMAIN p : p[i] = "."
<1>1. n \in Nat /\ n >= 1 /\ DOMAIN p = 1..n /\ Len(a) \in Nat
  OBVIOUS
<1>2. /\ t \in Seq(T) /\ Len(t) = IF dash THEN n - 1 ELSE n
      /\ \A i \in 1..Len(t) : t[i] = p[i]
      /\ ~dash => t = p
  <2>1. CASE dash
    <3>1. t = SubSeq(p, 1, n - 1) /\ n > 1
      BY <2>1, TrimIs DEF Msg!EndsWithDash
    <3> QED
      BY <1>1, <2>1, <3>1
  <2>2. CASE ~dash
    <3>1. t = p
      BY <2>2, TrimIs
    <3> QED
      BY <1>1, <2>2, <3>1
  <2> QED
    BY <2>1, <2>2
<1>3. dash => n > 1 /\ p[n] = Empty
  BY DEF Msg!EndsWithDash, Msg!Last, Empty
<1>4. Msg!MatchPattern(a, p)
        <=> \/ p = <<".", "">>
            \/ a = p
            \/ dash /\ Len(a) >= n /\ Msg!IsPrefix(Msg!Front(p), a)
            \/ /\ dotted /\ Len(a) >= Len(t)
               /\ \A i \in DOMAIN t : t[i] \in {a[i], "."}
               /\ dash <=> Len(a) > Len(t)
  BY DEF Msg!MatchPattern
<1>5. Means(a, p) <=> Fits(a, p, t)
  <2> HIDE DEF t
  <2> QED
    BY <1>2, MeansFits DEF t
<1>6. DOMAIN t = 1..Len(t) /\ Len(t) \in Nat
  BY <1>2
<1>7. dash => Msg!Front(p) \in Seq(T) /\ Len(Msg!Front(p)) = n - 1 /\ \A i \in 1..n - 1 : Msg!Front(p)[i] = p[i]
  <2>1. ASSUME dash PROVE Msg!Front(p) = SubSeq(p, 1, n - 1) /\ n - 1 \in 0..n
    BY <1>1, <1>3, <2>1 DEF Msg!Front
  <2> HIDE DEF n, dash
  <2>2. ASSUME n - 1 \in 0..n PROVE LET f == SubSeq(p, 1, n - 1) IN
           f \in Seq(T) /\ Len(f) = n - 1 /\ \A i \in 1..n - 1 : f[i] = p[i]
    BY <1>1, <2>2 DEF n
  <2> QED
    BY <2>1, <2>2
<1>8. ASSUME dash, Len(a) >= n PROVE Msg!IsPrefix(Msg!Front(p), a) <=> \A i \in 1..n - 1 : p[i] = a[i]
  <2>1. n - 1 \in Nat /\ n - 1 <= Len(a)
    BY <1>1, <1>3, <1>8
  <2> DEFINE f == Msg!Front(p)
             m == n - 1
  <2>2. f \in Seq(T) /\ Len(f) = m /\ Len(f) <= Len(a) /\ \A i \in 1..m : f[i] = p[i]
    BY <1>7, <1>8, <2>1
  <2> HIDE DEF f, m
  <2>3. Msg!IsPrefix(f, a) <=> \A i \in 1..m : f[i] = a[i]
    BY <2>2, PrefixIs
  <2>4. Msg!IsPrefix(f, a) <=> \A i \in 1..m : p[i] = a[i]
    BY <2>2, <2>3
  <2> QED
    BY <2>4 DEF f, m
<1> HIDE DEF t, n, dash, dotted
<1>9. ASSUME a = p PROVE Fits(a, p, t)
  <2>1. Len(a) = n
    BY <1>9 DEF n
  <2>2. Len(t) <= n /\ (dash <=> n > Len(t))
    BY <1>1, <1>2
  <2>3. \A i \in 1..Len(t) : t[i] = a[i]
    BY <1>2, <1>9
  <2> QED
    BY <1>1, <2>1, <2>2, <2>3 DEF Fits, dash
<1>10. ASSUME dash, Len(a) >= n, \A i \in 1..n - 1 : p[i] = a[i] PROVE Fits(a, p, t)
  <2>1. Len(t) = n - 1
    BY <1>2, <1>10
  <2>2. Len(a) >= Len(t) /\ Len(a) > Len(t)
    BY <1>1, <1>10, <2>1
  <2>3. \A i \in 1..Len(t) : t[i] = a[i]
    BY <1>2, <1>10, <2>1
  <2> QED
    BY <1>10, <2>2, <2>3 DEF Fits, dash
<1>11. ASSUME Fits(a, p, t), ~dotted PROVE a = p \/ (dash /\ Len(a) >= n /\ \A i \in 1..n - 1 : p[i] = a[i])
  <2>1. ASSUME NEW i \in 1..Len(t) PROVE p[i] = a[i]
    <3>1. i \in 1..n /\ t[i] = p[i]
      <4>1. t[i] = p[i]
        BY <1>2, <2>1
      <4>2. Len(t) \in Nat /\ Len(t) <= n
        BY <1>1, <1>2
      <4> QED
        BY <1>1, <2>1, <4>1, <4>2
    <3>2. p[i] # "."
      BY <1>1, <1>11, <3>1 DEF dotted
    <3> QED
      BY <1>11, <2>1, <3>1, <3>2 DEF Fits
  <2>2. CASE dash
    <3>1. Len(a) > Len(t) /\ Len(t) = n - 1
      BY <1>2, <1>11, <2>2 DEF Fits, dash
    <3> QED
      BY <1>1, <2>1, <2>2, <3>1
  <2>3. CASE ~dash
    <3>1. Len(a) = n /\ Len(t) = n
      BY <1>1, <1>2, <1>11, <2>3 DEF Fits, dash
    <3>2. a = p
      BY <1>1, <2>1, <3>1 DEF n
    <3> QED
      BY <3>2
  <2> QED
    BY <2>2, <2>3
<1>12. (/\ dotted /\ Len(a) >= Len(t)
        /\ \A i \in DOMAIN t : t[i] \in {a[i], "."}
        /\ dash <=> Len(a) > Len(t)) <=> dotted /\ Fits(a, p, t)
  BY <1>6 DEF Fits, dash
<1> QED
  BY <1>4, <1>5, <1>8, <1>9, <1>10, <1>11, <1>12

\* What FilterAgrees says of a type and a pattern.
LEMMA AgreesIs ==
  ASSUME MessagesConstants, msg.cot.type \in Types
  PROVE  Msg!FilterAgrees
<1> DEFINE a == msg.cot.type
<1> SUFFICES ASSUME NEW p \in Patterns PROVE Msg!MatchPattern(a, p) <=> p = <<".", "">> \/ Means(a, p)
  BY Zenon DEF Msg!FilterAgrees, Means
<1>1. p \in Seq(Tokens) /\ p # <<>> /\ ~TwoDashes(p) /\ a \in Seq(Tokens)
  BY DEF MessagesConstants, Types
<1> HIDE DEF a
<1> QED
  BY <1>1, MatchIs

(* The type a message has is the type it was sent with. *)
SentType == IF from.kind = "chat" THEN <<"b", "t", "f">> ELSE from.body.type
TypeIsKept == from \in Origins /\ msg.cot.type = SentType

LEMMA ConversionTypes ==
  /\ \A c : Msg!CotFromProto(c).cot.type = c.type
  /\ \A c : Msg!CotToEvent(c).type = c.type
  /\ \A ev : Msg!EventToProto(ev).cot.type = ev.type
  /\ \A m : Msg!ToMsg(Msg!ToWeb(m)).cot.type = m.cot.type
  /\ \A c : Msg!MakeChatMessage(c).type = <<"b", "t", "f">>
<1>1. \A c : Msg!CotFromProto(c).cot.type = c.type
  BY Zenon DEF Msg!CotFromProto
<1>2. \A c : Msg!CotToEvent(c).type = c.type
  BY Zenon DEF Msg!CotToEvent
<1>3. \A ev : Msg!EventToProto(ev).cot.type = ev.type
  BY Zenon DEF Msg!EventToProto
<1>4. \A m : Msg!ToWeb(m).type = m.cot.type
  BY Zenon DEF Msg!ToWeb
<1>5. \A w : Msg!ToMsg(w).cot.type = w.type
  BY Zenon DEF Msg!ToMsg
<1>6. \A c : Msg!MakeChatMessage(c).type = <<"b", "t", "f">>
  BY Zenon DEF Msg!MakeChatMessage
<1> QED
  BY <1>1, <1>2, <1>3, <1>4, <1>5, <1>6

LEMMA TypeKept == MessagesConstants /\ Msg!Spec => []TypeIsKept
<1> SUFFICES ASSUME MessagesConstants PROVE Msg!Spec => []TypeIsKept
  OBVIOUS
<1>1. Msg!Init => TypeIsKept
  <2> SUFFICES ASSUME Msg!Init PROVE TypeIsKept
    OBVIOUS
  <2>1. from \in Origins /\ msg = Msg!Read(from)
    BY DEF Msg!Init
  <2>2. from.kind \in {"xml", "proto", "chat"}
    BY <2>1 DEF MessagesConstants
  <2>3. CASE from.kind = "xml"
    <3>1. Msg!Read(from) = Msg!EventToProto(from.body)
      BY <2>3, Zenon DEF Msg!Read
    <3> QED
      BY <2>1, <2>3, <3>1, ConversionTypes DEF TypeIsKept, SentType
  <2>4. CASE from.kind = "proto"
    <3>1. Msg!Read(from) = Msg!CotFromProto(from.body)
      BY <2>4, Zenon DEF Msg!Read
    <3> QED
      BY <2>1, <2>4, <3>1, ConversionTypes DEF TypeIsKept, SentType
  <2>5. CASE from.kind = "chat"
    <3>1. Msg!Read(from) = Msg!CotFromProto(Msg!MakeChatMessage(Msg!addMessage(from.body)))
      BY <2>5, Zenon DEF Msg!Read
    <3> QED
      BY <2>1, <2>5, <3>1, ConversionTypes DEF TypeIsKept, SentType
  <2> QED
    BY <2>2, <2>3, <2>4, <2>5
<1>2. TypeIsKept /\ [Msg!Next]_(Msg!vars) => TypeIsKept'
  <2> SUFFICES ASSUME TypeIsKept, [Msg!Next]_(Msg!vars) PROVE TypeIsKept'
    OBVIOUS
  <2>1. from' = from /\ msg'.cot.type = msg.cot.type
    <3>1. CASE Msg!ForwardXml
      BY <3>1, ConversionTypes DEF Msg!ForwardXml
    <3>2. CASE Msg!ForwardProto
      BY <3>2, ConversionTypes DEF Msg!ForwardProto
    <3>3. CASE Msg!PostBack
      BY <3>3, ConversionTypes DEF Msg!PostBack
    <3>4. CASE UNCHANGED Msg!vars
      BY <3>4 DEF Msg!vars
    <3> QED
      BY <3>1, <3>2, <3>3, <3>4 DEF Msg!Next
  <2> QED
    BY <2>1 DEF TypeIsKept, SentType
<1> QED
  BY <1>1, <1>2, PTL DEF Msg!Spec

LEMMA KeptTyped == ASSUME MessagesConstants, TypeIsKept PROVE msg.cot.type \in Types
<1>1. <<"b", "t", "f">> \in Types
  <2>1. ASSUME NEW x \in Tokens, NEW y \in Tokens, NEW z \in Tokens
        PROVE  <<x, y, z>> \in Types
    <3>1. <<x, y, z>> \in Seq(Tokens)
      OBVIOUS
    <3>2. Len(<<x, y, z>>) = 3
      OBVIOUS
    <3> QED
      BY <3>1, <3>2 DEF Types
  <2>2. {"b", "t", "f"} \subseteq Tokens
    BY DEF MessagesConstants
  <2> QED
    BY <2>1, <2>2
<1> QED
  BY <1>1 DEF TypeIsKept, SentType, MessagesConstants

\* A pattern of tokens only is met by itself; one of a token and a dash by what goes on.
Plain(p) == ~Msg!EndsWithDash(p) /\ \A i \in DOMAIN p : p[i] # "."

LEMMA PlainMatch ==
  ASSUME NEW p, NEW a, Plain(p)
  PROVE  Msg!MatchPattern(a, p) <=> a = p
<1>1. p # <<".", "">>
  <2>1. ASSUME p = <<".", "">> PROVE 1 \in DOMAIN p /\ p[1] = "."
    <3>1. \A x, y : 1 \in DOMAIN <<x, y>> /\ <<x, y>>[1] = x
      OBVIOUS
    <3> QED
      BY <2>1, <3>1, Zenon
  <2> QED
    BY <2>1, Zenon DEF Plain
<1> QED
  BY <1>1, Zenon DEF Msg!MatchPattern, Plain

LEMMA PlainTuples ==
  ASSUME NEW x, NEW y, NEW z, NEW u, NEW v, "." \notin {x, y, z, u, v}, Empty \notin {x, y, z, u, v}
  PROVE  Plain(<<x, y>>) /\ Plain(<<x, y, z>>) /\ Plain(<<x, y, z, u>>) /\ Plain(<<x, y, z, u, v>>)
<1>1. \A p : Msg!EndsWithDash(p) <=> Len(p) > 1 /\ p[Len(p)] = Empty
  BY Zenon DEF Msg!EndsWithDash, Msg!Last, Empty
<1>2. Plain(<<x, y>>)
  BY <1>1 DEF Plain
<1>3. Plain(<<x, y, z>>)
  BY <1>1 DEF Plain
<1>4. Plain(<<x, y, z, u>>)
  BY <1>1 DEF Plain
<1>5. Plain(<<x, y, z, u, v>>)
  BY <1>1 DEF Plain
<1> QED
  BY <1>2, <1>3, <1>4, <1>5

LEMMA DashMatch ==
  ASSUME Empty \in Tokens, NEW a \in Seq(Tokens), NEW x \in Tokens, x # ".", x # Empty
  PROVE  Msg!MatchPattern(a, <<x, Empty>>) <=> Len(a) > 1 /\ a[1] = x
<1> DEFINE p == <<x, Empty>>
<1>1. p \in Seq(Tokens) /\ Len(p) = 2 /\ p[1] = x /\ p[2] = Empty /\ DOMAIN p = 1..2
  OBVIOUS
<1> HIDE DEF p
<1>2. p # <<>> /\ ~TwoDashes(p) /\ p # <<".", "">>
  <2>0. p # <<>> /\ ~TwoDashes(p)
    <3>1. Len(p) = 2
      BY <1>1
    <3>2. ~(Len(p) > 2)
      BY <3>1
    <3>3. p # <<>>
      <4>1. ASSUME p = <<>> PROVE Len(p) = 0
        BY <4>1
      <4> QED
        BY <3>1, <4>1
    <3> QED
      BY <3>2, <3>3, Zenon DEF TwoDashes
  <2>1. p # <<".", "">>
    <3>1. <<".", "">>[1] = "."
      BY Zenon
    <3> QED
      BY <1>1, <3>1
  <2> QED
    BY <2>0, <2>1
<1>3. Msg!EndsWithDash(p)
  <2>1. Msg!EndsWithDash(p) <=> Len(p) > 1 /\ p[Len(p)] = Empty
    BY Zenon DEF Msg!EndsWithDash, Msg!Last, Empty
  <2> QED
    BY <1>1, <2>1
<1>4. Msg!TrimRight(p) = SubSeq(p, 1, 1)
  <2>1. Msg!TrimRight(p) = SubSeq(p, 1, Len(p) - 1)
    BY <1>1, <1>2, <1>3, TrimIs
  <2> QED
    BY <1>1, <2>1
<1>5. Len(SubSeq(p, 1, 1)) = 1 /\ SubSeq(p, 1, 1)[1] = x /\ SubSeq(p, 1, 1) \in Seq(Tokens)
  BY <1>1
<1>6. Means(a, p) <=> Fits(a, p, SubSeq(p, 1, 1))
  BY <1>1, <1>4, <1>5, MeansFits
<1>7. Fits(a, p, SubSeq(p, 1, 1)) <=> Len(a) > 1 /\ a[1] = x
  <2> DEFINE t == SubSeq(p, 1, 1)
  <2>1. Len(t) = 1 /\ t[1] = x /\ 1..Len(t) = {1} /\ Len(a) \in Nat
    BY <1>5
  <2> HIDE DEF t
  <2> QED
    BY <1>3, <2>1 DEF Fits, t
<1>8. Msg!MatchPattern(a, p) <=> Means(a, p)
  BY <1>1, <1>2, MatchIs
<1> QED
  BY <1>6, <1>7, <1>8 DEF p

\* Control messages have one of eight types, and these are not pings.
LEMMA ControlIs ==
  ASSUME NEW a, a = msg.cot.type, Msg!IsControl(msg)
  PROVE  /\ a[1] = "t"
         /\ Len(a) = 3 => a[2] = "b"
         /\ Len(a) = 4 => a[4] \in {"q", "m"}
         /\ Len(a) = 5 => a[4] = "i"
<1> DEFINE P == {<<"t", "b">>, <<"t", "b", "a">>, <<"t", "b", "c">>, <<"t", "b", "q">>,
                 <<"t", "x", "takp", "q">>, <<"t", "x", "c", "m">>, <<"t", "x", "c", "i", "e">>,
                 <<"t", "x", "c", "i", "d">>}
<1>1. PICK p \in P : Msg!MatchPattern(a, p)
  BY Zenon DEF Msg!IsControl, Msg!MatchAnyPattern
<1>2. Empty \notin {"t", "b", "a", "c", "q", "x", "takp", "m", "i", "e", "d"}
  BY Zenon DEF Empty
<1>3. \A q \in P : Plain(q)
  BY <1>2, PlainTuples
<1>4. a = p /\ p \in P
  BY <1>1, <1>3, PlainMatch
<1> QED
  BY <1>4

\* Items of the map have a type that goes on after a, u or b.
LEMMA MapItemIs ==
  ASSUME MessagesConstants, NEW a \in Seq(Tokens), a = msg.cot.type
  PROVE  /\ Msg!IsMapItem(msg) =>
              /\ Len(a) > 1 /\ a[1] \in {"a", "u", "b"}
              /\ a[1] = "b" => ~Msg!IsChat(msg) /\ ~Msg!IsChatReceipt(msg) /\ ~Msg!IsFileTransfer(msg)
         /\ Len(a) > 1 /\ a[1] = "a" => Msg!IsMapItem(msg)
         /\ Msg!MatchAnyPattern(a, {<<"b", "">>, <<"u", "">>}) <=> Len(a) > 1 /\ a[1] \in {"b", "u"}
<1>1. Empty \in Tokens /\ {"a", "b", "u"} \subseteq Tokens
  BY DEF MessagesConstants
<1>2. Empty \notin {"a", "b", "u"}
  BY Zenon DEF Empty
<1>3. \A x \in {"a", "b", "u"} : Msg!MatchPattern(a, <<x, Empty>>) <=> Len(a) > 1 /\ a[1] = x
  BY <1>1, <1>2, DashMatch
<1>4. \A x, y : Msg!MatchAnyPattern(a, {<<x, Empty>>, <<y, Empty>>})
                 <=> Msg!MatchPattern(a, <<x, Empty>>) \/ Msg!MatchPattern(a, <<y, Empty>>)
  BY Zenon DEF Msg!MatchAnyPattern
<1>5. \A x : Msg!MatchAnyPattern(a, {<<x, Empty>>}) <=> Msg!MatchPattern(a, <<x, Empty>>)
  BY Zenon DEF Msg!MatchAnyPattern
<1>6. Msg!IsMapItem(msg) <=>
        \/ Msg!MatchAnyPattern(a, {<<"a", Empty>>, <<"u", Empty>>})
        \/ /\ ~Msg!IsChat(msg) /\ ~Msg!IsChatReceipt(msg) /\ ~Msg!IsFileTransfer(msg)
           /\ msg.cot.placed /\ Msg!MatchAnyPattern(a, {<<"b", Empty>>})
  BY Zenon DEF Msg!IsMapItem, Empty
<1>7. Msg!MatchAnyPattern(a, {<<"b", "">>, <<"u", "">>}) <=> Len(a) > 1 /\ a[1] \in {"b", "u"}
  <2>1. Msg!MatchAnyPattern(a, {<<"b", Empty>>, <<"u", Empty>>}) <=> Len(a) > 1 /\ a[1] \in {"b", "u"}
    BY <1>3, <1>4
  <2> QED
    BY <2>1, Zenon DEF Empty
<1>8. /\ Msg!IsMapItem(msg) =>
           /\ Len(a) > 1 /\ a[1] \in {"a", "u", "b"}
           /\ a[1] = "b" => ~Msg!IsChat(msg) /\ ~Msg!IsChatReceipt(msg) /\ ~Msg!IsFileTransfer(msg)
      /\ Len(a) > 1 /\ a[1] = "a" => Msg!IsMapItem(msg)
  BY <1>3, <1>4, <1>5, <1>6
<1> QED
  BY <1>7, <1>8, Zenon

\* What each of the six kinds has that the others have not.
LEMMA KindsAre ==
  ASSUME NEW a, a = msg.cot.type
  PROVE  /\ Msg!IsChat(msg) => Len(a) = 3 /\ a[1] = "b" /\ a[2] = "t"
         /\ Msg!IsChatReceipt(msg) => Len(a) = 4 /\ a[1] = "b" /\ a[2] = "t"
         /\ Msg!IsFileTransfer(msg) => Len(a) = 4 /\ a[1] = "b" /\ a[2] = "f"
         /\ Msg!IsPing(msg) => a[1] = "t" /\ a[4] = "t" /\ Len(a) \in {4, 5}
<1>1. Msg!IsChat(msg) => Len(a) = 3 /\ a[1] = "b" /\ a[2] = "t"
  BY DEF Msg!IsChat
<1>2. Msg!IsChatReceipt(msg) => Len(a) = 4 /\ a[1] = "b" /\ a[2] = "t"
  BY DEF Msg!IsChatReceipt
<1>3. Msg!IsFileTransfer(msg) => Len(a) = 4 /\ a[1] = "b" /\ a[2] = "f"
  BY DEF Msg!IsFileTransfer
<1>4. Msg!IsPing(msg) => a[1] = "t" /\ a[4] = "t" /\ Len(a) \in {4, 5}
  BY DEF Msg!IsPing
<1> QED
  BY <1>1, <1>2, <1>3, <1>4

\* What FilterAgrees and KindsApart say holds of any message with a type.
Kinds == <<Msg!IsChat(msg), Msg!IsChatReceipt(msg), Msg!IsFileTransfer(msg),
           Msg!IsPing(msg), Msg!IsControl(msg), Msg!IsMapItem(msg)>>

LEMMA TypedApart ==
  ASSUME MessagesConstants, msg.cot.type \in Types
  PROVE  Msg!KindsApart
<1> DEFINE a == msg.cot.type
           S == {i \in 1..6 : Kinds[i]}
<1>1. a \in Seq(Tokens) /\ a # <<>>
  BY DEF Types
<1> HIDE DEF a
<1>2. ASSUME NEW i \in S, NEW j \in S PROVE i = j
  <2>1. /\ 1 \in S => Msg!IsChat(msg)
        /\ 2 \in S => Msg!IsChatReceipt(msg)
        /\ 3 \in S => Msg!IsFileTransfer(msg)
        /\ 4 \in S => Msg!IsPing(msg)
        /\ 5 \in S => Msg!IsControl(msg)
        /\ 6 \in S => Msg!IsMapItem(msg)
    BY DEF Kinds
  <2>2. S \subseteq 1..6
    OBVIOUS
  <2> HIDE DEF S
  <2>3. /\ 1 \in S => Len(a) = 3 /\ a[1] = "b" /\ a[2] = "t"
        /\ 2 \in S => Len(a) = 4 /\ a[1] = "b" /\ a[2] = "t"
        /\ 3 \in S => Len(a) = 4 /\ a[1] = "b" /\ a[2] = "f"
        /\ 4 \in S => a[1] = "t" /\ a[4] = "t" /\ Len(a) \in {4, 5}
    BY <2>1, KindsAre DEF a
  <2>4. 5 \in S => /\ a[1] = "t"
                   /\ Len(a) = 4 => a[4] \in {"q", "m"}
                   /\ Len(a) = 5 => a[4] = "i"
    BY <2>1, ControlIs DEF a
  <2>5. 6 \in S => /\ a[1] \in {"a", "u", "b"}
                   /\ a[1] = "b" => 1 \notin S /\ 2 \notin S /\ 3 \notin S
    <3>1. Msg!IsMapItem(msg) =>
            /\ a[1] \in {"a", "u", "b"}
            /\ a[1] = "b" => ~Msg!IsChat(msg) /\ ~Msg!IsChatReceipt(msg) /\ ~Msg!IsFileTransfer(msg)
      BY <1>1, MapItemIs DEF a
    <3> QED
      BY <2>1, <3>1
  <2>6. i \in {1, 2, 3, 4, 5, 6} /\ j \in {1, 2, 3, 4, 5, 6}
    BY <2>2
  <2> QED
    BY <2>3, <2>4, <2>5, <2>6
<1>3. Cardinality(S) <= 1
  <2> HIDE DEF S
  <2>1. CASE S = {}
    BY <2>1, FS_EmptySet
  <2>2. CASE S # {}
    <3>1. PICK i : S = {i}
      BY <1>2, <2>2
    <3> QED
      BY <3>1, FS_Singleton
  <2> QED
    BY <2>1, <2>2
<1>4. Len(a) > 1 /\ a[1] = "a" => Msg!IsMapItem(msg) /\ Msg!GetClass(msg) \in {"contact", "unit"}
  <2>1. Len(a) > 1 /\ a[1] = "a" => Msg!IsMapItem(msg)
    BY <1>1, MapItemIs DEF a
  <2>2. ~(Msg!MatchAnyPattern(a, {<<"b", "">>, <<"u", "">>}) /\ a[1] = "a")
    <3>1. Msg!MatchAnyPattern(a, {<<"b", "">>, <<"u", "">>}) => a[1] \in {"b", "u"}
      BY <1>1, MapItemIs, Zenon DEF a
    <3>2. a[1] = "a" => a[1] \notin {"b", "u"}
      OBVIOUS
    <3> QED
      BY <3>1, <3>2, Zenon
  <2>3. Len(a) > 1 /\ a[1] = "a" =>
          Msg!GetClass(msg) = IF Msg!GetEndpoint(msg) # "" THEN "contact" ELSE "unit"
    BY <2>2, Zenon DEF Msg!GetClass, a
  <2> QED
    BY <2>1, <2>3, Zenon
<1>5. Len(a) > 1 /\ a[1] \in {"b", "u"} => Msg!GetClass(msg) = "point"
  <2>1. Len(a) > 1 /\ a[1] \in {"b", "u"} => Msg!MatchAnyPattern(a, {<<"b", "">>, <<"u", "">>})
    BY <1>1, MapItemIs, Zenon DEF a
  <2>2. a[1] \in {"b", "u"} => a[1] # "a"
    OBVIOUS
  <2> QED
    BY <2>1, <2>2, Zenon DEF Msg!GetClass, a
<1>6. Msg!IsMapItem(msg) => Msg!GetClass(msg) # ""
  <2>1. Msg!IsMapItem(msg) => Len(a) > 1 /\ a[1] \in {"a", "b", "u"}
    BY <1>1, MapItemIs DEF a
  <2>2. Msg!IsMapItem(msg) => Msg!GetClass(msg) \in {"contact", "unit", "point"}
    BY <2>1, <1>4, <1>5
  <2> QED
    BY <2>2, Zenon
<1>7. Msg!IsContact(msg) => Len(a) > 1 /\ a[1] = "a" /\ Msg!GetEndpoint(msg) # ""
  <2> DEFINE f == <<"a", "f">>
  <2>1. {"a", "f"} \subseteq Tokens
    BY DEF MessagesConstants
  <2>2. f \in Seq(Tokens) /\ Len(f) = 2 /\ f[1] = "a"
    BY <2>1
  <2>3. Msg!IsContact(msg) => Msg!IsPrefix(f, a) /\ Len(a) > 2 /\ Msg!GetEndpoint(msg) # ""
    BY Zenon DEF Msg!IsContact, a
  <2> HIDE DEF f
  <2>4. Len(a) > 2 /\ Msg!IsPrefix(f, a) => Len(a) > 1 /\ a[1] = "a"
    <3>1. ASSUME Len(a) > 2 PROVE Msg!IsPrefix(f, a) <=> \A i \in 1..Len(f) : f[i] = a[i]
      <4>1. Len(f) <= Len(a)
        BY <1>1, <2>2, <3>1
      <4>2. a \in Seq(Tokens) /\ f \in Seq(Tokens)
        BY <1>1, <2>2
      <4> QED
        BY <4>1, <4>2, PrefixIs, SMT
    <3> QED
      BY <1>1, <2>2, <3>1
  <2> QED
    BY <2>3, <2>4, Zenon
<1>8. Msg!IsContact(msg) => Msg!IsMapItem(msg) /\ Msg!GetClass(msg) = "contact"
  <2>1. ~(Msg!MatchAnyPattern(a, {<<"b", "">>, <<"u", "">>}) /\ a[1] = "a")
    <3>1. Msg!MatchAnyPattern(a, {<<"b", "">>, <<"u", "">>}) => a[1] \in {"b", "u"}
      BY <1>1, MapItemIs, Zenon DEF a
    <3>2. a[1] = "a" => a[1] \notin {"b", "u"}
      OBVIOUS
    <3> QED
      BY <3>1, <3>2, Zenon
  <2>2. Msg!IsContact(msg) => Msg!GetClass(msg) = "contact"
    BY <1>7, <2>1, Zenon DEF Msg!GetClass, a
  <2> QED
    BY <1>4, <1>7, <2>2, Zenon
<1>9. ASSUME Cardinality({i \in 1..6 : Kinds[i]}) <= 1,
             Msg!IsMapItem(msg) => Msg!GetClass(msg) # "",
             Msg!IsContact(msg) => Msg!IsMapItem(msg) /\ Msg!GetClass(msg) = "contact"
      PROVE  Msg!KindsApart
  <2>1. \A X : Cardinality(X) = Msg!Cardinality(X)
    BY Zenon DEF Cardinality, Msg!Cardinality
  <2> QED
    BY <1>9, <2>1, Zenon DEF Msg!KindsApart, Kinds
<1> QED
  BY <1>3, <1>6, <1>8, <1>9, Zenon

(* A pattern matches the types its tokens mean, for every message on its way and
   for any patterns, whichever of the shortcuts decides (filter.go:5-40). *)
THEOREM PatternsMeanTheirTokens == MessagesConstants /\ Msg!Spec => []Msg!FilterAgrees
<1> SUFFICES ASSUME MessagesConstants PROVE Msg!Spec => []Msg!FilterAgrees
  OBVIOUS
<1>1. TypeIsKept => Msg!FilterAgrees
  BY KeptTyped, AgreesIs
<1> QED
  BY <1>1, TypeKept, PTL

(* A message is of one kind, one that is kept has a class, and a contact of a handler
   is one of the map, whatever type it was sent with (cotmessage.go). *)
THEOREM KindsStayApart == MessagesConstants /\ Msg!Spec => []Msg!KindsApart
<1> SUFFICES ASSUME MessagesConstants PROVE Msg!Spec => []Msg!KindsApart
  OBVIOUS
<1>1. TypeIsKept => Msg!KindsApart
  BY KeptTyped, TypedApart
<1> QED
  BY <1>1, TypeKept, PTL
=============================================================================
