------------------------------- MODULE Links -------------------------------
(***************************************************************************)
(* Outgoing links: ConnectTo of the server and Run of the web client.      *)
(*                                                                         *)
(* Either is a loop that dials, makes a handler, starts it and waits on a  *)
(* WaitGroup until the handler has removed itself.  The server enters the  *)
(* handler in its map under a name all links of the loop share; the client *)
(* keeps it in app.cl, and gives every link a goroutine that reports its   *)
(* position and one that fetches the contacts.  Others send to the link as *)
(* well: the message loop of the server, the requests of the client's      *)
(* pages.  The handler is ConnHandler's, reduced to where its life has     *)
(* come to.                                                                *)
(***************************************************************************)
EXTENDS Naturals, FiniteSets

CONSTANT MaxLinks   \* bound: links the loop makes

ASSUME LinksAssumption == MaxLinks \in Nat \ {0}

Ids == 1..MaxLinks

VARIABLES
  side,       \* "server" or "client"
  at,         \* the place of the loop
  n,          \* links made
  link,       \* the handler of each
  wg,         \* the counter of its WaitGroup
  reg,        \* server: the link in app.handlers, 0 if none
  robbed,     \*   the last link was taken out by its predecessor
  connected,  \* client: the flag IsConnected reads
  cl,         \*   app.cl
  sender,     \*   myPosSender of each link
  getter,     \*   periodicGetter of each
  early,      \*   senders that joined the group after the handler left it
  got,        \*   whose positions each handler has accepted
  aim,        \* the link each sender has found active and is to send to,
  caller,     \* and the one another goroutine has; 0 if none
  crashed     \* the panic that has ended the process

serverVars == <<reg, robbed>>
clientVars == <<connected, cl, sender, getter, early, got>>
sends == <<aim, caller>>
vars == <<side, at, n, link, wg, serverVars, clientVars, sends, crashed>>

Alive == {"new", "starting", "up"}
Removing == {"stopping", "closed", "off", "done"}

TypeOK ==
  /\ side \in {"server", "client"} /\ n \in 0..MaxLinks
  /\ at \in {"dial", "sleep", "make", "start", "store", "config", "spawn", "wait", "parked", "woken"}
  /\ link \in [Ids -> {"none", "gone"} \cup Alive \cup Removing]
  /\ wg \in [Ids -> 0..2] /\ reg \in 0..n /\ robbed \in BOOLEAN
  /\ connected \in BOOLEAN /\ cl \in 0..n
  /\ sender \in [Ids -> {"none", "born", "first", "sending", "top", "select", "end"}]
  /\ getter \in [Ids -> {"none", "asking", "select", "end"}]
  /\ early \subseteq Ids /\ got \in [Ids -> SUBSET Ids]
  /\ aim \in [Ids -> 0..MaxLinks] /\ caller \in 0..MaxLinks /\ crashed \in {"no", "reused", "negative", "closed"}

Init ==
  /\ side \in {"server", "client"} /\ at = "dial" /\ n = 0
  /\ link = [i \in Ids |-> "none"] /\ wg = [i \in Ids |-> 0]
  /\ reg = 0 /\ robbed = FALSE /\ connected = FALSE /\ cl = 0
  /\ sender = [i \in Ids |-> "none"] /\ getter = [i \in Ids |-> "none"]
  /\ early = {} /\ got = [i \in Ids |-> {}]
  /\ aim = [i \in Ids |-> 0] /\ caller = 0 /\ crashed = "no"

-----------------------------------------------------------------------------
(* The loop. *)

Moves(from, to) == at = from /\ at' = to /\ UNCHANGED <<side, sends, crashed>>

\* A failed dial is tried again after five seconds.
Dial ==
  \/ Moves("dial", "sleep") /\ n < MaxLinks /\ UNCHANGED <<n, link, wg, serverVars, clientVars>>
  \/ Moves("sleep", "dial") /\ UNCHANGED <<n, link, wg, serverVars, clientVars>>

Connect ==
  /\ Moves("dial", "make") /\ n < MaxLinks /\ n' = n + 1
  /\ connected' = (side = "client")
  /\ UNCHANGED <<link, wg, serverVars, cl, sender, getter, early, got>>

OneToWaitFor == 1

Make ==
  /\ Moves("make", "start")
  /\ link' = [link EXCEPT ![n] = "new"] /\ wg' = [wg EXCEPT ![n] = OneToWaitFor]
  /\ cl' = IF side = "client" THEN n ELSE cl
  /\ UNCHANGED <<n, serverVars, connected, sender, getter, early, got>>

GoStart ==
  /\ Moves("start", IF side = "server" THEN "store" ELSE "config")
  /\ link' = [link EXCEPT ![n] = "starting"]
  /\ UNCHANGED <<n, wg, serverVars, clientVars>>

\* Mutant: a name that is taken is left alone.
StoredIfAbsent == IF reg = 0 THEN n ELSE reg

Stored == n

AddClientHandler ==
  /\ Moves("store", "wait") /\ reg' = Stored /\ robbed' = FALSE
  /\ UNCHANGED <<n, link, wg, clientVars>>

\* The profile of the device, fetched within five seconds or not.
GetConfig == Moves("config", "spawn") /\ UNCHANGED <<n, link, wg, serverVars, clientVars>>

Spawn ==
  /\ Moves("spawn", "wait")
  /\ getter' = [getter EXCEPT ![n] = "asking"] /\ sender' = [sender EXCEPT ![n] = "born"]
  /\ UNCHANGED <<n, link, wg, serverVars, connected, cl, early, got>>

Left == wg[n] = 0

Wait ==
  \/ Moves("wait", IF Left THEN "dial" ELSE "parked") /\ UNCHANGED <<n, link, wg, serverVars, clientVars>>
  \/ Moves("woken", "dial") /\ wg[n] = 0 /\ UNCHANGED <<n, link, wg, serverVars, clientVars>>

\* "WaitGroup is reused before previous Wait has returned"
WaitPanics ==
  /\ at = "woken" /\ wg[n] # 0 /\ crashed' = "reused"
  /\ UNCHANGED <<side, at, n, link, wg, serverVars, clientVars, sends>>

-----------------------------------------------------------------------------
(* The handler, in its own goroutines. *)

Turns(i, from, to) == link[i] = from /\ link' = [link EXCEPT ![i] = to] /\ UNCHANGED <<side, n, sends>>

StartRuns(i) == Turns(i, "starting", "up") /\ UNCHANGED <<at, wg, serverVars, clientVars, crashed>>

\* The peer leaves, falls silent or cannot be written to: Stop takes the flag
\* away, closes the channel and the connection, and then calls RemoveCb.
Stop(i) == Turns(i, "up", "stopping") /\ UNCHANGED <<at, wg, serverVars, clientVars, crashed>>
CloseChan(i) == Turns(i, "stopping", "closed") /\ UNCHANGED <<at, wg, serverVars, clientVars, crashed>>

SetDisconnected(i) ==
  /\ side = "client" /\ Turns(i, "closed", "off") /\ connected' = FALSE
  /\ UNCHANGED <<at, wg, serverVars, cl, sender, getter, early, got, crashed>>

\* A counter that reaches zero wakes the loop; one below zero is a panic.
Done(i) ==
  IF wg[i] = 0
    THEN crashed' = "negative" /\ UNCHANGED <<at, wg>>
    ELSE /\ wg' = [wg EXCEPT ![i] = @ - 1] /\ UNCHANGED crashed
         /\ at' = IF at = "parked" /\ i = n /\ wg[i] = 1 THEN "woken" ELSE at

HandlerDone(i) ==
  /\ Turns(i, IF side = "client" THEN "off" ELSE "closed", "done") /\ Done(i)
  /\ UNCHANGED <<serverVars, clientVars>>

\* app.handlers.Delete(name), whichever link has the name by now.
Delete(i) ==
  /\ side = "server" /\ Turns(i, "done", "gone")
  /\ reg' = 0 /\ robbed' = (robbed \/ reg > i)
  /\ UNCHANGED <<at, wg, clientVars, crashed>>

\* cancel1: a link is "gone" when its context is done.
Cancel(i) ==
  /\ side = "client" /\ Turns(i, "done", "gone")
  /\ UNCHANGED <<at, wg, serverVars, clientVars, crashed>>

-----------------------------------------------------------------------------
(* The goroutines that use the link: SendMsg gives a message to the handler *)
(* app.cl holds now, or that the loop finds in the map; tryAddPacket looks at *)
(* its flag, and then sends. *)

\* The flag is down before the channel is closed.
Open(i) == link[i] \in Alive \cup {"stopping"}

\* "send on closed channel": nobody recovers.
SendPanics == crashed' = "closed" /\ UNCHANGED <<got, sender, sends>>

\* Mutant: the sender is not part of the group, and leaves it all the same.
JoinNot(i) == UNCHANGED wg

Join(i) == wg' = [wg EXCEPT ![i] = @ + 1]

SenderJoins(i) ==
  /\ sender[i] = "born" /\ sender' = [sender EXCEPT ![i] = "first"] /\ Join(i)
  /\ early' = IF wg[i] = 0 THEN early \cup {i} ELSE early
  /\ UNCHANGED <<side, at, n, link, serverVars, connected, cl, getter, got, sends, crashed>>

SenderTests(i) ==
  /\ sender[i] \in {"first", "select"}
  /\ IF link[cl] \in Alive THEN sender' = [sender EXCEPT ![i] = "sending"] /\ aim' = [aim EXCEPT ![i] = cl]
                           ELSE sender' = [sender EXCEPT ![i] = "top"] /\ aim' = aim
  /\ UNCHANGED <<side, at, n, link, wg, serverVars, connected, cl, getter, early, got, caller, crashed>>

SenderSends(i) ==
  /\ sender[i] = "sending"
  /\ \/ /\ Open(aim[i]) /\ got' = [got EXCEPT ![aim[i]] = @ \cup {i}]
        /\ sender' = [sender EXCEPT ![i] = "top"] /\ aim' = [aim EXCEPT ![i] = 0]
        /\ UNCHANGED <<caller, crashed>>
     \/ ~Open(aim[i]) /\ SendPanics
  /\ UNCHANGED <<side, at, n, link, wg, serverVars, connected, cl, getter, early>>

\* messageProcessLoop, or a request of a page.
CallerTests ==
  LET i == IF side = "server" THEN reg ELSE cl
  IN /\ caller = 0 /\ i # 0 /\ link[i] \in Alive /\ caller' = i
     /\ UNCHANGED <<side, at, n, link, wg, serverVars, clientVars, aim, crashed>>

CallerSends ==
  /\ caller # 0
  /\ \/ Open(caller) /\ caller' = 0 /\ UNCHANGED <<got, sender, aim, crashed>>
     \/ ~Open(caller) /\ SendPanics
  /\ UNCHANGED <<side, at, n, link, wg, serverVars, connected, cl, getter, early>>

\* Mutant: the loop condition looks at nothing.
LinkLostNever(i) == FALSE

LinkLost(i) == link[i] = "gone"

SenderSelects(i) ==
  /\ sender[i] = "top" /\ ~LinkLost(i) /\ sender' = [sender EXCEPT ![i] = "select"]
  /\ UNCHANGED <<side, at, n, link, wg, serverVars, connected, cl, getter, early, got, sends, crashed>>

SenderEnds(i) ==
  /\ sender[i] \in {"top", "select"} /\ LinkLost(i) /\ sender' = [sender EXCEPT ![i] = "end"] /\ Done(i)
  /\ UNCHANGED <<side, n, link, serverVars, connected, cl, getter, early, got, sends>>

\* Contacts are fetched at once and every two minutes; a request ends with the
\* context.
GetterStep(i) ==
  /\ \/ getter[i] = "asking" /\ getter' = [getter EXCEPT ![i] = "select"]
     \/ getter[i] = "select" /\ ~LinkLost(i) /\ getter' = [getter EXCEPT ![i] = "asking"]
     \/ getter[i] = "select" /\ LinkLost(i) /\ getter' = [getter EXCEPT ![i] = "end"]
  /\ UNCHANGED <<side, at, n, link, wg, serverVars, connected, cl, sender, early, got, sends, crashed>>

-----------------------------------------------------------------------------
LoopStep == Connect \/ Make \/ GoStart \/ AddClientHandler \/ GetConfig \/ Spawn \/ Wait \/ WaitPanics
HandlerStep(i) == StartRuns(i) \/ CloseChan(i) \/ SetDisconnected(i) \/ HandlerDone(i) \/ Delete(i) \/ Cancel(i)
SenderStep(i) == SenderJoins(i) \/ SenderTests(i) \/ SenderSends(i) \/ SenderSelects(i) \/ SenderEnds(i)

Crashed == crashed # "no"

Next == /\ ~Crashed
        /\ \/ Dial \/ LoopStep \/ CallerTests \/ CallerSends
           \/ \E i \in Ids : HandlerStep(i) \/ Stop(i) \/ SenderStep(i) \/ GetterStep(i)

\* Goroutines go on, timers fire, a request ends.  The peer may be out of
\* reach for ever, or never leave.
Fairness == /\ WF_vars(~Crashed /\ LoopStep)
            /\ \A i \in Ids : /\ WF_vars(~Crashed /\ HandlerStep(i))
                              /\ WF_vars(~Crashed /\ SenderStep(i)) /\ WF_vars(~Crashed /\ GetterStep(i))

Spec == Init /\ [][Next]_vars /\ Fairness

-----------------------------------------------------------------------------
\* The loop never has two links: it waits for the handler to remove itself,
\* and a handler closes its connection first (Stop, client_handler.go:438).
OneLink == Cardinality({i \in Ids : link[i] \in Alive}) <= 1

\* A link that is up is in the map the message loop walks, and no link of old
\* is there in its place, unless the RemoveCb of its predecessor, which lets
\* the loop go on before it deletes the name (main.go:222), took it out.
LiveIsRegistered ==
  side = "server" /\ at = "parked" => \/ reg = n
                                      \/ reg = 0 /\ (robbed \/ link[n] \notin Alive)

\* IsConnected says what is: it is set before the handler can fail
\* (webclient/main.go:162) and cleared by it alone.
FlagIsTrue ==
  side = "client" => /\ connected => at = "make" \/ link[n] \in Alive \cup {"stopping", "closed"}
                     /\ \A i \in Ids : link[i] \in Alive => connected

\* What the rest of the process knows of the link is the link there is.
LinkIsKnown == TypeOK /\ OneLink /\ LiveIsRegistered /\ FlagIsTrue

\* A position sender reaches a later link, and can panic at it, only when it
\* joined the group after its own link was gone, which Add inside the goroutine
\* allows (webclient/main.go:212).
StraysCameLate == \A i, j \in Ids : i \in got[j] \/ aim[i] = j => i = j \/ i \in early

\* The process ends by one of two panics.  A sender joins the group of a lost
\* link just as the loop wakes; or a goroutine that found a link active sends
\* when Stop has closed its channel (client_handler.go:537, 443), which is one
\* that Stop had not reached when it looked.  Done never finds the counter at
\* zero.
CrashesKnown ==
  /\ crashed # "negative"
  /\ crashed = "reused" => at = "woken" /\ n \in early
  /\ crashed = "closed" => \E i \in {aim[j] : j \in Ids} \cup {caller} :
                            i # 0 /\ link[i] \in {"closed", "off", "done", "gone"}

\* What comes of wg.Add being called inside the goroutine that joins, and of a
\* flag that is looked at before the channel is used.
LateJoins == StraysCameLate /\ CrashesKnown

\* A link that is lost is dialled again, or the process has ended: the loop and
\* the sender that wait for each other's Done get it.
Reconnects ==
  \A i \in Ids : link[i] = "stopping" ~> (link[i] = "gone" /\ (n > i \/ at \in {"dial", "sleep"})) \/ Crashed

\* On every link the client reports its position, unless it is lost first.
PositionIsSent ==
  \A i \in Ids : (side = "client" /\ link[i] = "up") ~> (i \in got[i] \/ link[i] # "up" \/ Crashed)

\* What was started for a link ends with it.
GoroutinesEnd ==
  \A i \in Ids : (link[i] = "gone" /\ sender[i] # "none") ~> (sender[i] = "end" /\ getter[i] = "end") \/ Crashed

\* A link has one life after another, and each the same.
LinksLive == Reconnects /\ PositionIsSent /\ GoroutinesEnd
=============================================================================
