----------------------------- MODULE LinksProofs -----------------------------
(***************************************************************************)
(* Links, for any number of links: the loop has one handler at a time, the *)
(* rest of the process knows it, and what a late wg.Add can do is bounded. *)
(* Then Browsers, as Web: what a websocket's handler leaves when it stops, *)
(* and that the map of a browser shows the items.                          *)
(***************************************************************************)
EXTENDS Links, FiniteSetTheorems, SequenceTheorems, TLAPS
-----------------------------------------------------------------------------
\* Who counts in the WaitGroup of a link: the handler until it has called
\* Done, and the sender between Add and Done.
Held(i) == link[i] \in Alive \cup {"stopping", "closed", "off"}
Joined(i) == sender[i] \in {"first", "sending", "top", "select"}
Num(b) == IF b THEN 1 ELSE 0
GroupCounts == \A i \in Ids : wg[i] = Num(Held(i)) + Num(Joined(i))

\* The loop has waited for the link, or is about to.
Behind(i) == i < n \/ (i = n /\ at \in {"dial", "sleep", "make", "woken"})
BehindIsOver == \A i \in Ids : Behind(i) => ~Held(i) /\ (Joined(i) => i \in early)

\* What the loop has not made is not there.
Unmade(i) == i > n \/ (i = n /\ at = "make")
Unspawned(i) == i > n \/ (i = n /\ at \in {"make", "start", "store", "config", "spawn"})
AheadIsNothing ==
  /\ at \notin {"dial", "sleep"} => n \in Ids
  /\ at = "start" => link[n] = "new"
  /\ at \in {"config", "spawn"} => side = "client"
  /\ \A i \in Ids : (Unmade(i) => link[i] = "none") /\ (Unspawned(i) => sender[i] = "none")

\* LiveIsRegistered, from when the loop has entered the link.
Registered ==
  side = "server" /\ at \in {"wait", "parked"} => \/ reg = n
                                                  \/ reg = 0 /\ (robbed \/ link[n] \notin Alive)

\* FlagIsTrue, and what it needs while a link is made.
Flagged ==
  side = "client" => /\ connected => n \in Ids /\ (at = "make" \/ link[n] \in Alive \cup {"stopping", "closed"})
                     /\ at = "make" => connected
                     /\ \A i \in Ids : link[i] \in Alive => connected

\* A link that somebody is to send to was made, and app.cl is there before any sender.
AimsKnown ==
  /\ \A i \in Ids : (\E j \in Ids : aim[j] = i) \/ caller = i => link[i] # "none"
  /\ \A i \in Ids : sender[i] = "sending" => aim[i] # 0
  /\ cl = 0 => /\ \A i \in Ids : sender[i] = "none"
               /\ side = "client" => at \in {"dial", "sleep", "make"}

\* The inductive invariant.
IInv == /\ TypeOK /\ GroupCounts /\ BehindIsOver /\ AheadIsNothing
        /\ Registered /\ Flagged /\ AimsKnown /\ StraysCameLate /\ CrashesKnown
-----------------------------------------------------------------------------
\* The initial states, with no link.
LEMMA Initially == Init => IInv
<1> SUFFICES ASSUME Init PROVE IInv
  OBVIOUS
<1> USE LinksAssumption DEF Init, Ids, Alive, Removing
<1>1. TypeOK
  <2>1. /\ link \in [Ids -> {"none", "gone"} \cup Alive \cup Removing] /\ wg \in [Ids -> 0..2]
        /\ sender \in [Ids -> {"none", "born", "first", "sending", "top", "select", "end"}]
        /\ getter \in [Ids -> {"none", "asking", "select", "end"}]
    OBVIOUS
  <2>2. n \in 0..MaxLinks /\ reg \in 0..n /\ cl \in 0..n
    OBVIOUS
  <2>3. early \subseteq Ids /\ got \in [Ids -> SUBSET Ids]
    OBVIOUS
  <2>4. robbed \in BOOLEAN /\ connected \in BOOLEAN /\ crashed \in {"no", "reused", "negative", "closed"}
    OBVIOUS
  <2>5. aim \in [Ids -> 0..MaxLinks] /\ caller \in 0..MaxLinks
    OBVIOUS
  <2> QED
    BY <2>1, <2>2, <2>3, <2>4, <2>5 DEF TypeOK
<1>2. GroupCounts
  BY DEF GroupCounts, Held, Joined, Num, AheadIsNothing, Unmade, Unspawned
<1>3. BehindIsOver
  BY DEF BehindIsOver, Behind, GroupCounts, Held, Joined, Num, AheadIsNothing, Unmade,
     Unspawned
<1>4. AheadIsNothing
  BY DEF AheadIsNothing, Unmade, Unspawned, BehindIsOver, Behind, Held
<1>5. Registered
  BY DEF Registered, AheadIsNothing, Unmade, BehindIsOver, Behind, Held
<1>6. Flagged
  BY DEF Flagged, AheadIsNothing, Unmade, BehindIsOver, Behind, Held
<1>7. StraysCameLate
  BY DEF StraysCameLate, AheadIsNothing, Unspawned, BehindIsOver, Behind, Held, Joined
<1>8. CrashesKnown
  BY DEF CrashesKnown, BehindIsOver, Behind, GroupCounts, Held, Joined, Num, AheadIsNothing
<1>9. AimsKnown
  BY DEF AimsKnown
<1> QED
  BY <1>9, <1>1, <1>2, <1>3, <1>4, <1>5, <1>6, <1>7, <1>8 DEF IInv

\* Steps of the loop (ConnectTo, Run).
LEMMA LoopKeeps ==
  ASSUME IInv, ~Crashed, Dial \/ LoopStep
  PROVE  IInv'
<1> USE LinksAssumption DEF IInv, TypeOK, Ids, Alive, Removing, Moves, Turns, serverVars, clientVars, sends, Crashed
<1>1. CASE Dial
  <2> USE <1>1 DEF Dial
  <2>1. TypeOK'
    BY DEF GroupCounts, Held, Joined, Num
  <2>2. GroupCounts'
    BY DEF GroupCounts, Held, Joined, Num, AheadIsNothing, Unmade, Unspawned
  <2>3. BehindIsOver'
    BY DEF BehindIsOver, Behind, GroupCounts, Held, Joined, Num, AheadIsNothing, Unmade,
       Unspawned
  <2>4. AheadIsNothing'
    BY DEF AheadIsNothing, Unmade, Unspawned, BehindIsOver, Behind, Held
  <2>5. Registered'
    BY DEF Registered, AheadIsNothing, Unmade, BehindIsOver, Behind, Held
  <2>6. Flagged'
    BY DEF Flagged, AheadIsNothing, Unmade, BehindIsOver, Behind, Held
  <2>7. StraysCameLate'
    BY DEF StraysCameLate, AheadIsNothing, Unspawned, BehindIsOver, Behind, Held, Joined
  <2>8. CrashesKnown'
    BY DEF CrashesKnown, BehindIsOver, Behind, GroupCounts, Held, Joined, Num,
       AheadIsNothing
  <2>9. AimsKnown'
    BY DEF AimsKnown, AheadIsNothing, Unmade
  <2> QED
    BY ONLY <2>1, <2>2, <2>3, <2>4, <2>5, <2>6, <2>7, <2>8, <2>9 DEF IInv
<1>2. CASE Connect
  <2> USE <1>2 DEF Connect
  <2>1. TypeOK'
    BY DEF GroupCounts, Held, Joined, Num
  <2>2. GroupCounts'
    BY DEF GroupCounts, Held, Joined, Num, AheadIsNothing, Unmade, Unspawned
  <2>3. BehindIsOver'
    BY DEF BehindIsOver, Behind, GroupCounts, Held, Joined, Num, AheadIsNothing, Unmade,
       Unspawned
  <2>4. AheadIsNothing'
    BY DEF AheadIsNothing, Unmade, Unspawned, BehindIsOver, Behind, Held
  <2>5. Registered'
    BY DEF Registered, AheadIsNothing, Unmade, BehindIsOver, Behind, Held
  <2>6. Flagged'
    <3>1. connected' <=> side' = "client"
      OBVIOUS
    <3>2. \A i \in Ids : link'[i] \notin Alive
      BY DEF BehindIsOver, Behind, Held, AheadIsNothing, Unmade
    <3> QED
      BY <3>1, <3>2 DEF Flagged
  <2>7. StraysCameLate'
    BY DEF StraysCameLate, AheadIsNothing, Unspawned, BehindIsOver, Behind, Held, Joined
  <2>8. CrashesKnown'
    BY DEF CrashesKnown, BehindIsOver, Behind, GroupCounts, Held, Joined, Num,
       AheadIsNothing
  <2>9. AimsKnown'
    BY DEF AimsKnown, AheadIsNothing, Unmade
  <2> QED
    BY ONLY <2>1, <2>2, <2>3, <2>4, <2>5, <2>6, <2>7, <2>8, <2>9 DEF IInv
<1>3. CASE Make
  <2>0. /\ link \in [Ids -> {"none", "gone"} \cup Alive \cup Removing] /\ wg \in [Ids -> 0..2] /\ Make
    BY <1>3
  <2> USE <1>3 DEF Make, OneToWaitFor
  <2>1. TypeOK'
    <3>1. n \in Ids
      BY DEF AheadIsNothing
    <3>2. link' \in [Ids -> {"none", "gone"} \cup Alive \cup Removing] /\ wg' \in [Ids -> 0..2]
      BY ONLY <3>1, <2>0 DEF Make, Alive, Removing, OneToWaitFor
    <3>3. cl' \in 0..n' /\ at' = "start"
      BY <3>1
    <3> QED
      BY <3>2, <3>3
  <2>2. GroupCounts'
    BY DEF GroupCounts, Held, Joined, Num, AheadIsNothing, Unmade, Unspawned
  <2>3. BehindIsOver'
    BY DEF BehindIsOver, Behind, GroupCounts, Held, Joined, Num, AheadIsNothing, Unmade,
       Unspawned
  <2>4. AheadIsNothing'
    BY DEF AheadIsNothing, Unmade, Unspawned, BehindIsOver, Behind, Held
  <2>5. Registered'
    BY DEF Registered, AheadIsNothing, Unmade, BehindIsOver, Behind, Held
  <2>6. Flagged'
    BY DEF Flagged, AheadIsNothing, Unmade, BehindIsOver, Behind, Held
  <2>7. StraysCameLate'
    BY DEF StraysCameLate, AheadIsNothing, Unspawned, BehindIsOver, Behind, Held, Joined
  <2>8. CrashesKnown'
    BY DEF CrashesKnown, BehindIsOver, Behind, GroupCounts, Held, Joined, Num,
       AheadIsNothing
  <2>9. AimsKnown'
    BY DEF AimsKnown, AheadIsNothing, Unmade
  <2> QED
    BY ONLY <2>1, <2>2, <2>3, <2>4, <2>5, <2>6, <2>7, <2>8, <2>9 DEF IInv
<1>4. CASE GoStart
  BY <1>4 DEF GoStart, GroupCounts, Held, Joined, Num, AheadIsNothing, Unmade, Unspawned,
     BehindIsOver, Behind, Registered, Flagged, StraysCameLate, CrashesKnown, AimsKnown
<1>5. CASE AddClientHandler
  <2> USE <1>5 DEF AddClientHandler, Stored
  <2>1. TypeOK'
    <3>1. robbed' \in BOOLEAN /\ connected' \in BOOLEAN /\ crashed' = crashed
      OBVIOUS
    <3>2. reg' \in 0..n' /\ cl' \in 0..n' /\ n' \in 0..MaxLinks
      OBVIOUS
    <3> QED
      BY <3>1, <3>2
  <2>2. GroupCounts'
    BY DEF GroupCounts, Held, Joined, Num, AheadIsNothing, Unmade, Unspawned
  <2>3. BehindIsOver'
    BY DEF BehindIsOver, Behind, GroupCounts, Held, Joined, Num, AheadIsNothing, Unmade,
       Unspawned
  <2>4. AheadIsNothing'
    BY DEF AheadIsNothing, Unmade, Unspawned, BehindIsOver, Behind, Held
  <2>5. Registered'
    BY DEF Registered, AheadIsNothing, Unmade, BehindIsOver, Behind, Held
  <2>6. Flagged'
    BY DEF Flagged, AheadIsNothing, Unmade, BehindIsOver, Behind, Held
  <2>7. StraysCameLate'
    BY DEF StraysCameLate, AheadIsNothing, Unspawned, BehindIsOver, Behind, Held, Joined
  <2>8. CrashesKnown'
    BY DEF CrashesKnown, BehindIsOver, Behind, GroupCounts, Held, Joined, Num,
       AheadIsNothing
  <2>9. AimsKnown'
    BY DEF AimsKnown, AheadIsNothing, Unmade
  <2> QED
    BY ONLY <2>1, <2>2, <2>3, <2>4, <2>5, <2>6, <2>7, <2>8, <2>9 DEF IInv
<1>6. CASE GetConfig
  BY <1>6 DEF GetConfig, GroupCounts, Held, Joined, Num, AheadIsNothing, Unmade, Unspawned,
     BehindIsOver, Behind, Registered, Flagged, StraysCameLate, CrashesKnown, AimsKnown
<1>7. CASE Spawn
  <2> USE <1>7 DEF Spawn
  <2>1. TypeOK'
    BY DEF GroupCounts, Held, Joined, Num
  <2>2. GroupCounts'
    BY DEF GroupCounts, Held, Joined, Num, AheadIsNothing, Unmade, Unspawned
  <2>3. BehindIsOver'
    BY DEF BehindIsOver, Behind, GroupCounts, Held, Joined, Num, AheadIsNothing, Unmade,
       Unspawned
  <2>4. AheadIsNothing'
    BY DEF AheadIsNothing, Unmade, Unspawned, BehindIsOver, Behind, Held
  <2>5. Registered'
    BY DEF Registered, AheadIsNothing, Unmade, BehindIsOver, Behind, Held
  <2>6. Flagged'
    BY DEF Flagged, AheadIsNothing, Unmade, BehindIsOver, Behind, Held
  <2>7. StraysCameLate'
    BY DEF StraysCameLate, AheadIsNothing, Unspawned, BehindIsOver, Behind, Held, Joined
  <2>8. CrashesKnown'
    BY DEF CrashesKnown, BehindIsOver, Behind, GroupCounts, Held, Joined, Num,
       AheadIsNothing
  <2>9. AimsKnown'
    BY DEF AimsKnown, AheadIsNothing, Unmade
  <2> QED
    BY ONLY <2>1, <2>2, <2>3, <2>4, <2>5, <2>6, <2>7, <2>8, <2>9 DEF IInv
<1>8. CASE Wait
  <2> USE <1>8 DEF Wait, Left
  <2>1. TypeOK'
    BY DEF GroupCounts, Held, Joined, Num
  <2>2. GroupCounts'
    BY DEF GroupCounts, Held, Joined, Num, AheadIsNothing, Unmade, Unspawned
  <2>3. BehindIsOver'
    BY DEF BehindIsOver, Behind, GroupCounts, Held, Joined, Num, AheadIsNothing, Unmade,
       Unspawned
  <2>4. AheadIsNothing'
    BY DEF AheadIsNothing, Unmade, Unspawned, BehindIsOver, Behind, Held
  <2>5. Registered'
    BY DEF Registered, AheadIsNothing, Unmade, BehindIsOver, Behind, Held
  <2>6. Flagged'
    BY DEF Flagged, AheadIsNothing, Unmade, BehindIsOver, Behind, Held
  <2>7. StraysCameLate'
    BY DEF StraysCameLate, AheadIsNothing, Unspawned, BehindIsOver, Behind, Held, Joined
  <2>8. CrashesKnown'
    BY DEF CrashesKnown, BehindIsOver, Behind, GroupCounts, Held, Joined, Num,
       AheadIsNothing
  <2>9. AimsKnown'
    BY DEF AimsKnown, AheadIsNothing, Unmade
  <2> QED
    BY ONLY <2>1, <2>2, <2>3, <2>4, <2>5, <2>6, <2>7, <2>8, <2>9 DEF IInv
<1>9. CASE WaitPanics
  BY <1>9 DEF WaitPanics, GroupCounts, Held, Joined, Num, AheadIsNothing, Unmade,
     Unspawned, BehindIsOver, Behind, Registered, Flagged, StraysCameLate, CrashesKnown, AimsKnown
<1> QED
  BY <1>1, <1>2, <1>3, <1>4, <1>5, <1>6, <1>7, <1>8, <1>9 DEF LoopStep

\* Steps of the handler and of its RemoveCb.
LEMMA HandlerKeeps ==
  ASSUME IInv, ~Crashed, NEW i \in Ids, HandlerStep(i) \/ Stop(i)
  PROVE  IInv'
<1> USE LinksAssumption DEF IInv, TypeOK, Ids, Alive, Removing, Moves, Turns, serverVars, clientVars, sends, Crashed
<1>1. CASE StartRuns(i)
  <2> USE <1>1 DEF StartRuns
  <2>1. TypeOK'
    BY DEF GroupCounts, Held, Joined, Num
  <2>2. GroupCounts'
    BY DEF GroupCounts, Held, Joined, Num, AheadIsNothing, Unmade, Unspawned
  <2>3. BehindIsOver'
    BY DEF BehindIsOver, Behind, GroupCounts, Held, Joined, Num, AheadIsNothing, Unmade,
       Unspawned
  <2>4. AheadIsNothing'
    BY DEF AheadIsNothing, Unmade, Unspawned, BehindIsOver, Behind, Held
  <2>5. Registered'
    BY DEF Registered, AheadIsNothing, Unmade, BehindIsOver, Behind, Held
  <2>6. Flagged'
    BY DEF Flagged, AheadIsNothing, Unmade, BehindIsOver, Behind, Held
  <2>7. StraysCameLate'
    BY DEF StraysCameLate, AheadIsNothing, Unspawned, BehindIsOver, Behind, Held, Joined
  <2>8. CrashesKnown'
    BY DEF CrashesKnown, BehindIsOver, Behind, GroupCounts, Held, Joined, Num,
       AheadIsNothing
  <2>9. AimsKnown'
    BY DEF AimsKnown, AheadIsNothing, Unmade
  <2> QED
    BY ONLY <2>1, <2>2, <2>3, <2>4, <2>5, <2>6, <2>7, <2>8, <2>9 DEF IInv
<1>2. CASE Stop(i)
  <2> USE <1>2 DEF Stop
  <2>1. TypeOK'
    BY DEF GroupCounts, Held, Joined, Num
  <2>2. GroupCounts'
    BY DEF GroupCounts, Held, Joined, Num, AheadIsNothing, Unmade, Unspawned
  <2>3. BehindIsOver'
    BY DEF BehindIsOver, Behind, GroupCounts, Held, Joined, Num, AheadIsNothing, Unmade,
       Unspawned
  <2>4. AheadIsNothing'
    BY DEF AheadIsNothing, Unmade, Unspawned, BehindIsOver, Behind, Held
  <2>5. Registered'
    BY DEF Registered, AheadIsNothing, Unmade, BehindIsOver, Behind, Held
  <2>6. Flagged'
    BY DEF Flagged, AheadIsNothing, Unmade, BehindIsOver, Behind, Held
  <2>7. StraysCameLate'
    BY DEF StraysCameLate, AheadIsNothing, Unspawned, BehindIsOver, Behind, Held, Joined
  <2>8. CrashesKnown'
    BY DEF CrashesKnown, BehindIsOver, Behind, GroupCounts, Held, Joined, Num,
       AheadIsNothing
  <2>9. AimsKnown'
    BY DEF AimsKnown, AheadIsNothing, Unmade
  <2> QED
    BY ONLY <2>1, <2>2, <2>3, <2>4, <2>5, <2>6, <2>7, <2>8, <2>9 DEF IInv
<1>3. CASE SetDisconnected(i)
  <2> USE <1>3 DEF SetDisconnected
  <2>1. TypeOK'
    BY DEF GroupCounts, Held, Joined, Num
  <2>2. GroupCounts'
    BY DEF GroupCounts, Held, Joined, Num, AheadIsNothing, Unmade, Unspawned
  <2>3. BehindIsOver'
    BY DEF BehindIsOver, Behind, GroupCounts, Held, Joined, Num, AheadIsNothing, Unmade,
       Unspawned
  <2>4. AheadIsNothing'
    BY DEF AheadIsNothing, Unmade, Unspawned, BehindIsOver, Behind, Held
  <2>5. Registered'
    BY DEF Registered, AheadIsNothing, Unmade, BehindIsOver, Behind, Held
  <2>6. Flagged'
    BY DEF Flagged, AheadIsNothing, Unmade, BehindIsOver, Behind, Held
  <2>7. StraysCameLate'
    BY DEF StraysCameLate, AheadIsNothing, Unspawned, BehindIsOver, Behind, Held, Joined
  <2>8. CrashesKnown'
    BY DEF CrashesKnown, BehindIsOver, Behind, GroupCounts, Held, Joined, Num,
       AheadIsNothing
  <2>9. AimsKnown'
    BY DEF AimsKnown, AheadIsNothing, Unmade
  <2> QED
    BY ONLY <2>1, <2>2, <2>3, <2>4, <2>5, <2>6, <2>7, <2>8, <2>9 DEF IInv
<1>4. CASE HandlerDone(i)
  <2> USE <1>4 DEF HandlerDone, Done
  <2>a. wg[i] # 0
    <3>1. Held(i)
      BY DEF Held
    <3>2. wg[i] = 1 + Num(Joined(i))
      BY <3>1 DEF GroupCounts, Num
    <3> QED
      BY <3>2 DEF Num
  <2>b. wg' = [wg EXCEPT ![i] = @ - 1] /\ (at' = at \/ at' = "woken")
    BY <2>a
  <2>c. crashed' = crashed
    BY <2>a
  <2>0. crashed' = "no"
    BY <2>c
  <2>d. /\ link' \in [Ids -> {"none", "gone"} \cup Alive \cup Removing]
        /\ \A j \in Ids : link'[j] = IF j = i THEN "done" ELSE link[j]
        /\ UNCHANGED <<n, sender, early>> /\ Held(i)
    BY DEF Held
  <2>e. \A j \in Ids : wg'[j] = IF j = i THEN wg[j] - 1 ELSE wg[j]
    BY <2>b
  <2>f. wg \in [Ids -> 0..2] /\ i \in Ids /\ GroupCounts /\ BehindIsOver
    OBVIOUS
  <2>g. at' = IF at = "parked" /\ i = n /\ wg[i] = 1 THEN "woken" ELSE at
    BY <2>a
  <2>1. TypeOK'
    <3>1. wg' \in [Ids -> 0..2]
      BY <2>a, <2>b
    <3>2. at' \in {"dial", "sleep", "make", "start", "store", "config", "spawn", "wait", "parked", "woken"}
      BY <2>b
    <3> QED
      BY <3>1, <3>2, <2>c, <2>d
  <2>2. GroupCounts'
    BY ONLY <2>d, <2>e, <2>f DEF GroupCounts, Held, Joined, Num, Alive
  <2>3. BehindIsOver'
    <3>1. \A j \in Ids : Behind(j)' => Behind(j) \/ (j = i /\ wg[i] = 1)
      BY ONLY <2>d, <2>g DEF Behind
    <3>2. ~Held(i)' /\ \A j \in Ids \ {i} : Held(j)' => Held(j)
      BY ONLY <2>d, <2>f DEF Held, Alive
    <3>3. ~Behind(i) /\ (wg[i] = 1 => ~Joined(i))
      BY ONLY <2>d, <2>f DEF GroupCounts, BehindIsOver, Num
    <3>4. \A j \in Ids : Joined(j)' <=> Joined(j)
      BY ONLY <2>d DEF Joined
    <3> QED
      BY ONLY <3>1, <3>2, <3>3, <3>4, <2>d, <2>f DEF BehindIsOver
  <2>4. AheadIsNothing'
    BY DEF AheadIsNothing, Unmade, Unspawned, BehindIsOver, Behind, Held
  <2>5. Registered'
    BY DEF Registered, AheadIsNothing, Unmade, BehindIsOver, Behind, Held
  <2>6. Flagged'
    BY DEF Flagged, AheadIsNothing, Unmade, BehindIsOver, Behind, Held
  <2>7. StraysCameLate'
    BY DEF StraysCameLate, AheadIsNothing, Unspawned, BehindIsOver, Behind, Held, Joined
  <2>8. CrashesKnown'
    BY <2>0 DEF CrashesKnown, BehindIsOver, Behind, GroupCounts, Held, Joined, Num,
       AheadIsNothing
  <2>9. AimsKnown'
    BY DEF AimsKnown, AheadIsNothing, Unmade
  <2> QED
    BY ONLY <2>1, <2>2, <2>3, <2>4, <2>5, <2>6, <2>7, <2>8, <2>9 DEF IInv
<1>5. CASE Delete(i)
  <2> USE <1>5 DEF Delete
  <2>1. TypeOK'
    BY DEF GroupCounts, Held, Joined, Num
  <2>2. GroupCounts'
    BY DEF GroupCounts, Held, Joined, Num, AheadIsNothing, Unmade, Unspawned
  <2>3. BehindIsOver'
    BY DEF BehindIsOver, Behind, GroupCounts, Held, Joined, Num, AheadIsNothing, Unmade,
       Unspawned
  <2>4. AheadIsNothing'
    BY DEF AheadIsNothing, Unmade, Unspawned, BehindIsOver, Behind, Held
  <2>5. Registered'
    <3>1. CASE i = n
      BY <3>1 DEF Registered
    <3>2. CASE i # n
      <4>1. i < n
        BY <3>2 DEF AheadIsNothing, Unmade
      <4>2. reg = n => robbed'
        BY <4>1
      <4>3. robbed => robbed'
        OBVIOUS
      <4>4. link'[n] = link[n] /\ reg' = 0 /\ at' = at /\ side' = side /\ n' = n
        BY <3>2
      <4> QED
        BY <4>2, <4>3, <4>4 DEF Registered
    <3> QED
      BY <3>1, <3>2
  <2>6. Flagged'
    BY DEF Flagged, AheadIsNothing, Unmade, BehindIsOver, Behind, Held
  <2>7. StraysCameLate'
    BY DEF StraysCameLate, AheadIsNothing, Unspawned, BehindIsOver, Behind, Held, Joined
  <2>8. CrashesKnown'
    BY DEF CrashesKnown, BehindIsOver, Behind, GroupCounts, Held, Joined, Num,
       AheadIsNothing
  <2>9. AimsKnown'
    BY DEF AimsKnown, AheadIsNothing, Unmade
  <2> QED
    BY ONLY <2>1, <2>2, <2>3, <2>4, <2>5, <2>6, <2>7, <2>8, <2>9 DEF IInv
<1>6. CASE Cancel(i)
  <2> USE <1>6 DEF Cancel
  <2>1. TypeOK'
    BY DEF GroupCounts, Held, Joined, Num
  <2>2. GroupCounts'
    BY DEF GroupCounts, Held, Joined, Num, AheadIsNothing, Unmade, Unspawned
  <2>3. BehindIsOver'
    BY DEF BehindIsOver, Behind, GroupCounts, Held, Joined, Num, AheadIsNothing, Unmade,
       Unspawned
  <2>4. AheadIsNothing'
    BY DEF AheadIsNothing, Unmade, Unspawned, BehindIsOver, Behind, Held
  <2>5. Registered'
    BY DEF Registered, AheadIsNothing, Unmade, BehindIsOver, Behind, Held
  <2>6. Flagged'
    BY DEF Flagged, AheadIsNothing, Unmade, BehindIsOver, Behind, Held
  <2>7. StraysCameLate'
    BY DEF StraysCameLate, AheadIsNothing, Unspawned, BehindIsOver, Behind, Held, Joined
  <2>8. CrashesKnown'
    BY DEF CrashesKnown, BehindIsOver, Behind, GroupCounts, Held, Joined, Num,
       AheadIsNothing
  <2>9. AimsKnown'
    BY DEF AimsKnown, AheadIsNothing, Unmade
  <2> QED
    BY ONLY <2>1, <2>2, <2>3, <2>4, <2>5, <2>6, <2>7, <2>8, <2>9 DEF IInv
<1>7. CASE CloseChan(i)
  <2> USE <1>7 DEF CloseChan
  <2>1. TypeOK'
    BY DEF GroupCounts, Held, Joined, Num
  <2>2. GroupCounts'
    BY DEF GroupCounts, Held, Joined, Num, AheadIsNothing, Unmade, Unspawned
  <2>3. BehindIsOver'
    BY DEF BehindIsOver, Behind, GroupCounts, Held, Joined, Num, AheadIsNothing, Unmade,
       Unspawned
  <2>4. AheadIsNothing'
    BY DEF AheadIsNothing, Unmade, Unspawned, BehindIsOver, Behind, Held
  <2>5. Registered'
    BY DEF Registered, AheadIsNothing, Unmade, BehindIsOver, Behind, Held
  <2>6. Flagged'
    BY DEF Flagged, AheadIsNothing, Unmade, BehindIsOver, Behind, Held
  <2>7. StraysCameLate'
    BY DEF StraysCameLate, AheadIsNothing, Unspawned, BehindIsOver, Behind, Held, Joined
  <2>8. CrashesKnown'
    BY DEF CrashesKnown, BehindIsOver, Behind, GroupCounts, Held, Joined, Num,
       AheadIsNothing
  <2>9. AimsKnown'
    BY DEF AimsKnown, AheadIsNothing, Unmade
  <2> QED
    BY ONLY <2>1, <2>2, <2>3, <2>4, <2>5, <2>6, <2>7, <2>8, <2>9 DEF IInv
<1> QED
  BY <1>1, <1>2, <1>3, <1>4, <1>5, <1>6, <1>7 DEF HandlerStep

\* Steps of myPosSender and periodicGetter.
LEMMA SenderKeeps ==
  ASSUME IInv, ~Crashed, NEW i \in Ids, SenderStep(i) \/ GetterStep(i)
  PROVE  IInv'
<1> USE LinksAssumption DEF IInv, TypeOK, Ids, Alive, Removing, Moves, Turns, serverVars, clientVars, sends, Crashed
<1>1. CASE SenderJoins(i)
  <2> USE <1>1 DEF SenderJoins, Join
  <2>a. /\ \A j \in Ids : sender'[j] = IF j = i THEN "first" ELSE sender[j]
        /\ sender[i] = "born" /\ link' = link /\ wg \in [Ids -> 0..2] /\ i \in Ids /\ GroupCounts
    OBVIOUS
  <2>b. wg' = [wg EXCEPT ![i] = @ + 1]
    OBVIOUS
  <2>c. wg[i] \in 0..1
    BY ONLY <2>a DEF GroupCounts, Joined, Num
  <2>1. TypeOK'
    <3>1. wg' \in [Ids -> 0..2]
      BY ONLY <2>a, <2>b, <2>c
    <3>2. sender' \in [Ids -> {"none", "born", "first", "sending", "top", "select", "end"}]
      OBVIOUS
    <3>3. early' \subseteq Ids
      OBVIOUS
    <3> QED
      BY <3>1, <3>2, <3>3
  <2>2. GroupCounts'
    BY ONLY <2>a, <2>b DEF GroupCounts, Held, Joined, Num
  <2>3. BehindIsOver'
    BY DEF BehindIsOver, Behind, GroupCounts, Held, Joined, Num, AheadIsNothing, Unmade,
       Unspawned
  <2>4. AheadIsNothing'
    BY DEF AheadIsNothing, Unmade, Unspawned, BehindIsOver, Behind, Held
  <2>5. Registered'
    BY DEF Registered, AheadIsNothing, Unmade, BehindIsOver, Behind, Held
  <2>6. Flagged'
    BY DEF Flagged, AheadIsNothing, Unmade, BehindIsOver, Behind, Held
  <2>7. StraysCameLate'
    BY DEF StraysCameLate, AheadIsNothing, Unspawned, BehindIsOver, Behind, Held, Joined
  <2>8. CrashesKnown'
    BY DEF CrashesKnown, BehindIsOver, Behind, GroupCounts, Held, Joined, Num,
       AheadIsNothing
  <2>9. AimsKnown'
    BY DEF AimsKnown, AheadIsNothing, Unmade
  <2> QED
    BY ONLY <2>1, <2>2, <2>3, <2>4, <2>5, <2>6, <2>7, <2>8, <2>9 DEF IInv
<1>2. CASE SenderSends(i)
  <2> USE <1>2 DEF SenderSends, SendPanics, Open
  <2>1. TypeOK'
    <3>1. sender' \in [Ids -> {"none", "born", "first", "sending", "top", "select", "end"}] /\ crashed' \in {"no", "closed"}
      OBVIOUS
    <3>2. aim[i] \in Ids /\ got' \in [Ids -> SUBSET Ids]
      BY DEF AimsKnown
    <3>3. aim' \in [Ids -> 0..MaxLinks]
      OBVIOUS
    <3> QED
      BY <3>1, <3>2, <3>3
  <2>2. GroupCounts'
    BY DEF GroupCounts, Held, Joined, Num, AheadIsNothing, Unmade, Unspawned
  <2>3. BehindIsOver'
    BY DEF BehindIsOver, Behind, GroupCounts, Held, Joined, Num, AheadIsNothing, Unmade,
       Unspawned
  <2>4. AheadIsNothing'
    BY DEF AheadIsNothing, Unmade, Unspawned, BehindIsOver, Behind, Held
  <2>5. Registered'
    BY DEF Registered, AheadIsNothing, Unmade, BehindIsOver, Behind, Held
  <2>6. Flagged'
    BY DEF Flagged, AheadIsNothing, Unmade, BehindIsOver, Behind, Held
  <2>7. StraysCameLate'
    BY DEF StraysCameLate, AheadIsNothing, Unspawned, BehindIsOver, Behind, Held, Joined
  <2>8. CrashesKnown'
    <3>1. CASE Open(aim[i])
      BY <3>1 DEF CrashesKnown
    <3>2. CASE ~Open(aim[i])
      <4>1. aim[i] \in Ids /\ link[aim[i]] # "none"
        BY DEF AimsKnown
      <4>2. link[aim[i]] \in {"closed", "off", "done", "gone"}
        BY <3>2, <4>1
      <4>3. crashed' = "closed" /\ aim' = aim /\ link' = link
        BY <3>2
      <4>4. aim'[i] \in {aim'[j] : j \in Ids} \cup {caller'} /\ link'[aim'[i]] \in {"closed", "off", "done", "gone"}
        BY <4>2, <4>3
      <4> QED
        BY <4>1, <4>3, <4>4 DEF CrashesKnown
    <3> QED
      BY <3>1, <3>2
  <2>9. AimsKnown'
    BY DEF AimsKnown, AheadIsNothing, Unmade
  <2> QED
    BY ONLY <2>1, <2>2, <2>3, <2>4, <2>5, <2>6, <2>7, <2>8, <2>9 DEF IInv
<1>6. CASE SenderTests(i)
  <2> USE <1>6 DEF SenderTests
  <2>1. TypeOK'
    <3>1. sender' \in [Ids -> {"none", "born", "first", "sending", "top", "select", "end"}]
      OBVIOUS
    <3>2. aim' \in [Ids -> 0..MaxLinks]
      OBVIOUS
    <3> QED
      BY <3>1, <3>2
  <2>2. GroupCounts'
    BY DEF GroupCounts, Held, Joined, Num, AheadIsNothing, Unmade, Unspawned
  <2>3. BehindIsOver'
    BY DEF BehindIsOver, Behind, GroupCounts, Held, Joined, Num, AheadIsNothing, Unmade,
       Unspawned
  <2>4. AheadIsNothing'
    BY DEF AheadIsNothing, Unmade, Unspawned, BehindIsOver, Behind, Held
  <2>5. Registered'
    BY DEF Registered, AheadIsNothing, Unmade, BehindIsOver, Behind, Held
  <2>6. Flagged'
    BY DEF Flagged, AheadIsNothing, Unmade, BehindIsOver, Behind, Held
  <2>7. StraysCameLate'
    BY DEF StraysCameLate, AheadIsNothing, Unspawned, BehindIsOver, Behind, Held, Joined
  <2>8. CrashesKnown'
    BY DEF CrashesKnown, BehindIsOver, Behind, GroupCounts, Held, Joined, Num,
       AheadIsNothing
  <2>9. AimsKnown'
    <3>0. AimsKnown /\ sender[i] # "none" /\ (cl # 0 => cl \in Ids)
      OBVIOUS
    <3>a. cl \in Ids
      BY ONLY <3>0, LinksAssumption, i \in Ids DEF AimsKnown
    <3>1. cl \in Ids /\ link' = link /\ caller' = caller /\ cl' = cl /\ side' = side /\ at' = at
      BY <3>a
    <3>2. CASE link[cl] \in Alive
      <4>1. sender' = [sender EXCEPT ![i] = "sending"] /\ aim' = [aim EXCEPT ![i] = cl] /\ link[cl] # "none"
        BY <3>2
      <4>2. AimsKnown /\ aim \in [Ids -> 0..MaxLinks]
            /\ sender \in [Ids -> {"none", "born", "first", "sending", "top", "select", "end"}]
        OBVIOUS
      <4> QED
        BY ONLY <3>1, <4>1, <4>2 DEF AimsKnown
    <3>3. CASE link[cl] \notin Alive
      <4>1. sender' = [sender EXCEPT ![i] = "top"] /\ aim' = aim
        BY <3>3
      <4>2. AimsKnown /\ sender \in [Ids -> {"none", "born", "first", "sending", "top", "select", "end"}]
        OBVIOUS
      <4> QED
        BY ONLY <3>1, <4>1, <4>2 DEF AimsKnown
    <3> QED
      BY <3>2, <3>3
  <2> QED
    BY ONLY <2>1, <2>2, <2>3, <2>4, <2>5, <2>6, <2>7, <2>8, <2>9 DEF IInv
<1>3. CASE SenderSelects(i)
  <2> USE <1>3 DEF SenderSelects
  <2>1. TypeOK'
    BY DEF GroupCounts, Held, Joined, Num
  <2>2. GroupCounts'
    BY DEF GroupCounts, Held, Joined, Num, AheadIsNothing, Unmade, Unspawned
  <2>3. BehindIsOver'
    BY DEF BehindIsOver, Behind, GroupCounts, Held, Joined, Num, AheadIsNothing, Unmade,
       Unspawned
  <2>4. AheadIsNothing'
    BY DEF AheadIsNothing, Unmade, Unspawned, BehindIsOver, Behind, Held
  <2>5. Registered'
    BY DEF Registered, AheadIsNothing, Unmade, BehindIsOver, Behind, Held
  <2>6. Flagged'
    BY DEF Flagged, AheadIsNothing, Unmade, BehindIsOver, Behind, Held
  <2>7. StraysCameLate'
    BY DEF StraysCameLate, AheadIsNothing, Unspawned, BehindIsOver, Behind, Held, Joined
  <2>8. CrashesKnown'
    BY DEF CrashesKnown, BehindIsOver, Behind, GroupCounts, Held, Joined, Num,
       AheadIsNothing
  <2>9. AimsKnown'
    BY DEF AimsKnown, AheadIsNothing, Unmade
  <2> QED
    BY ONLY <2>1, <2>2, <2>3, <2>4, <2>5, <2>6, <2>7, <2>8, <2>9 DEF IInv
<1>4. CASE SenderEnds(i)
  <2> USE <1>4 DEF SenderEnds, Done
  <2>a. wg[i] # 0
    <3>1. Joined(i)
      BY DEF Joined
    <3>2. wg[i] = Num(Held(i)) + 1
      BY <3>1 DEF GroupCounts, Num
    <3> QED
      BY <3>2 DEF Num
  <2>b. wg' = [wg EXCEPT ![i] = @ - 1] /\ (at' = at \/ at' = "woken")
    BY <2>a
  <2>c. crashed' = crashed
    BY <2>a
  <2>0. crashed' = "no"
    BY <2>c
  <2>1. TypeOK'
    <3>1. wg' \in [Ids -> 0..2]
      BY <2>a, <2>b
    <3>2. at' \in {"dial", "sleep", "make", "start", "store", "config", "spawn", "wait", "parked", "woken"}
      BY <2>b
    <3>3. sender' \in [Ids -> {"none", "born", "first", "sending", "top", "select", "end"}]
      OBVIOUS
    <3> QED
      BY <3>1, <3>2, <3>3, <2>c
  <2>2. GroupCounts'
    <3>1. /\ \A j \in Ids : sender'[j] = IF j = i THEN "end" ELSE sender[j]
          /\ link' = link /\ wg \in [Ids -> 0..2] /\ i \in Ids /\ GroupCounts /\ Joined(i)
      BY DEF Joined
    <3>2. \A j \in Ids : wg'[j] = IF j = i THEN wg[j] - 1 ELSE wg[j]
      BY <2>b
    <3> QED
      BY ONLY <3>1, <3>2 DEF GroupCounts, Held, Joined, Num
  <2>3. BehindIsOver'
    BY DEF BehindIsOver, Behind, GroupCounts, Held, Joined, Num, AheadIsNothing, Unmade,
       Unspawned
  <2>4. AheadIsNothing'
    BY DEF AheadIsNothing, Unmade, Unspawned, BehindIsOver, Behind, Held
  <2>5. Registered'
    BY DEF Registered, AheadIsNothing, Unmade, BehindIsOver, Behind, Held
  <2>6. Flagged'
    BY DEF Flagged, AheadIsNothing, Unmade, BehindIsOver, Behind, Held
  <2>7. StraysCameLate'
    BY DEF StraysCameLate, AheadIsNothing, Unspawned, BehindIsOver, Behind, Held, Joined
  <2>8. CrashesKnown'
    BY <2>0 DEF CrashesKnown, BehindIsOver, Behind, GroupCounts, Held, Joined, Num,
       AheadIsNothing
  <2>9. AimsKnown'
    BY DEF AimsKnown, AheadIsNothing, Unmade
  <2> QED
    BY ONLY <2>1, <2>2, <2>3, <2>4, <2>5, <2>6, <2>7, <2>8, <2>9 DEF IInv
<1>5. CASE GetterStep(i)
  <2> USE <1>5 DEF GetterStep
  <2>1. TypeOK'
    BY DEF GroupCounts, Held, Joined, Num
  <2>2. GroupCounts'
    BY DEF GroupCounts, Held, Joined, Num, AheadIsNothing, Unmade, Unspawned
  <2>3. BehindIsOver'
    BY DEF BehindIsOver, Behind, GroupCounts, Held, Joined, Num, AheadIsNothing, Unmade,
       Unspawned
  <2>4. AheadIsNothing'
    BY DEF AheadIsNothing, Unmade, Unspawned, BehindIsOver, Behind, Held
  <2>5. Registered'
    BY DEF Registered, AheadIsNothing, Unmade, BehindIsOver, Behind, Held
  <2>6. Flagged'
    BY DEF Flagged, AheadIsNothing, Unmade, BehindIsOver, Behind, Held
  <2>7. StraysCameLate'
    BY DEF StraysCameLate, AheadIsNothing, Unspawned, BehindIsOver, Behind, Held, Joined
  <2>8. CrashesKnown'
    BY DEF CrashesKnown, BehindIsOver, Behind, GroupCounts, Held, Joined, Num,
       AheadIsNothing
  <2>9. AimsKnown'
    BY DEF AimsKnown, AheadIsNothing, Unmade
  <2> QED
    BY ONLY <2>1, <2>2, <2>3, <2>4, <2>5, <2>6, <2>7, <2>8, <2>9 DEF IInv
<1> QED
  BY <1>1, <1>2, <1>3, <1>4, <1>5, <1>6 DEF SenderStep

\* Steps of another goroutine that sends to the link.
LEMMA CallerKeeps ==
  ASSUME IInv, ~Crashed, CallerTests \/ CallerSends
  PROVE  IInv'
<1> USE LinksAssumption DEF IInv, TypeOK, Ids, Alive, Removing, Moves, Turns, serverVars, clientVars, sends, Crashed
<1>1. CASE CallerTests
  <2> USE <1>1 DEF CallerTests
  <2>1. TypeOK'
    BY DEF GroupCounts, Held, Joined, Num
  <2>2. GroupCounts'
    BY DEF GroupCounts, Held, Joined, Num, AheadIsNothing, Unmade, Unspawned
  <2>3. BehindIsOver'
    BY DEF BehindIsOver, Behind, GroupCounts, Held, Joined, Num, AheadIsNothing, Unmade,
       Unspawned
  <2>4. AheadIsNothing'
    BY DEF AheadIsNothing, Unmade, Unspawned, BehindIsOver, Behind, Held
  <2>5. Registered'
    BY DEF Registered, AheadIsNothing, Unmade, BehindIsOver, Behind, Held
  <2>6. Flagged'
    BY DEF Flagged, AheadIsNothing, Unmade, BehindIsOver, Behind, Held
  <2>7. StraysCameLate'
    BY DEF StraysCameLate, AheadIsNothing, Unspawned, BehindIsOver, Behind, Held, Joined
  <2>8. CrashesKnown'
    BY DEF CrashesKnown, BehindIsOver, Behind, GroupCounts, Held, Joined, Num,
       AheadIsNothing
  <2>9. AimsKnown'
    BY DEF AimsKnown, AheadIsNothing, Unmade
  <2> QED
    BY ONLY <2>1, <2>2, <2>3, <2>4, <2>5, <2>6, <2>7, <2>8, <2>9 DEF IInv
<1>2. CASE CallerSends
  <2> USE <1>2 DEF CallerSends, SendPanics, Open
  <2>1. TypeOK'
    BY DEF GroupCounts, Held, Joined, Num
  <2>2. GroupCounts'
    BY DEF GroupCounts, Held, Joined, Num, AheadIsNothing, Unmade, Unspawned
  <2>3. BehindIsOver'
    BY DEF BehindIsOver, Behind, GroupCounts, Held, Joined, Num, AheadIsNothing, Unmade,
       Unspawned
  <2>4. AheadIsNothing'
    BY DEF AheadIsNothing, Unmade, Unspawned, BehindIsOver, Behind, Held
  <2>5. Registered'
    BY DEF Registered, AheadIsNothing, Unmade, BehindIsOver, Behind, Held
  <2>6. Flagged'
    BY DEF Flagged, AheadIsNothing, Unmade, BehindIsOver, Behind, Held
  <2>7. StraysCameLate'
    BY DEF StraysCameLate, AheadIsNothing, Unspawned, BehindIsOver, Behind, Held, Joined
  <2>8. CrashesKnown'
    <3>1. CASE Open(caller)
      BY <3>1 DEF CrashesKnown
    <3>2. CASE ~Open(caller)
      <4>1. caller \in Ids /\ link[caller] # "none"
        BY DEF AimsKnown
      <4>2. link[caller] \in {"closed", "off", "done", "gone"}
        BY <3>2, <4>1
      <4>3. crashed' = "closed" /\ aim' = aim /\ caller' = caller /\ link' = link
        BY <3>2
      <4> QED
        BY <4>1, <4>2, <4>3 DEF CrashesKnown
    <3> QED
      BY <3>1, <3>2
  <2>9. AimsKnown'
    BY DEF AimsKnown, AheadIsNothing, Unmade
  <2> QED
    BY ONLY <2>1, <2>2, <2>3, <2>4, <2>5, <2>6, <2>7, <2>8, <2>9 DEF IInv
<1> QED
  BY <1>1, <1>2

\* Every step keeps the invariant.
LEMMA Preserved == IInv /\ [Next]_vars => IInv'
<1> SUFFICES ASSUME IInv, [Next]_vars PROVE IInv'
  OBVIOUS
<1>1. CASE Next
  BY <1>1, LoopKeeps, HandlerKeeps, SenderKeeps, CallerKeeps DEF Next
<1>2. CASE UNCHANGED vars
  BY <1>2 DEF vars, serverVars, clientVars, sends, IInv, TypeOK, GroupCounts, BehindIsOver, AheadIsNothing,
     Registered, Flagged, StraysCameLate, CrashesKnown, AimsKnown, Held, Joined, Behind, Unmade, Unspawned
<1> QED
  BY <1>1, <1>2

\* It holds for any number of links.
THEOREM Invariant == Spec => []IInv
BY Initially, Preserved, PTL DEF Spec
-----------------------------------------------------------------------------
\* Types, one link at a time, and a map and a flag that tell of it: ConnectTo
\* and Run wait for the WaitGroup before they dial again (main.go:233,
\* webclient/main.go:188).
THEOREM KnowsTheLink == Spec => []LinkIsKnown
<1>1. IInv => LinkIsKnown
  <2> SUFFICES ASSUME IInv PROVE LinkIsKnown
    OBVIOUS
  <2>1. \A i, j \in Ids : link[i] \in Alive /\ link[j] \in Alive => i = j
    BY LinksAssumption DEF IInv, TypeOK, BehindIsOver, Behind, Held, AheadIsNothing, Unmade, Ids, Alive, Removing
  <2>2. OneLink
    <3> DEFINE L == {i \in Ids : link[i] \in Alive}
    <3>1. CASE L = {}
      BY <3>1, FS_EmptySet DEF OneLink
    <3>2. CASE L # {}
      <4>1. PICK i \in L : TRUE
        BY <3>2
      <4>2. L = {i}
        BY <2>1, <4>1
      <4>3. Cardinality(L) = 1
        BY <4>2, FS_Singleton
      <4> QED
        BY <4>3 DEF OneLink
    <3> QED
      BY <3>1, <3>2
  <2>3. LiveIsRegistered
    BY DEF IInv, Registered, LiveIsRegistered
  <2>4. FlagIsTrue
    BY DEF IInv, Flagged, FlagIsTrue
  <2> QED
    BY <2>2, <2>3, <2>4 DEF LinkIsKnown, IInv
<1> QED
  BY <1>1, Invariant, PTL

\* A sender reaches a later link only when wg.Add was called after the loop had
\* left the group (webclient/main.go:212), and the process panics there, or
\* where a goroutine sends to a link that was stopped after it had looked at the
\* flag (client_handler.go:537-549), and nowhere else.
THEOREM BoundsLateJoins == Spec => []LateJoins
<1>1. IInv => LateJoins
  BY DEF IInv, LateJoins
<1> QED
  BY <1>1, Invariant, PTL

-----------------------------------------------------------------------------
(***************************************************************************)
(* Websockets: Browsers, whose invariants are proved here for any number   *)
(* of handlers, writers and uids.  A panic ends the process, as above.     *)
(***************************************************************************)
CONSTANTS Uids, Handlers, Kind, Writers, Cap, MaxOps, MaxReads
VARIABLES items, content, unsaid, ops, op, subs, conn, page, tak

Web == INSTANCE Browsers

\* BrowsersAssumption.
WebConstants == /\ Kind \in [Handlers -> {"map", "tak"}]
                /\ Cap \in Nat \ {0} /\ MaxOps \in Nat /\ MaxReads \in Nat

\* The types of what handlers, pages, clients and operations are.
ReaderPlaces == {"swap", "close", "shut", "off", "half", "read", "got", "left", "gone"}
WriterPlaces == {"swap", "close", "shut", "off", "recv", "write", "end"}
Conn == [active : BOOLEAN, open : BOOLEAN, socket : BOOLEAN, ch : Seq(Web!Message), hand : Seq(Web!Message),
         reader : ReaderPlaces, writer : WriterPlaces, peer : {"away", "there", "silent", "left"}]
Page == [view : [Uids -> Web!Vers], answer : [Uids -> Web!Vers], looked : SUBSET Uids, arrived : BOOLEAN,
         touched : SUBSET Uids, off : SUBSET Uids]
Client == [uids : SUBSET Uids, told : SUBSET Uids, inbox : SUBSET Uids, reads : Nat]
Kinds == {"idle", "save", "remove", "fade", "mark", "send"}
Places == {"idle", "find", "update", "put", "tell"}
Op == [kind : Kinds, at : Places, uid : Uids \cup {""}, n : Web!Vers, obj : Web!Vers,
       todo : SUBSET Handlers, to : SUBSET Handlers]
Lists == {"change", "delete", "clients"}

\* The channel of a handler has Cap places, the writer's hand one.
LineFits(c) == Len(c.ch) <= Cap /\ Len(c.hand) <= 1
Types ==
  /\ items \in [Uids -> Web!Vers] /\ content \in [1..MaxOps -> Web!Vers] /\ unsaid \in SUBSET Uids
  /\ ops \in Web!Vers /\ crashed \in BOOLEAN
  /\ subs \in [Lists -> SUBSET Handlers] /\ op \in [Writers -> Op]
  /\ conn \in [Handlers -> Conn] /\ page \in [Handlers -> Page] /\ tak \in [Handlers -> Client]
  /\ \A h \in Handlers : LineFits(conn[h]) /\ (page[h].arrived => page[h].looked = Uids)

Busy(p) == op[p].at # "idle"

\* What an operation holds at each of its places.
OpFits(r) ==
  /\ r.at = "idle" => r = Web!Idle
  /\ r.at # "idle" => r.uid \in Uids /\ r.n \in 1..ops /\ r.kind # "idle"
  /\ r.obj \in 0..ops
  /\ r.at \in {"find", "update", "put"} => r.todo = Handlers /\ r.to = {}
  /\ r.at = "find" => r.kind \in {"save", "remove"}
  /\ r.at = "update" => r.kind \in {"save", "fade", "mark"} /\ r.obj # 0
  /\ r.at = "put" => r.kind = "save" /\ r.obj # 0
  /\ r.at = "tell" => r.kind # "mark" /\ (r.kind \in {"save", "fade"} => r.obj # 0)
  /\ r.to \subseteq r.todo

Numbers == /\ \A u \in Uids : items[u] \in 0..ops
           /\ \A p \in Writers : OpFits(op[p])

\* The number of an operation is its own, and no object has it before the
\* operation makes one.
Fresh ==
  /\ \A p, q \in Writers : Busy(p) /\ Busy(q) /\ p # q => op[p].n # op[q].n
  /\ \A p \in Writers : op[p].at = "find" =>
       /\ \A u \in Uids : items[u] # op[p].n
       /\ \A q \in Writers : Busy(q) => op[q].obj # op[p].n

\* An object is of one uid.
ObjectsApart ==
  /\ \A u, w \in Uids : items[u] = items[w] /\ items[u] # 0 => u = w
  /\ \A p \in Writers, u \in Uids : Busy(p) /\ op[p].obj # 0 /\ items[u] = op[p].obj => op[p].uid = u
  /\ \A p, q \in Writers : Busy(p) /\ Busy(q) /\ op[p].obj # 0 /\ op[p].obj = op[q].obj => op[p].uid = op[q].uid

\* A uid that some page shows rightly has one operation at a time.
Clean(u, pages) == \E h \in Handlers : u \notin pages[h].off
OneWorker == \A p, q \in Writers : Busy(p) /\ Busy(q) /\ op[p].uid = op[q].uid /\ Clean(op[p].uid, page) => p = q

\* It has the item of the uid in hand.
Knows(r, objects) ==
  /\ r.at = "update" => objects[r.uid] = r.obj
  /\ r.at = "tell" /\ r.kind \in {"save", "fade"} => objects[r.uid] = r.obj
  /\ r.at = "tell" /\ r.kind = "remove" => objects[r.uid] = 0
OpsKnow == \A p \in Writers : Busy(p) /\ Clean(op[p].uid, page) => Knows(op[p], items)

\* How far Stop has come says what it has done.
StopOrder(h) ==
  LET c == conn[h] IN
  /\ c.reader \in {"close", "shut", "left", "gone"} => ~c.active
  /\ c.writer \in {"close", "shut", "end"} => ~c.active
  /\ c.active => c.open /\ c.socket

\* What a handler is subscribed to at each place of its reader.
Subscribed(h) ==
  LET c == conn[h] IN
  /\ \A l \in Lists : h \in subs[l] => c.reader # "off"
  /\ c.reader = "off" => c.ch = <<>>
  /\ c.reader \in {"off", "half"} => c.writer = "off"
  /\ c.writer = "write" <=> c.hand # <<>>
  /\ c.peer = "away" => c.reader = "off" /\ page[h].looked = {}
  /\ Kind[h] = "map" =>
       /\ h \notin subs["clients"]
       /\ c.active /\ c.reader \in {"half", "read", "got", "swap"} => h \in subs["change"]
       /\ c.active /\ c.reader \in {"read", "got", "swap"} => h \in subs["delete"]

\* A handler that is being told has been started, and maps get no messages.
TellsWell == \A p \in Writers : \A h \in op[p].to : conn[h].reader # "off" /\ (Kind[h] = "map" => op[p].kind # "send")

\* What the item of a uid says.
Val(u) == IF items[u] = 0 THEN 0 ELSE content[items[u]]

\* What is on its way to a page ends with what the item says.
QueueTrue(c, u, v) ==
  /\ \A i \in 1..Len(c.ch) : c.ch[i].uid = u => c.ch[i].ver = v \/ \E j \in 1..Len(c.ch) : j > i /\ c.ch[j].uid = u
  /\ c.hand # <<>> /\ c.hand[1].uid = u => c.hand[1].ver = v \/ \E j \in 1..Len(c.ch) : c.ch[j].uid = u

\* With nothing on its way the page has what the item says, or will get it in
\* the answer to GET /api/unit.
NoneAbout(c, u) == (c.hand # <<>> => c.hand[1].uid # u) /\ \A j \in 1..Len(c.ch) : c.ch[j].uid # u
PageTrue(g, u, v) ==
  /\ g.arrived => g.view[u] = v
  /\ ~g.arrived /\ u \in g.looked \ g.touched => g.answer[u] = v
Told(c, g, u, v) == QueueTrue(c, u, v) /\ (NoneAbout(c, u) => PageTrue(g, u, v))

\* An operation has changed the item, or is about to, and has still to tell h;
\* nobody was told of the last change of an unsaid one.
Tells(r, h, u) == r.at \in {"put", "tell"} /\ r.kind # "send" /\ r.uid = u /\ h \in r.todo
Pending(h, u) == \E p \in Writers : Tells(op[p], h, u)
Watched(h) == Kind[h] = "map" /\ conn[h].active /\ conn[h].peer = "there"
PageKnows(h, u) == Watched(h) /\ u \notin page[h].off \cup unsaid /\ ~Pending(h, u) => Told(conn[h], page[h], u, Val(u))
PagesKnow == \A h \in Handlers, u \in Uids : PageKnows(h, u)

\* Operations: a step sets what one writer does.
LEMMA BeginEffect ==
  ASSUME WebConstants, Types, NEW p \in Writers, NEW u \in Uids, NEW kind \in Kinds, NEW place \in Places,
     Web!Begin(p, kind, place, u)
  PROVE  /\ [Web!Idle EXCEPT !.kind = kind, !.at = place, !.uid = u, !.n = ops + 1, !.obj = items[u],
            !.todo = Handlers] \in Op
         /\ ops' \in Web!Vers
<1> DEFINE num == ops + 1
           i == items[u]
           r == [Web!Idle EXCEPT !.kind = kind, !.at = place, !.uid = u, !.n = num, !.obj = i, !.todo = Handlers]
<1>1. num \in Web!Vers /\ i \in Web!Vers /\ ops' \in Web!Vers
  BY DEF WebConstants, Web!Begin, Types, Web!Vers
<1>2. r.kind = kind /\ r.at = place /\ r.uid = u /\ r.n = num /\ r.obj = i /\ r.todo = Handlers /\ r.to = {}
  BY DEF Web!Idle
<1>3. r \in Op
  <2> HIDE DEF num, i
  <2> QED
    BY <1>1 DEF Web!Idle, Op
<1> QED
  BY <1>1, <1>3

\* A page that is spoilt is a page.
LEMMA SpoilEffect ==
  ASSUME Types, NEW hs \in SUBSET Handlers, NEW u \in Uids, Web!Spoil(hs, u)
  PROVE  /\ page' \in [Handlers -> Page]
         /\ \A h \in Handlers :
              /\ page'[h].view = page[h].view /\ page'[h].answer = page[h].answer /\ page'[h].looked = page[h].looked
              /\ page'[h].arrived = page[h].arrived /\ page'[h].touched = page[h].touched
              /\ page'[h].off = IF h \in hs THEN page[h].off \cup {u} ELSE page[h].off
<1> SUFFICES ASSUME NEW h \in Handlers
             PROVE  /\ page'[h] \in Page
                    /\ page'[h].view = page[h].view /\ page'[h].answer = page[h].answer
                       /\ page'[h].looked = page[h].looked
                    /\ page'[h].arrived = page[h].arrived /\ page'[h].touched = page[h].touched
                    /\ page'[h].off = IF h \in hs THEN page[h].off \cup {u} ELSE page[h].off
  BY DEF Web!Spoil
<1>1. page[h] \in Page
  BY DEF Types
<1>2. page'[h] = IF h \in hs THEN [page[h] EXCEPT !.off = @ \cup {u}] ELSE page[h]
  BY DEF Web!Spoil
<1> QED
  BY <1>1, <1>2 DEF Page

\* The types one step keeps: an operation changes its record, the objects and items.
LEMMA OpTypes ==
  ASSUME WebConstants, Types, Numbers, NEW p \in Writers, Web!OpStep(p)
  PROVE  Types'
<1> DEFINE r == op[p]
<1>0. r \in Op /\ OpFits(r) /\ (r.at # "idle" => r.uid \in Uids)
  BY DEF Types, Numbers, OpFits
<1>n. r.n \in Web!Vers /\ r.obj \in Web!Vers /\ (r.obj # 0 => r.obj \in 1..MaxOps)
  <2>1. r.n \in Web!Vers /\ r.obj \in Web!Vers
    <3> HIDE DEF r
    <3> QED
      BY <1>0 DEF Op
  <2> QED
    BY <2>1 DEF WebConstants, Web!Vers
<1>1. CASE Web!Find(p)
  <2>1. r.at = "find" /\ unsaid' \in SUBSET Uids /\ UNCHANGED <<items, ops, subs, conn, page, tak, crashed>>
    BY <1>1 DEF Web!Find, Types
  <2>2. r.uid \in Uids /\ items[r.uid] \in Web!Vers
    BY <1>0, <2>1 DEF Types
  <2>3. [r EXCEPT !.at = "update", !.obj = items[r.uid]] \in Op /\ [r EXCEPT !.at = "put", !.obj = r.n] \in Op
    <3> DEFINE i == items[r.uid]
    <3>1. i \in Web!Vers
      BY <2>2
    <3> HIDE DEF r, i
    <3>2. [r EXCEPT !.at = "update", !.obj = i] \in Op
      BY <1>0, <3>1 DEF Op, Places
    <3>3. [r EXCEPT !.at = "put", !.obj = r.n] \in Op
      BY <1>0, <1>n DEF Op, Places
    <3> QED
      BY <3>2, <3>3 DEF i
  <2>4. op' \in [Writers -> Op] /\ content' \in [1..MaxOps -> Web!Vers]
    <3>1. \E s \in Op : op' = [op EXCEPT ![p] = s]
      BY <1>1, <2>3 DEF Web!Find, Web!Becomes
    <3>2. content' = content \/ content' = [content EXCEPT ![r.n] = r.n]
      BY <1>1 DEF Web!Find
    <3> QED
      BY <1>n, <3>1, <3>2 DEF Types
  <2> QED
    BY <2>1, <2>4 DEF Types
<1>2. CASE Web!Update(p)
  <2>1. UNCHANGED <<items, ops, subs, conn, page, tak, crashed>> /\ content' = [content EXCEPT ![r.obj] = r.n]
    BY <1>2 DEF Web!Update
  <2>2. \E s \in {[r EXCEPT !.at = a] : a \in Places} \cup {Web!Idle} : op' = [op EXCEPT ![p] = s]
    BY <1>2 DEF Web!Update, Web!Becomes, Places
  <2>3. \A a \in Places : [r EXCEPT !.at = a] \in Op
    BY <1>0 DEF Op
  <2>4. Web!Idle \in Op
    BY DEF WebConstants, Op, Places, Web!Idle, Kinds, Web!Vers
  <2>5. op' \in [Writers -> Op]
    BY <2>2, <2>3, <2>4 DEF Types
  <2>6. unsaid' \in SUBSET Uids
    BY <1>0, <1>2 DEF Web!Update, Types
  <2> QED
    BY <1>n, <2>1, <2>5, <2>6 DEF Types
<1>3. CASE Web!Store(p)
  <2>1. UNCHANGED <<content, unsaid, ops, subs, conn, page, tak, crashed>> /\ items' = [items EXCEPT ![r.uid] = r.obj]
    BY <1>3 DEF Web!Store
  <2>2. op' = [op EXCEPT ![p] = [r EXCEPT !.at = "tell"]]
    BY <1>3 DEF Web!Store, Web!Becomes
  <2>3. [r EXCEPT !.at = "tell"] \in Op
    BY <1>0 DEF Op, Places
  <2> QED
    BY <1>n, <2>1, <2>2, <2>3 DEF Types
<1>4. CASE Web!Remove(p)
  <2>1. UNCHANGED <<content, ops, subs, conn, page, tak, crashed>> /\ items' = [items EXCEPT ![r.uid] = 0]
        /\ unsaid' \in SUBSET Uids
    BY <1>4 DEF Web!Remove, Types
  <2>2. op' = [op EXCEPT ![p] = [r EXCEPT !.at = "tell"]] \/ op' = [op EXCEPT ![p] = Web!Idle]
    BY <1>4 DEF Web!Remove, Web!Becomes
  <2>3. [r EXCEPT !.at = "tell"] \in Op /\ Web!Idle \in Op /\ 0 \in Web!Vers
    <3>1. 0 \in Web!Vers
      BY DEF WebConstants, Web!Vers
    <3>2. [r EXCEPT !.at = "tell"] \in Op
      BY <1>0 DEF Op, Places
    <3> QED
      BY <3>1, <3>2 DEF Web!Idle, Op, Places, Kinds
  <2> QED
    BY <2>1, <2>2, <2>3 DEF Types
<1>5. CASE Web!Finish(p)
  <2>1. UNCHANGED <<items, content, unsaid, ops, subs, conn, page, tak, crashed>> /\ op' = [op EXCEPT ![p] = Web!Idle]
    BY <1>5 DEF Web!Finish, Web!Becomes
  <2>2. Web!Idle \in Op
    BY DEF WebConstants, Op, Places, Web!Idle, Kinds, Web!Vers
  <2> QED
    BY <2>1, <2>2 DEF Types
<1>6. ASSUME NEW h \in Handlers, Web!Visit(p, h) PROVE Types'
  <2>1. UNCHANGED <<items, content, unsaid, ops, conn, tak, crashed>>
    BY <1>6 DEF Web!Visit
  <2>2. [r EXCEPT !.to = {h}] \in Op /\ [r EXCEPT !.todo = r.todo \ {h}] \in Op
    BY <1>0 DEF Op
  <2>3. op' = [op EXCEPT ![p] = [r EXCEPT !.to = {h}]] \/ op' = [op EXCEPT ![p] = [r EXCEPT !.todo = r.todo \ {h}]]
    BY <1>6 DEF Web!Visit, Web!Becomes
  <2>4. op' \in [Writers -> Op]
    BY <2>2, <2>3 DEF Types
  <2>5. Web!List(r) \in Lists
    BY DEF Web!List, Lists
  <2>6. subs' \in [Lists -> SUBSET Handlers]
    BY <1>6, <2>5 DEF Web!Visit, Types
  <2>7. UNCHANGED page \/ \E hs \in SUBSET Handlers : r.uid \in Uids /\ Web!Spoil(hs, r.uid)
    <3>1. r.at = "tell"
      BY <1>6 DEF Web!Visit
    <3> QED
      BY <1>0, <1>6, <3>1 DEF Web!Visit
  <2>8. page' \in [Handlers -> Page] /\ \A k \in Handlers : page'[k].arrived = page[k].arrived
        /\ page'[k].looked = page[k].looked
    <3>1. CASE UNCHANGED page
      BY <3>1 DEF Types
    <3>2. ASSUME NEW hs \in SUBSET Handlers, NEW w \in Uids, Web!Spoil(hs, w)
          PROVE  page' \in [Handlers -> Page] /\ \A k \in Handlers : page'[k].arrived = page[k].arrived
                /\ page'[k].looked = page[k].looked
      BY <3>2, SpoilEffect
    <3> QED
      BY <2>7, <3>1, <3>2
  <2> QED
    BY <2>1, <2>4, <2>6, <2>8 DEF Types
<1>7. ASSUME NEW h \in Handlers, Web!Push(p, h) PROVE Types'
  <2>1. UNCHANGED <<items, content, unsaid, ops, subs, tak>> /\ crashed' \in BOOLEAN /\ r.at = "tell" /\ r.uid \in Uids
    BY <1>0, <1>7 DEF Web!Push, Types
  <2>2. op' = [op EXCEPT ![p] = [r EXCEPT !.to = {}, !.todo = r.todo \ {h}]]
    BY <1>7 DEF Web!Push, Web!Becomes
  <2>3. [r EXCEPT !.to = {}, !.todo = r.todo \ {h}] \in Op
    BY <1>0 DEF Op
  <2>4. op' \in [Writers -> Op]
    BY <2>2, <2>3 DEF Types
  <2>5. UNCHANGED page \/ Web!Spoil({h}, r.uid)
    BY <1>7 DEF Web!Push
  <2>6. page' \in [Handlers -> Page] /\ \A k \in Handlers : page'[k].arrived = page[k].arrived
        /\ page'[k].looked = page[k].looked
    <3>1. {h} \in SUBSET Handlers
      OBVIOUS
    <3>2. CASE UNCHANGED page
      BY <3>2 DEF Types
    <3>3. CASE Web!Spoil({h}, r.uid)
      BY <2>1, <3>1, <3>3, SpoilEffect
    <3> QED
      BY <2>5, <3>2, <3>3
  <2>7. conn' \in [Handlers -> Conn] /\ \A k \in Handlers : LineFits(conn'[k])
    <3>1. CASE UNCHANGED conn
      BY <3>1 DEF Types
    <3>2. CASE ~UNCHANGED conn
      <4> DEFINE m == [uid |-> r.uid, ver |-> Web!Says(r)]
                 c == conn[h]
                 s == Append(c.ch, m)
                 d == [c EXCEPT !.ch = s]
      <4>1. conn' = [conn EXCEPT ![h] = d] /\ Web!Fits(h)
        BY <1>7, <3>2 DEF Web!Push
      <4>2. Web!Says(r) \in Web!Vers
        <5>1. r.kind \in {"save", "fade"} => r.obj \in 1..MaxOps
          BY <1>0, <1>n, <2>1 DEF OpFits
        <5>2. r.kind \in Kinds /\ r.kind # "idle" /\ r.kind # "mark"
          BY <1>0, <2>1 DEF Op, OpFits
        <5>3. 0 \in Web!Vers
          BY DEF WebConstants, Web!Vers
        <5> QED
          BY <1>n, <5>1, <5>2, <5>3 DEF Web!Says, Types, Kinds
      <4>3. m \in Web!Message
        BY <2>1, <4>2 DEF Web!Message
      <4>4. c \in Conn
        BY DEF Types
      <4> HIDE DEF m, c
      <4>a. c.ch \in Seq(Web!Message) /\ s \in Seq(Web!Message)
        BY <4>3, <4>4 DEF Conn
      <4>5. d \in Conn /\ d.ch = s /\ d.hand = c.hand
        <5> HIDE DEF s
        <5> QED
          BY <4>4, <4>a DEF Conn
      <4>6. Len(d.ch) = Len(c.ch) + 1 /\ Len(c.ch) \in Nat
        BY <4>3, <4>5, <4>a
      <4>7. Len(c.ch) < Cap /\ Len(c.hand) <= 1
        BY <4>1 DEF Web!Fits, Types, LineFits, c
      <4>8. LineFits(d)
        BY <4>5, <4>6, <4>7 DEF WebConstants, LineFits
      <4> HIDE DEF d
      <4> QED
        BY <4>1, <4>5, <4>8 DEF Types
    <3> QED
      BY <3>1, <3>2
  <2> QED
    BY <2>1, <2>4, <2>6, <2>7 DEF Types
<1> QED
  BY <1>1, <1>2, <1>3, <1>4, <1>5, <1>6, <1>7 DEF Web!OpStep

\* The types one step of a handler or a page keeps.
LEMMA ConnTypes ==
  ASSUME WebConstants, Types, NEW h \in Handlers, NEW d \in Conn, LineFits(d), Web!Turn(h, d),
         subs' \in [Lists -> SUBSET Handlers], tak' \in [Handlers -> Client], page' = page,
         UNCHANGED <<items, content, unsaid, ops, op, crashed>>
  PROVE  Types'
BY DEF Types, Web!Turn

\* The types each step of a handler or a page keeps.
LEMMA HandlerTypes ==
  ASSUME WebConstants, Types, NEW h \in Handlers, Subscribed(h),
         Web!ReaderStep(h) \/ Web!WriterStep(h) \/ Web!PageStep(h) \/ \E u \in Uids : Web!Receive(h, u)
  PROVE  Types'
<1> DEFINE c == conn[h]
           g == page[h]
           k == tak[h]
<1>0. c \in Conn /\ g \in Page /\ k \in Client /\ LineFits(c)
  BY DEF Types
<1>s. subs \in [Lists -> SUBSET Handlers] /\ tak \in [Handlers -> Client]
  BY DEF Types
<1>a. \A x \in ReaderPlaces : [c EXCEPT !.reader = x] \in Conn /\ LineFits([c EXCEPT !.reader = x])
  BY <1>0 DEF Conn, LineFits
<1>1. CASE Web!getWsHandler(h)
  <2>1. CASE Web!Turn(h, [c EXCEPT !.reader = "half"]) /\ Web!Add(h, "change")
    <3>1. subs' \in [Lists -> SUBSET Handlers]
      BY <1>s, <2>1 DEF Web!Add, Lists
    <3>2. "half" \in ReaderPlaces
      BY DEF ReaderPlaces
    <3> QED
      BY <1>a, <1>s, <2>1, <3>1, <3>2, ConnTypes DEF Web!Add
  <2>2. CASE Web!Turn(h, Web!Listening(c)) /\ Web!Add(h, "delete")
    <3>1. subs' \in [Lists -> SUBSET Handlers]
      BY <1>s, <2>2 DEF Web!Add, Lists
    <3>2. Web!Listening(c) \in Conn /\ LineFits(Web!Listening(c))
      BY <1>0 DEF Web!Listening, Conn, LineFits, ReaderPlaces, WriterPlaces
    <3> QED
      BY <1>s, <2>2, <3>1, <3>2, ConnTypes DEF Web!Add
  <2> QED
    BY <1>1, <2>1, <2>2 DEF Web!getWsHandler
<1>2. CASE Web!getTakWsHandler(h)
  <2>1. Web!Turn(h, Web!Listening(c)) /\ Web!Add(h, "clients")
    BY <1>2 DEF Web!getTakWsHandler
  <2>2. subs' \in [Lists -> SUBSET Handlers]
    BY <1>s, <2>1 DEF Web!Add, Lists
  <2>3. Web!Listening(c) \in Conn /\ LineFits(Web!Listening(c))
    BY <1>0 DEF Web!Listening, Conn, LineFits, ReaderPlaces, WriterPlaces
  <2> QED
    BY <1>s, <2>1, <2>2, <2>3, ConnTypes DEF Web!Add
<1>3. CASE Web!Parse(h)
  <2>1. Web!Turn(h, [c EXCEPT !.reader = "read"]) /\ UNCHANGED <<items, content, unsaid, ops, op, subs, page, crashed>>
        /\ "read" \in ReaderPlaces
    BY <1>3 DEF Web!Parse, ReaderPlaces
  <2>2. tak' \in [Handlers -> Client]
    <3>1. [k EXCEPT !.uids = k.uids \cup k.inbox, !.inbox = {}] \in Client
          /\ [k EXCEPT !.uids = k.uids \ k.inbox, !.inbox = {}] \in Client
      BY <1>0 DEF Client
    <3> QED
      BY <1>3, <1>s, <3>1 DEF Web!Parse
  <2> QED
    BY <1>a, <1>s, <2>1, <2>2, ConnTypes
<1>4. CASE Web!ReadFails(h)
  <2>1. Web!Turn(h, [c EXCEPT !.reader = "swap"]) /\ Web!ConnOnly /\ "swap" \in ReaderPlaces
    BY <1>4 DEF Web!ReadFails, ReaderPlaces
  <2> QED
    BY <1>a, <1>s, <2>1, ConnTypes DEF Web!ConnOnly
<1>5. CASE Web!ReaderStops(h)
  <2>1. Web!ConnOnly /\ \E d \in Conn : LineFits(d) /\ Web!Turn(h, d)
    <3>1. /\ [c EXCEPT !.reader = "close", !.active = FALSE] \in Conn
             /\ LineFits([c EXCEPT !.reader = "close", !.active = FALSE])
          /\ [c EXCEPT !.reader = "left"] \in Conn /\ LineFits([c EXCEPT !.reader = "left"])
          /\ [c EXCEPT !.reader = "shut", !.open = FALSE] \in Conn
             /\ LineFits([c EXCEPT !.reader = "shut", !.open = FALSE])
          /\ [c EXCEPT !.reader = "left", !.socket = FALSE] \in Conn
             /\ LineFits([c EXCEPT !.reader = "left", !.socket = FALSE])
      BY <1>0 DEF Conn, LineFits, ReaderPlaces
    <3> QED
      BY <1>5, <3>1 DEF Web!ReaderStops, Web!Stop, Web!Stops
  <2> QED
    BY <1>s, <2>1, ConnTypes DEF Web!ConnOnly
<1>6. CASE Web!RemoveHandlerCb(h)
  <2>1. Web!Turn(h, [c EXCEPT !.reader = "gone"]) /\ UNCHANGED <<items, content, unsaid, ops, op, page, crashed>>
        /\ "gone" \in ReaderPlaces
    BY <1>6 DEF Web!RemoveHandlerCb, ReaderPlaces
  <2>2. tak' \in [Handlers -> Client] /\ subs' \in [Lists -> SUBSET Handlers]
    <3>1. [k EXCEPT !.told = k.uids] \in Client
      BY <1>0 DEF Client
    <3> QED
      BY <1>6, <1>s, <3>1 DEF Web!RemoveHandlerCb, Lists
  <2> QED
    BY <1>a, <2>1, <2>2, ConnTypes
<1>7. CASE Web!Recv(h)
  <2>1. Web!ConnOnly
    BY <1>7 DEF Web!Recv
  <2>2. CASE c.ch # <<>> /\ Web!Turn(h, [c EXCEPT !.ch = Tail(c.ch), !.hand = <<Head(c.ch)>>, !.writer = "write"])
    <3> DEFINE t == Tail(c.ch)
               m == Head(c.ch)
               one == <<m>>
               d == [c EXCEPT !.ch = t, !.hand = one, !.writer = "write"]
    <3>1. c.ch \in Seq(Web!Message) /\ Len(c.ch) <= Cap
      BY <1>0 DEF Conn, LineFits
    <3>2. t \in Seq(Web!Message) /\ m \in Web!Message /\ Len(t) <= Cap
      <4> HIDE DEF c
      <4> QED
        BY <2>2, <3>1 DEF WebConstants
    <3>3. one \in Seq(Web!Message) /\ Len(one) <= 1
      <4> HIDE DEF m
      <4> QED
        BY <3>2
    <3>4. d \in Conn /\ LineFits(d)
      <4> HIDE DEF c, t, one
      <4> QED
        BY <1>0, <3>2, <3>3 DEF Conn, WriterPlaces, LineFits
    <3> QED
      BY <1>s, <2>1, <2>2, <3>4, ConnTypes DEF Web!ConnOnly
  <2>3. CASE Web!Turn(h, [c EXCEPT !.writer = "end"])
    <3>1. [c EXCEPT !.writer = "end"] \in Conn /\ LineFits([c EXCEPT !.writer = "end"])
      BY <1>0 DEF Conn, WriterPlaces, LineFits
    <3> QED
      BY <1>s, <2>1, <2>3, <3>1, ConnTypes DEF Web!ConnOnly
  <2> QED
    BY <1>7, <2>2, <2>3 DEF Web!Recv
<1>w. \A x \in WriterPlaces : [c EXCEPT !.hand = <<>>, !.writer = x] \in Conn
      /\ LineFits([c EXCEPT !.hand = <<>>, !.writer = x])
  <2> DEFINE none == <<>>
  <2>1. none \in Seq(Web!Message) /\ Len(none) <= 1
    OBVIOUS
  <2> HIDE DEF none, c
  <2>2. \A x \in WriterPlaces : [c EXCEPT !.hand = none, !.writer = x] \in Conn
        /\ LineFits([c EXCEPT !.hand = none, !.writer = x])
    BY <1>0, <2>1 DEF Conn, LineFits
  <2> QED
    BY <2>2 DEF none
<1>8. CASE Web!Write(h)
  <2> DEFINE m == Head(c.hand)
  <2>1. /\ conn' = [conn EXCEPT ![h] = [c EXCEPT !.hand = <<>>, !.writer = "recv"]] /\ "recv" \in WriterPlaces
        /\ UNCHANGED <<items, content, unsaid, ops, op, subs, tak, crashed>>
    BY <1>8 DEF Web!Write, Web!Turn, WriterPlaces
  <2>2. m \in Web!Message
    <3>1. c.hand # <<>> /\ c.hand \in Seq(Web!Message)
      BY <1>0, <1>8 DEF Web!Write, Subscribed, Conn
    <3> HIDE DEF c
    <3> QED
      BY <3>1
  <2>3. page' \in [Handlers -> Page] /\ \A i \in Handlers : page'[i].arrived => page'[i].looked = Uids
    <3>1. CASE page' = page
      BY <3>1 DEF Types
    <3>2. CASE page' # page
      <4> DEFINE f == [g EXCEPT !.view[m.uid] = m.ver, !.touched = g.touched \cup (g.looked \cap {m.uid})]
      <4>1. page' = [page EXCEPT ![h] = f]
        BY <1>8, <3>2 DEF Web!Write
      <4>2. m.uid \in Uids /\ m.ver \in Web!Vers
        BY <2>2 DEF Web!Message
      <4>3. f \in Page /\ f.arrived = g.arrived /\ f.looked = g.looked
        <5> DEFINE v == [g.view EXCEPT ![m.uid] = m.ver]
        <5>1. v \in [Uids -> Web!Vers] /\ f = [g EXCEPT !.view = v,
           !.touched = g.touched \cup (g.looked \cap {m.uid})]
          BY <1>0, <4>2 DEF Page
        <5> HIDE DEF g, m, v, f
        <5> QED
          BY <1>0, <4>2, <5>1 DEF Page
      <4> HIDE DEF f
      <4> QED
        BY <4>1, <4>3 DEF Types
    <3> QED
      BY <3>1, <3>2
  <2>4. conn' \in [Handlers -> Conn] /\ \A i \in Handlers : LineFits(conn'[i])
    BY <1>w, <2>1 DEF Types
  <2> QED
    BY <1>s, <2>1, <2>3, <2>4 DEF Types
<1>9. CASE Web!WriteFails(h)
  <2>1. Web!ConnOnly /\ \E x \in WriterPlaces : Web!Turn(h, [c EXCEPT !.hand = <<>>, !.writer = x])
    BY <1>9 DEF Web!WriteFails, WriterPlaces
  <2> QED
    BY <1>s, <1>w, <2>1, ConnTypes DEF Web!ConnOnly
<1>10. CASE Web!WriterStops(h)
  <2>1. Web!ConnOnly /\ \E d \in Conn : LineFits(d) /\ Web!Turn(h, d)
    <3>1. /\ [c EXCEPT !.writer = "close", !.active = FALSE] \in Conn
             /\ LineFits([c EXCEPT !.writer = "close", !.active = FALSE])
          /\ [c EXCEPT !.writer = "end"] \in Conn /\ LineFits([c EXCEPT !.writer = "end"])
          /\ [c EXCEPT !.writer = "shut", !.open = FALSE] \in Conn
             /\ LineFits([c EXCEPT !.writer = "shut", !.open = FALSE])
          /\ [c EXCEPT !.writer = "end", !.socket = FALSE] \in Conn
             /\ LineFits([c EXCEPT !.writer = "end", !.socket = FALSE])
      BY <1>0 DEF Conn, LineFits, WriterPlaces
    <3> QED
      BY <1>10, <3>1 DEF Web!WriterStops, Web!Stop, Web!Stops
  <2> QED
    BY <1>s, <2>1, ConnTypes DEF Web!ConnOnly
<1>11. ASSUME NEW u \in Uids, Web!Receive(h, u) PROVE Types'
  <2>1. Web!Turn(h, [c EXCEPT !.reader = "got"]) /\ UNCHANGED <<items, content, unsaid, ops, op, subs, page, crashed>>
        /\ "got" \in ReaderPlaces
    BY <1>11 DEF Web!Receive, ReaderPlaces
  <2>2. tak' \in [Handlers -> Client]
    <3>1. [k EXCEPT !.inbox = {u}, !.reads = k.reads + 1] \in Client
      <4> DEFINE more == k.reads + 1
      <4>1. more \in Nat
        BY <1>0 DEF Client
      <4> HIDE DEF k, more
      <4>2. [k EXCEPT !.inbox = {u}, !.reads = more] \in Client
        BY <1>0, <4>1 DEF Client
      <4> QED
        BY <4>2 DEF more
    <3> QED
      BY <1>11, <1>s, <3>1 DEF Web!Receive
  <2> QED
    BY <1>a, <1>s, <2>1, <2>2, ConnTypes
<1>12. CASE Web!OpenPage(h)
  <2>1. Web!Turn(h, [c EXCEPT !.peer = "there"]) /\ UNCHANGED <<items, content, unsaid, ops, op, subs, tak, crashed>>
    BY <1>12 DEF Web!OpenPage
  <2>2. [c EXCEPT !.peer = "there"] \in Conn /\ LineFits([c EXCEPT !.peer = "there"])
    BY <1>0 DEF Conn, LineFits
  <2>3. PICK v \in [Uids -> 0..ops] : page' = [page EXCEPT ![h].view = v]
    BY <1>12 DEF Web!OpenPage
  <2>4. v \in [Uids -> Web!Vers]
    BY DEF WebConstants, Types, Web!Vers
  <2> DEFINE f == [g EXCEPT !.view = v]
  <2>5. f \in Page /\ f.arrived = g.arrived /\ f.looked = g.looked
    BY <1>0, <2>4 DEF Page
  <2>6. page' = [page EXCEPT ![h] = f]
    BY <2>3
  <2> HIDE DEF f
  <2>7. page' \in [Handlers -> Page] /\ \A i \in Handlers : page'[i].arrived => page'[i].looked = Uids
    BY <2>5, <2>6 DEF Types
  <2>8. conn' \in [Handlers -> Conn] /\ \A i \in Handlers : LineFits(conn'[i])
    BY <2>1, <2>2 DEF Types, Web!Turn
  <2> QED
    BY <1>s, <2>1, <2>7, <2>8 DEF Types
<1>13. CASE Web!LeavePage(h) \/ Web!FallSilent(h)
  <2>1. Web!ConnOnly /\ \E x \in {"left", "silent"} : Web!Turn(h, [c EXCEPT !.peer = x])
    BY <1>13 DEF Web!LeavePage, Web!FallSilent
  <2>2. \A x \in {"left", "silent"} : [c EXCEPT !.peer = x] \in Conn /\ LineFits([c EXCEPT !.peer = x])
    BY <1>0 DEF Conn, LineFits
  <2> QED
    BY <1>s, <2>1, <2>2, ConnTypes DEF Web!ConnOnly
<1>14. CASE Web!processUnits(h)
  <2>1. UNCHANGED <<items, content, unsaid, ops, op, subs, conn, tak, crashed>> /\ g.looked = Uids
    BY <1>14 DEF Web!processUnits
  <2>2. page' = [page EXCEPT ![h] = [g EXCEPT !.view = g.answer, !.arrived = TRUE, !.off = g.off \cup g.touched]]
    BY <1>14 DEF Web!processUnits, Web!Merged
  <2>3. [g EXCEPT !.view = g.answer, !.arrived = TRUE, !.off = g.off \cup g.touched] \in Page
    BY <1>0 DEF Page
  <2> QED
    BY <2>1, <2>2, <2>3 DEF Types
<1>15. ASSUME NEW u \in Uids, Web!getUnits(h, u) PROVE Types'
  <2> DEFINE v == Val(u)
             a == [g.answer EXCEPT ![u] = v]
             f == [g EXCEPT !.looked = g.looked \cup {u}, !.answer = a]
  <2>1. UNCHANGED <<items, content, unsaid, ops, op, subs, conn, tak, crashed>> /\ u \notin g.looked
        /\ page' = [page EXCEPT ![h] = f]
    BY <1>15 DEF Web!getUnits, Val
  <2>2. v \in Web!Vers
    BY DEF WebConstants, Types, Val, Web!Vers
  <2>3. a \in [Uids -> Web!Vers]
    <3> HIDE DEF v
    <3> QED
      BY <1>0, <2>2 DEF Page
  <2>4. f \in Page /\ (f.arrived => f.looked = Uids)
    <3> HIDE DEF a
    <3>1. ~g.arrived
      BY <2>1 DEF Types
    <3> QED
      BY <1>0, <2>3, <3>1 DEF Page
  <2> HIDE DEF f
  <2> QED
    BY <2>1, <2>4 DEF Types
<1> QED
  BY <1>1, <1>2, <1>3, <1>4, <1>5, <1>6, <1>7, <1>8, <1>9, <1>10, <1>11, <1>12, <1>13, <1>14, <1>15
     DEF Web!ReaderStep, Web!WriterStep, Web!PageStep

\* A step that begins an operation, and of which kind.
Begins(p, u) == \/ \E k \in {"save", "remove"} : Web!Begin(p, k, "find", u)
                \/ items[u] # 0 /\ \E k \in {"save", "fade", "mark"} : Web!Begin(p, k, "update", u)
                \/ Web!Begin(p, "send", "tell", u)
Handles(h) == Web!ReaderStep(h) \/ Web!WriterStep(h) \/ Web!PageStep(h) \/ \E u \in Uids : Web!Receive(h, u)

\* Every step is of an operation, begins one, or is of a handler.
LEMMA Steps ==
  ASSUME Web!Next
  PROVE  /\ ~crashed
         /\ \/ \E p \in Writers : Web!OpStep(p)
            \/ \E p \in Writers, u \in Uids : Begins(p, u)
            \/ \E h \in Handlers : Handles(h)
BY DEF Web!Next, Handles, Begins, Web!saveItemProcessor, Web!addItemHandler, Web!removeItemProcessor,
   Web!deleteItemHandler, Web!cleanOldUnits, Web!metricsProcessor, Web!SetOffline, Web!SendMsg

\* The types an operation keeps when it begins, and all steps.
LEMMA BeginTypes == ASSUME WebConstants, Types, NEW p \in Writers, NEW u \in Uids, Begins(p, u) PROVE Types'
<1>1. PICK kind \in Kinds, place \in Places : Web!Begin(p, kind, place, u)
  BY DEF Begins, Kinds, Places
<1> DEFINE r == [Web!Idle EXCEPT !.kind = kind, !.at = place, !.uid = u, !.n = ops + 1, !.obj = items[u],
   !.todo = Handlers]
<1>2. r \in Op /\ ops' \in Web!Vers
  BY <1>1, BeginEffect
<1>3. op' = [op EXCEPT ![p] = r] /\ UNCHANGED <<items, content, unsaid, subs, conn, tak, crashed>>
  BY <1>1 DEF Web!Begin, Web!Becomes
<1>4. \E hs \in SUBSET Handlers : Web!Spoil(hs, u)
  BY <1>1 DEF Web!Begin
<1>5. page' \in [Handlers -> Page] /\ \A h \in Handlers : page'[h].arrived = page[h].arrived
      /\ page'[h].looked = page[h].looked
  BY <1>4, SpoilEffect
<1> HIDE DEF r
<1> QED
  BY <1>2, <1>3, <1>5 DEF Types

\* The types every step keeps.
LEMMA TypesStep ==
  ASSUME WebConstants, Types, Numbers, \A h \in Handlers : Subscribed(h), [Web!Next]_(Web!vars)
  PROVE  Types'
<1>1. CASE UNCHANGED Web!vars
  BY <1>1 DEF Web!vars, Types
<1>2. CASE Web!Next
  BY <1>2, Steps, OpTypes, BeginTypes, HandlerTypes DEF Handles
<1> QED
  BY <1>1, <1>2

\* Handlers and pages leave the items alone, and nothing that is spoilt is mended.
LEMMA HandlesQuietly ==
  ASSUME Types, NEW h \in Handlers, Handles(h)
  PROVE  /\ UNCHANGED <<items, content, unsaid, ops, op, crashed>>
         /\ \A i \in Handlers : page[i].off \subseteq page'[i].off
         /\ \A i \in Handlers \ {h} : conn'[i] = conn[i] /\ page'[i] = page[i]
         /\ \A i \in Handlers \ {h}, l \in Lists : i \in subs'[l] <=> i \in subs[l]
         /\ subs' \in [Lists -> SUBSET Handlers]
<1>c. conn' = conn \/ \E d : conn' = [conn EXCEPT ![h] = d]
  <2>1. CASE Web!ReaderStep(h)
    BY <2>1 DEF Web!ReaderStep, Web!getWsHandler, Web!getTakWsHandler, Web!Parse, Web!ReadFails, Web!ReaderStops,
       Web!RemoveHandlerCb, Web!Stop, Web!Stops, Web!Turn
  <2>2. CASE Web!WriterStep(h)
    BY <2>2 DEF Web!WriterStep, Web!Recv, Web!Write, Web!WriteFails, Web!WriterStops, Web!Stop, Web!Stops, Web!Turn
  <2>3. CASE Web!PageStep(h)
    BY <2>3 DEF Web!PageStep, Web!OpenPage, Web!LeavePage, Web!FallSilent, Web!processUnits, Web!getUnits, Web!Turn
  <2> QED
    BY <2>1, <2>2, <2>3 DEF Handles, Web!Receive, Web!Turn
<1>g. page' = page \/ \E f : page' = [page EXCEPT ![h] = f] /\ page[h].off \subseteq f.off
  <2>0. page[h] \in Page
    BY DEF Types
  <2>1. CASE Web!OpenPage(h)
    <3>1. PICK v : page' = [page EXCEPT ![h].view = v]
      BY <2>1 DEF Web!OpenPage
    <3>2. page' = [page EXCEPT ![h] = [page[h] EXCEPT !.view = v]]
      BY <3>1
    <3>3. [page[h] EXCEPT !.view = v].off = page[h].off
      BY <2>0 DEF Page
    <3> QED
      BY <3>2, <3>3
  <2>2. CASE Web!processUnits(h)
    <3>1. page' = [page EXCEPT ![h] = [page[h] EXCEPT !.view = page[h].answer, !.arrived = TRUE,
       !.off = page[h].off \cup page[h].touched]]
      BY <2>2 DEF Web!processUnits, Web!Merged
    <3>2. [page[h] EXCEPT !.view = page[h].answer, !.arrived = TRUE,
       !.off = page[h].off \cup page[h].touched].off = page[h].off \cup page[h].touched
      BY <2>0 DEF Page
    <3> QED
      BY <3>1, <3>2
  <2>3. ASSUME NEW u \in Uids, Web!getUnits(h, u) PROVE \E f : page' = [page EXCEPT ![h] = f]
        /\ page[h].off \subseteq f.off
    <3> DEFINE a == [page[h].answer EXCEPT ![u] = Val(u)]
    <3>1. page' = [page EXCEPT ![h] = [page[h] EXCEPT !.looked = page[h].looked \cup {u}, !.answer = a]]
      BY <2>3 DEF Web!getUnits, Val
    <3>2. [page[h] EXCEPT !.looked = page[h].looked \cup {u}, !.answer = a].off = page[h].off
      <4> HIDE DEF a
      <4> QED
        BY <2>0 DEF Page
    <3> QED
      BY <3>1, <3>2
  <2>4. CASE Web!Write(h)
    <3> DEFINE m == Head(conn[h].hand)
               v == [page[h].view EXCEPT ![m.uid] = m.ver]
               t == page[h].touched \cup (page[h].looked \cap {m.uid})
    <3>1. page' = page \/ page' = [page EXCEPT ![h] = [page[h] EXCEPT !.view = v, !.touched = t]]
      BY <2>4 DEF Web!Write
    <3>2. [page[h] EXCEPT !.view = v, !.touched = t].off = page[h].off
      <4> HIDE DEF v, t
      <4> QED
        BY <2>0 DEF Page
    <3> QED
      BY <3>1, <3>2
  <2>5. CASE Web!ReaderStep(h) \/ Web!Recv(h) \/ Web!WriteFails(h) \/ Web!WriterStops(h) \/ Web!LeavePage(h)
        \/ Web!FallSilent(h) \/ \E u \in Uids : Web!Receive(h, u)
    BY <2>5 DEF Web!ReaderStep, Web!getWsHandler, Web!getTakWsHandler, Web!Parse, Web!ReadFails, Web!ReaderStops,
       Web!RemoveHandlerCb, Web!Add, Web!ConnOnly,
       Web!Recv, Web!WriteFails, Web!WriterStops, Web!LeavePage, Web!FallSilent, Web!Receive
  <2> QED
    BY <2>1, <2>2, <2>3, <2>4, <2>5 DEF Handles, Web!WriterStep, Web!PageStep
<1>s. subs' = subs \/ \E l \in Lists : subs' = [subs EXCEPT ![l] = subs[l] \cup {h}]
      \/ subs' = [subs EXCEPT ![l] = subs[l] \ {h}]
  <2>1. CASE Web!ReaderStep(h)
    BY <2>1 DEF Web!ReaderStep, Web!getWsHandler, Web!getTakWsHandler, Web!Parse, Web!ReadFails, Web!ReaderStops,
       Web!RemoveHandlerCb, Web!Add, Web!ConnOnly, Lists
  <2>2. CASE ~Web!ReaderStep(h)
    BY <2>2 DEF Handles, Web!WriterStep, Web!Recv, Web!Write, Web!WriteFails, Web!WriterStops, Web!PageStep,
       Web!OpenPage, Web!LeavePage, Web!FallSilent, Web!processUnits,
       Web!getUnits, Web!Receive, Web!ConnOnly
  <2> QED
    BY <2>1, <2>2
<1>o. UNCHANGED <<items, content, unsaid, ops, op, crashed>>
  <2>1. CASE Web!ReaderStep(h)
    BY <2>1 DEF Web!ReaderStep, Web!getWsHandler, Web!getTakWsHandler, Web!Parse, Web!ReadFails, Web!ReaderStops,
       Web!RemoveHandlerCb, Web!Add, Web!ConnOnly
  <2>2. CASE ~Web!ReaderStep(h)
    BY <2>2 DEF Handles, Web!WriterStep, Web!Recv, Web!Write, Web!WriteFails, Web!WriterStops, Web!PageStep,
       Web!OpenPage, Web!LeavePage, Web!FallSilent, Web!processUnits,
       Web!getUnits, Web!Receive, Web!ConnOnly
  <2> QED
    BY <2>1, <2>2
<1>1. \A i \in Handlers \ {h} : conn'[i] = conn[i]
  BY <1>c DEF Types
<1>2. (\A i \in Handlers : page[i].off \subseteq page'[i].off) /\ \A i \in Handlers \ {h} : page'[i] = page[i]
  BY <1>g DEF Types
<1>3. subs' \in [Lists -> SUBSET Handlers] /\ \A i \in Handlers \ {h}, l \in Lists : i \in subs'[l] <=> i \in subs[l]
  BY <1>s DEF Types
<1> QED
  BY <1>o, <1>1, <1>2, <1>3

\* What an operation says of itself, and the items it does not touch.
OffGrows == \A h \in Handlers : page[h].off \subseteq page'[h].off
ItemsInv == Numbers /\ Fresh /\ ObjectsApart /\ OneWorker /\ OpsKnow

\* No page is mended, so a uid that is clean was clean.
LEMMA CleanBefore == ASSUME OffGrows, NEW u, Clean(u, page') PROVE Clean(u, page)
BY DEF OffGrows, Clean

\* A step that touches neither items nor operations.
LEMMA ItemsStay ==
  ASSUME ItemsInv, OffGrows, UNCHANGED <<items, ops, op>>
  PROVE  ItemsInv'
BY CleanBefore DEF ItemsInv, Numbers, OpFits, Fresh, ObjectsApart, OneWorker, OpsKnow, Knows, Busy

\* An operation that goes on with the same object, and changes no item but its own.
LEMMA SameObject ==
  ASSUME Types, ItemsInv, OffGrows, NEW p \in Writers, NEW s, Busy(p), op' = [op EXCEPT ![p] = s], ops' = ops,
         s.at # "find", OpFits(s), s.at # "idle" => s.uid = op[p].uid /\ s.n = op[p].n /\ s.obj = op[p].obj,
         NEW x \in {0, op[p].obj}, items' = items \/ items' = [items EXCEPT ![op[p].uid] = x],
         s.at # "idle" /\ Clean(s.uid, page) => Knows(s, items')
  PROVE  ItemsInv'
<1> DEFINE r == op[p]
<1>1. op'[p] = s /\ \A q \in Writers \ {p} : op'[q] = op[q]
  BY DEF Types
<1>2. r.uid \in Uids /\ r.n \in 1..ops /\ r.obj \in 0..ops /\ ops \in Nat /\ items \in [Uids -> Web!Vers]
  BY DEF ItemsInv, Numbers, OpFits, Busy, Types, Web!Vers
<1>3. \A u \in Uids : items'[u] = items[u] \/ (u = r.uid /\ items'[u] = x)
  BY <1>2
<1>4. Numbers'
  BY <1>1, <1>2, <1>3 DEF ItemsInv, Numbers, OpFits
<1>5. Fresh'
  <2>1. \A a, b \in Writers : Busy(a)' /\ Busy(b)' /\ a # b => op'[a].n # op'[b].n
    BY <1>1 DEF ItemsInv, Fresh, Busy
  <2>2. ASSUME NEW a \in Writers, op'[a].at = "find"
        PROVE  /\ \A u \in Uids : items'[u] # op'[a].n
               /\ \A q \in Writers : Busy(q)' => op'[q].obj # op'[a].n
    <3>1. a # p /\ op'[a] = op[a] /\ op[a].at = "find"
      BY <1>1, <2>2
    <3>2. op[a].n # 0 /\ r.obj # op[a].n
      <4>1. op[a].n \in 1..ops
        BY <3>1 DEF ItemsInv, Numbers, OpFits
      <4>2. r.obj # op[a].n
        BY <3>1 DEF ItemsInv, Fresh
      <4> QED
        BY <4>1, <4>2
    <3>3. \A u \in Uids : items[u] # op[a].n
      BY <3>1 DEF ItemsInv, Fresh
    <3>4. \A q \in Writers : Busy(q) => op[q].obj # op[a].n
      BY <3>1 DEF ItemsInv, Fresh
    <3> QED
      BY <1>1, <1>3, <3>1, <3>2, <3>3, <3>4 DEF Busy
  <2> QED
    BY <2>1, <2>2 DEF Fresh
<1>6. ObjectsApart'
  <2>1. \A u, w \in Uids : items'[u] = items'[w] /\ items'[u] # 0 => u = w
    BY <1>3 DEF ItemsInv, ObjectsApart
  <2>2. \A q \in Writers, u \in Uids : Busy(q)' /\ op'[q].obj # 0 /\ items'[u] = op'[q].obj => op'[q].uid = u
    <3> SUFFICES ASSUME NEW q \in Writers, NEW u \in Uids, Busy(q)', op'[q].obj # 0, items'[u] = op'[q].obj
                 PROVE  op'[q].uid = u
      OBVIOUS
    <3>1. Busy(q) /\ op'[q].obj = op[q].obj /\ op'[q].uid = op[q].uid
      BY <1>1 DEF Busy
    <3>2. CASE items'[u] = items[u]
      BY <3>1, <3>2 DEF ItemsInv, ObjectsApart
    <3>3. CASE u = r.uid /\ items'[u] = x
      <4>1. op[q].obj = r.obj /\ op[q].obj # 0
        BY <3>1, <3>3
      <4> QED
        BY <3>1, <3>3, <4>1 DEF ItemsInv, ObjectsApart
    <3> QED
      BY <1>3, <3>2, <3>3
  <2>3. \A a, b \in Writers : Busy(a)' /\ Busy(b)' /\ op'[a].obj # 0 /\ op'[a].obj = op'[b].obj => op'[a].uid = op'[b].uid
    BY <1>1 DEF ItemsInv, ObjectsApart, Busy
  <2> QED
    BY <2>1, <2>2, <2>3 DEF ObjectsApart
<1>7. OneWorker'
  <2> SUFFICES ASSUME NEW a \in Writers, NEW b \in Writers, Busy(a)', Busy(b)', op'[a].uid = op'[b].uid,
     Clean(op'[a].uid, page')
               PROVE  a = b
    BY DEF OneWorker
  <2>1. \A q \in {a, b} : Busy(q) /\ op'[q].uid = op[q].uid
    BY <1>1 DEF Busy
  <2>2. Clean(op'[a].uid, page)
    BY CleanBefore
  <2>3. op[a].uid = op[b].uid /\ Clean(op[a].uid, page)
    BY <2>1, <2>2
  <2> QED
    BY <2>1, <2>3 DEF ItemsInv, OneWorker
<1>8. OpsKnow'
  <2> SUFFICES ASSUME NEW q \in Writers, Busy(q)', Clean(op'[q].uid, page') PROVE Knows(op'[q], items')
    BY DEF OpsKnow
  <2>1. Clean(op'[q].uid, page)
    BY CleanBefore
  <2>2. CASE q = p
    BY <1>1, <2>1, <2>2 DEF Busy
  <2>3. CASE q # p
    <3>1. op'[q] = op[q] /\ Busy(q) /\ Clean(op[q].uid, page)
      BY <1>1, <2>1, <2>3 DEF Busy
    <3>2. Knows(op[q], items) /\ op[q].uid \in Uids
      BY <3>1 DEF ItemsInv, OpsKnow, Numbers, OpFits, Busy
    <3>3. op[q].uid # r.uid
      BY <2>3, <3>1 DEF ItemsInv, OneWorker
    <3>4. items'[op[q].uid] = items[op[q].uid]
      BY <1>3, <3>2, <3>3
    <3> QED
      BY <3>1, <3>2, <3>4 DEF Knows
  <2> QED
    BY <2>2, <2>3
<1> QED
  BY <1>4, <1>5, <1>6, <1>7, <1>8 DEF ItemsInv

\* Spoiling mends nothing.
LEMMA SpoilGrows == ASSUME Types, NEW hs \in SUBSET Handlers, NEW u \in Uids, Web!Spoil(hs, u) PROVE OffGrows
<1>1. \A h \in Handlers : page'[h].off = IF h \in hs THEN page[h].off \cup {u} ELSE page[h].off
  BY SpoilEffect
<1> QED
  BY <1>1 DEF OffGrows

\* A writer with nothing to do is at no place of an operation.
LEMMA IdleIsIdle == Web!Idle.at = "idle"
BY DEF Web!Idle

\* An operation begins with a number of its own and the object of its uid.  If
\* another is at work on that uid, no page is clean any more.
LEMMA BeginItems ==
  ASSUME WebConstants, Types, ItemsInv, NEW p \in Writers, NEW u \in Uids, Begins(p, u)
  PROVE  ItemsInv'
<1>1. PICK kind \in {"save", "remove", "fade", "mark", "send"}, place \in {"find", "update", "tell"} :
        /\ Web!Begin(p, kind, place, u)
        /\ place = "find" => kind \in {"save", "remove"}
        /\ place = "update" => kind \in {"save", "fade", "mark"} /\ items[u] # 0
        /\ place = "tell" => kind = "send"
  BY DEF Begins
<1> DEFINE s == [Web!Idle EXCEPT !.kind = kind, !.at = place, !.uid = u, !.n = ops + 1, !.obj = items[u],
   !.todo = Handlers]
           num == ops + 1
<1>2. op[p] = Web!Idle /\ op' = [op EXCEPT ![p] = s] /\ ops' = num /\ UNCHANGED items
  BY <1>1 DEF Web!Begin, Web!Becomes
<1>3. s.kind = kind /\ s.at = place /\ s.uid = u /\ s.n = num /\ s.obj = items[u] /\ s.todo = Handlers /\ s.to = {}
  BY DEF Web!Idle
<1>4. op'[p] = s /\ \A q \in Writers \ {p} : op'[q] = op[q]
  BY <1>2 DEF Types
<1>5. num \in Nat /\ ops \in 0..num /\ num \in 1..num /\ num # 0 /\ \A i \in 0..ops : i \in 0..num /\ i # num
  BY DEF WebConstants, Types, Web!Vers
<1>6. \A w \in Uids : items[w] \in 0..ops
  BY DEF ItemsInv, Numbers
<1>7. \A q \in Writers : OpFits(op[q])
  BY DEF ItemsInv, Numbers
<1>8. \A q \in Writers : Busy(q) => q # p
  <2>1. op[p] = Web!Idle
    BY <1>2
  <2> QED
    BY <2>1, IdleIsIdle DEF Busy
<1> HIDE DEF s, num
<1>9. OffGrows /\ ((\E q \in Writers : Busy(q) /\ op[q].uid = u) => ~Clean(u, page'))
  <2>1. PICK hs \in {{}, Handlers} : Web!Spoil(hs, u) /\ ((\E q \in Writers : op[q] # Web!Idle
        /\ op[q].uid = u) => hs = Handlers)
    BY <1>1 DEF Web!Begin
  <2>2. OffGrows
    BY <2>1, SpoilGrows
  <2>3. \A q \in Writers : Busy(q) => op[q] # Web!Idle
    BY IdleIsIdle DEF Busy
  <2>4. hs = Handlers => \A h \in Handlers : u \in page'[h].off
    <3>1. \A h \in Handlers : page'[h].off = IF h \in hs THEN page[h].off \cup {u} ELSE page[h].off
      BY <2>1, SpoilEffect
    <3> QED
      BY <3>1
  <2> QED
    BY <2>1, <2>2, <2>3, <2>4 DEF Clean
<1>10. Numbers'
  <2>1. \A q \in Writers \ {p} : OpFits(op[q])'
    <3> SUFFICES ASSUME NEW q \in Writers, q # p PROVE OpFits(op[q])'
      OBVIOUS
    <3>1. op'[q] = op[q] /\ (op[q].n \in 1..ops => op[q].n \in 1..num) /\ (op[q].obj \in 0..ops => op[q].obj \in 0..num)
      BY <1>4, <1>5
    <3> QED
      BY <1>2, <1>7, <3>1 DEF OpFits
  <2>2. OpFits(op[p])'
    BY <1>1, <1>2, <1>3, <1>4, <1>5, <1>6 DEF OpFits
  <2>3. \A w \in Uids : items'[w] \in 0..ops'
    BY <1>2, <1>5, <1>6
  <2> QED
    BY <2>1, <2>2, <2>3 DEF Numbers
<1>11. Fresh'
  <2>1. \A q \in Writers : Busy(q) => op[q].n # num /\ op[q].obj # num
    <3> SUFFICES ASSUME NEW q \in Writers, Busy(q) PROVE op[q].n # num /\ op[q].obj # num
      OBVIOUS
    <3>1. op[q].n \in 1..ops /\ op[q].obj \in 0..ops
      BY <1>7 DEF OpFits, Busy
    <3> QED
      BY <1>5, <3>1
  <2>2. \A a, b \in Writers : Busy(a)' /\ Busy(b)' /\ a # b => op'[a].n # op'[b].n
    BY <1>3, <1>4, <2>1 DEF ItemsInv, Fresh, Busy
  <2>3. ASSUME NEW a \in Writers, op'[a].at = "find"
        PROVE  /\ \A w \in Uids : items'[w] # op'[a].n
               /\ \A q \in Writers : Busy(q)' => op'[q].obj # op'[a].n
    <3>1. CASE a = p
      <4>1. op'[a].n = num
        BY <1>3, <1>4, <3>1
      <4> QED
        BY <1>2, <1>3, <1>4, <1>5, <1>6, <2>1, <4>1 DEF Busy
    <3>2. CASE a # p
      <4>1. op'[a] = op[a] /\ op[a].at = "find"
        BY <1>4, <2>3, <3>2
      <4> QED
        BY <1>2, <1>3, <1>4, <4>1 DEF ItemsInv, Fresh, Busy
    <3> QED
      BY <3>1, <3>2
  <2> QED
    BY <2>2, <2>3 DEF Fresh
<1>12. ObjectsApart'
  <2>1. \A w, v \in Uids : items'[w] = items'[v] /\ items'[w] # 0 => w = v
    BY <1>2 DEF ItemsInv, ObjectsApart
  <2>2. \A q \in Writers, w \in Uids : Busy(q)' /\ op'[q].obj # 0 /\ items'[w] = op'[q].obj => op'[q].uid = w
    BY <1>2, <1>3, <1>4 DEF ItemsInv, ObjectsApart, Busy
  <2>3. ASSUME NEW a \in Writers, NEW b \in Writers, Busy(a)', Busy(b)', op'[a].obj # 0, op'[a].obj = op'[b].obj
        PROVE  op'[a].uid = op'[b].uid
    <3>1. \A q \in Writers \ {p} : Busy(q)' => Busy(q) /\ op'[q].obj = op[q].obj /\ op'[q].uid = op[q].uid
      BY <1>4 DEF Busy
    <3>2. op'[p].obj = items[u] /\ op'[p].uid = u
      BY <1>3, <1>4
    <3>3. \A q \in Writers : Busy(q) /\ op[q].obj # 0 /\ items[u] = op[q].obj => op[q].uid = u
      BY DEF ItemsInv, ObjectsApart
    <3>4. CASE a # p /\ b # p
      BY <2>3, <3>1, <3>4 DEF ItemsInv, ObjectsApart
    <3>5. CASE a = p \/ b = p
      BY <2>3, <3>1, <3>2, <3>3, <3>5
    <3> QED
      BY <3>4, <3>5
  <2> QED
    BY <2>1, <2>2, <2>3 DEF ObjectsApart
<1>13. OneWorker'
  <2> SUFFICES ASSUME NEW a \in Writers, NEW b \in Writers, Busy(a)', Busy(b)', op'[a].uid = op'[b].uid,
     Clean(op'[a].uid, page'), a # b
               PROVE  FALSE
    BY DEF OneWorker
  <2>1. \A q \in Writers \ {p} : Busy(q)' => Busy(q) /\ op'[q].uid = op[q].uid
    BY <1>4 DEF Busy
  <2>2. Clean(op'[a].uid, page)
    BY <1>9, CleanBefore
  <2>3. CASE a # p /\ b # p
    BY <2>1, <2>2, <2>3 DEF ItemsInv, OneWorker
  <2>4. CASE a = p \/ b = p
    BY <1>3, <1>4, <1>9, <2>1, <2>4
  <2> QED
    BY <2>3, <2>4
<1>14. OpsKnow'
  <2> SUFFICES ASSUME NEW q \in Writers, Busy(q)', Clean(op'[q].uid, page') PROVE Knows(op'[q], items')
    BY DEF OpsKnow
  <2>1. Clean(op'[q].uid, page)
    BY <1>9, CleanBefore
  <2>2. CASE q = p
    BY <1>1, <1>2, <1>3, <1>4, <2>2 DEF Knows
  <2>3. CASE q # p
    BY <1>2, <1>4, <2>1, <2>3 DEF ItemsInv, OpsKnow, Busy
  <2> QED
    BY <2>2, <2>3
<1> QED
  BY <1>10, <1>11, <1>12, <1>13, <1>14 DEF ItemsInv

\* Find takes the object there is, or makes one with the number of the operation.
LEMMA FindItems ==
  ASSUME WebConstants, Types, ItemsInv, NEW p \in Writers, Web!Find(p)
  PROVE  ItemsInv'
<1> DEFINE r == op[p]
           i == items[r.uid]
           s == op'[p]
<1>1. r.at = "find" /\ r.kind = "save" /\ UNCHANGED <<items, ops, page>>
  BY DEF Web!Find
<1>2. r \in Op /\ OpFits(r) /\ r.uid \in Uids /\ r.n \in 1..ops /\ r.todo = Handlers /\ r.to = {}
      /\ i \in 0..ops /\ ops \in Nat
  BY <1>1 DEF ItemsInv, Numbers, OpFits, Types, Web!Vers
<1>3. /\ \A q \in Writers \ {p} : op'[q] = op[q]
      /\ \/ i # 0 /\ s = [r EXCEPT !.at = "update", !.obj = i]
         \/ i = 0 /\ s = [r EXCEPT !.at = "put", !.obj = r.n]
  BY DEF Web!Find, Web!Becomes, Types
<1>4. /\ s.uid = r.uid /\ s.n = r.n /\ s.kind = "save" /\ s.todo = Handlers /\ s.to = {} /\ s.obj # 0 /\ s.obj \in 0..ops
      /\ (s.at = "update" /\ s.obj = i) \/ (s.at = "put" /\ s.obj = r.n)
  <2> HIDE DEF i, r, s
  <2>1. CASE i # 0 /\ s = [r EXCEPT !.at = "update", !.obj = i]
    BY <1>1, <1>2, <2>1 DEF Op
  <2>2. CASE i = 0 /\ s = [r EXCEPT !.at = "put", !.obj = r.n]
    <3>1. r.n # 0 /\ r.n \in 0..ops
      BY <1>2
    <3>2. s.at = "put" /\ s.obj = r.n /\ s.uid = r.uid /\ s.n = r.n /\ s.kind = r.kind /\ s.todo = r.todo /\ s.to = r.to
      BY <1>2, <2>2 DEF Op
    <3> QED
      BY <1>1, <1>2, <3>1, <3>2
  <2> QED
    BY <1>3, <2>1, <2>2
<1>5. \A u \in Uids : items[u] # r.n
  BY <1>1 DEF ItemsInv, Fresh
<1>6. \A q \in Writers : Busy(q) => op[q].obj # r.n
  BY <1>1 DEF ItemsInv, Fresh
<1>7. Busy(p) /\ Busy(p)' /\ \A q \in Writers \ {p} : Busy(q)' <=> Busy(q)
  BY <1>1, <1>3, <1>4 DEF Busy
<1> HIDE DEF s
<1>8. op'[p] = s
  BY DEF s
<1>9. Numbers'
  <2>1. OpFits(op[p])'
    BY <1>1, <1>2, <1>4, <1>8 DEF OpFits
  <2> QED
    BY <1>1, <1>3, <2>1 DEF ItemsInv, Numbers, OpFits
<1>10. Fresh'
  <2>1. \A a, b \in Writers : Busy(a)' /\ Busy(b)' /\ a # b => op'[a].n # op'[b].n
    BY <1>3, <1>4, <1>7, <1>8 DEF ItemsInv, Fresh
  <2>2. ASSUME NEW a \in Writers, op'[a].at = "find"
        PROVE  /\ \A w \in Uids : items'[w] # op'[a].n
               /\ \A q \in Writers : Busy(q)' => op'[q].obj # op'[a].n
    <3>1. a # p /\ op'[a] = op[a]
      BY <1>3, <1>4, <1>8, <2>2
    <3>2. op[a].n # r.n /\ Busy(a)
      BY <1>7, <2>2, <3>1 DEF ItemsInv, Fresh, Busy
    <3>3. \A w \in Uids : items[w] # op[a].n
      BY <2>2, <3>1 DEF ItemsInv, Fresh
    <3>4. \A q \in Writers : Busy(q) => op[q].obj # op[a].n
      BY <2>2, <3>1 DEF ItemsInv, Fresh
    <3>5. s.obj # op[a].n
      BY <1>2, <1>4, <3>2, <3>3
    <3> QED
      BY <1>1, <1>3, <1>7, <1>8, <3>1, <3>3, <3>4, <3>5
  <2> QED
    BY <2>1, <2>2 DEF Fresh
<1>11. ObjectsApart'
  <2>1. \A w, v \in Uids : items'[w] = items'[v] /\ items'[w] # 0 => w = v
    BY <1>1 DEF ItemsInv, ObjectsApart
  <2>2. \A w \in Uids : items[w] = s.obj => s.uid = w
    BY <1>2, <1>4, <1>5 DEF ItemsInv, ObjectsApart
  <2>3. \A q \in Writers \ {p} : Busy(q) /\ op[q].obj = s.obj => op[q].uid = s.uid
    <3> SUFFICES ASSUME NEW q \in Writers \ {p}, Busy(q), op[q].obj = s.obj PROVE op[q].uid = s.uid
      OBVIOUS
    <3>1. s.obj = i /\ s.obj # 0
      BY <1>4, <1>6
    <3> QED
      BY <1>2, <1>4, <3>1 DEF ItemsInv, ObjectsApart
  <2>4. \A q \in Writers, w \in Uids : Busy(q)' /\ op'[q].obj # 0 /\ items'[w] = op'[q].obj => op'[q].uid = w
    BY <1>1, <1>3, <1>7, <1>8, <2>2 DEF ItemsInv, ObjectsApart
  <2>5. \A a, b \in Writers : Busy(a)' /\ Busy(b)' /\ op'[a].obj # 0 /\ op'[a].obj = op'[b].obj => op'[a].uid = op'[b].uid
    BY <1>3, <1>7, <1>8, <2>3 DEF ItemsInv, ObjectsApart
  <2> QED
    BY <2>1, <2>4, <2>5 DEF ObjectsApart
<1>12. OneWorker'
  BY <1>1, <1>3, <1>4, <1>7, <1>8 DEF ItemsInv, OneWorker
<1>13. OpsKnow'
  <2>1. Knows(s, items)
    BY <1>4 DEF Knows
  <2> QED
    BY <1>1, <1>3, <1>7, <1>8, <2>1 DEF ItemsInv, OpsKnow
<1> QED
  BY <1>9, <1>10, <1>11, <1>12, <1>13 DEF ItemsInv

\* The steps of an operation, each with the object it has in hand.
LEMMA OpItems ==
  ASSUME WebConstants, Types, ItemsInv, NEW p \in Writers, Web!OpStep(p)
  PROVE  ItemsInv' /\ OffGrows
<1> DEFINE r == op[p]
<1>1. r \in Op /\ OpFits(r) /\ 0 \in {0, r.obj} /\ r.obj \in {0, r.obj}
  BY DEF ItemsInv, Numbers, Types
<1>2. Busy(p)
  BY DEF Web!OpStep, Web!Find, Web!Update, Web!Store, Web!Remove, Web!Finish, Web!Visit, Web!Push, Busy
<1>3. r.uid \in Uids
  BY <1>1, <1>2 DEF OpFits, Busy
<1>4. Clean(r.uid, page) => Knows(r, items)
  BY <1>2 DEF ItemsInv, OpsKnow
<1>f. OpFits(Web!Idle) /\ Web!Idle.at = "idle"
  BY DEF OpFits, Web!Idle, WebConstants, Types, Web!Vers
<1>5. CASE Web!Find(p)
  <2>1. UNCHANGED page
    BY <1>5 DEF Web!Find
  <2> QED
    BY <1>5, <2>1, FindItems DEF OffGrows
<1>6. CASE Web!Update(p)
  <2> DEFINE s == IF r.kind = "mark" THEN Web!Idle ELSE [r EXCEPT !.at = IF r.kind = "fade" THEN "tell" ELSE "put"]
  <2>1. r.at = "update" /\ op' = [op EXCEPT ![p] = s] /\ UNCHANGED <<items, ops, page>>
    BY <1>6 DEF Web!Update, Web!Becomes
  <2>2. \/ r.kind = "mark" /\ s = Web!Idle
        \/ /\ r.kind # "mark" /\ s.at = IF r.kind = "fade" THEN "tell" ELSE "put"
           /\ s.kind = r.kind /\ s.uid = r.uid /\ s.n = r.n /\ s.obj = r.obj /\ s.todo = r.todo /\ s.to = r.to
    BY <1>1 DEF Op
  <2> HIDE DEF s, r
  <2>3. OpFits(s) /\ s.at # "find"
    BY <1>1, <1>f, <2>1, <2>2 DEF OpFits
  <2>4. s.at # "idle" => s.uid = r.uid /\ s.n = r.n /\ s.obj = r.obj
    BY <1>f, <2>2
  <2>5. s.at # "idle" /\ Clean(s.uid, page) => Knows(s, items')
    BY <1>4, <1>1, <1>f, <2>1, <2>2 DEF Knows, OpFits
  <2>6. OffGrows
    BY <2>1 DEF OffGrows
  <2> QED
    BY <1>1, <1>2, <2>1, <2>3, <2>4, <2>5, <2>6, SameObject DEF r
<1>7. CASE Web!Store(p)
  <2> DEFINE s == [r EXCEPT !.at = "tell"]
  <2>1. r.at = "put" /\ op' = [op EXCEPT ![p] = s] /\ items' = [items EXCEPT ![r.uid] = r.obj] /\ UNCHANGED <<ops,
     page>>
    BY <1>7 DEF Web!Store, Web!Becomes
  <2>2. s.at = "tell" /\ s.kind = r.kind /\ s.uid = r.uid /\ s.n = r.n /\ s.obj = r.obj /\ s.todo = r.todo /\ s.to = r.to
    BY <1>1 DEF Op
  <2> HIDE DEF s, r
  <2>3. OpFits(s) /\ s.at # "find"
    BY <1>1, <2>1, <2>2 DEF OpFits
  <2>4. items'[r.uid] = r.obj /\ r.kind = "save"
    BY <1>1, <1>3, <2>1 DEF Types, OpFits
  <2>5. Knows(s, items')
    BY <2>2, <2>4 DEF Knows
  <2>6. OffGrows
    BY <2>1 DEF OffGrows
  <2> QED
    BY <1>1, <1>2, <2>1, <2>2, <2>3, <2>5, <2>6, SameObject DEF r
<1>8. CASE Web!Remove(p)
  <2> DEFINE s == IF items[r.uid] # 0 THEN [r EXCEPT !.at = "tell"] ELSE Web!Idle
  <2>1. r.at = "find" /\ r.kind = "remove" /\ op' = [op EXCEPT ![p] = s]
        /\ items' = [items EXCEPT ![r.uid] = 0] /\ UNCHANGED <<ops, page>>
    BY <1>8 DEF Web!Remove, Web!Becomes
  <2>2. \/ s = Web!Idle
        \/ s.at = "tell" /\ s.kind = r.kind /\ s.uid = r.uid /\ s.n = r.n /\ s.obj = r.obj /\ s.todo = r.todo
           /\ s.to = r.to
    BY <1>1 DEF Op
  <2> HIDE DEF s, r
  <2>3. OpFits(s) /\ s.at # "find"
    BY <1>1, <1>f, <2>1, <2>2 DEF OpFits
  <2>4. items'[r.uid] = 0
    BY <1>3, <2>1 DEF Types
  <2>5. s.at # "idle" => Knows(s, items') /\ s.uid = r.uid /\ s.n = r.n /\ s.obj = r.obj
    BY <1>f, <2>1, <2>2, <2>4 DEF Knows
  <2>6. OffGrows
    BY <2>1 DEF OffGrows
  <2> QED
    BY <1>1, <1>2, <2>1, <2>3, <2>5, <2>6, SameObject DEF r
<1>9. CASE Web!Finish(p)
  <2>1. op' = [op EXCEPT ![p] = Web!Idle] /\ UNCHANGED <<items, ops, page>>
    BY <1>9 DEF Web!Finish, Web!Becomes
  <2>2. OffGrows
    BY <2>1 DEF OffGrows
  <2> QED
    BY <1>1, <1>2, <1>f, <2>1, <2>2, SameObject
<1>10. ASSUME NEW h \in Handlers, Web!Visit(p, h) \/ Web!Push(p, h) PROVE ItemsInv' /\ OffGrows
  <2>1. r.at = "tell" /\ h \in r.todo /\ UNCHANGED <<items, ops>>
    BY <1>1, <1>10 DEF Web!Visit, Web!Push, OpFits
  <2>2. PICK t \in {{h}, r.to, {}}, d \in {r.todo, r.todo \ {h}} :
          op' = [op EXCEPT ![p] = [r EXCEPT !.to = t, !.todo = d]] /\ t \subseteq d
    <3>1. \/ op' = [op EXCEPT ![p] = [r EXCEPT !.to = {h}]]
          \/ r.to = {} /\ op' = [op EXCEPT ![p] = [r EXCEPT !.todo = r.todo \ {h}]]
          \/ op' = [op EXCEPT ![p] = [r EXCEPT !.to = {}, !.todo = r.todo \ {h}]]
      BY <1>10 DEF Web!Visit, Web!Push, Web!Becomes
    <3>2. /\ [r EXCEPT !.to = {h}] = [r EXCEPT !.to = {h}, !.todo = r.todo]
          /\ r.to = {} => [r EXCEPT !.todo = r.todo \ {h}] = [r EXCEPT !.to = {}, !.todo = r.todo \ {h}]
      <4> HIDE DEF r
      <4> QED
        BY <1>1 DEF Op
    <3> QED
      BY <2>1, <3>1, <3>2
  <2> DEFINE s == [r EXCEPT !.to = t, !.todo = d]
  <2>3. s.at = r.at /\ s.kind = r.kind /\ s.uid = r.uid /\ s.n = r.n /\ s.obj = r.obj /\ s.todo = d /\ s.to = t
    <3> HIDE DEF r
    <3> QED
      BY <1>1 DEF Op
  <2>4. OffGrows
    <3>1. UNCHANGED page \/ \E hs \in SUBSET Handlers : Web!Spoil(hs, r.uid)
      BY <1>10 DEF Web!Visit, Web!Push
    <3> QED
      BY <1>3, <3>1, SpoilGrows DEF OffGrows
  <2>5. op' = [op EXCEPT ![p] = s]
    BY <2>2
  <2> HIDE DEF s, r
  <2>6. OpFits(s) /\ s.at # "find"
    BY <1>1, <2>1, <2>2, <2>3 DEF OpFits
  <2>7. Clean(s.uid, page) => Knows(s, items')
    BY <1>4, <2>1, <2>3 DEF Knows
  <2> QED
    BY <1>1, <1>2, <2>1, <2>3, <2>4, <2>5, <2>6, <2>7, SameObject DEF r
<1> QED
  BY <1>5, <1>6, <1>7, <1>8, <1>9, <1>10 DEF Web!OpStep

\* ItemsInv is inductive.
LEMMA ItemsStep ==
  ASSUME WebConstants, Types, ItemsInv, [Web!Next]_(Web!vars)
  PROVE  ItemsInv'
<1>1. CASE UNCHANGED Web!vars
  BY <1>1, ItemsStay DEF Web!vars, OffGrows
<1>2. ASSUME NEW h \in Handlers, Handles(h) PROVE ItemsInv'
  BY <1>2, HandlesQuietly, ItemsStay DEF OffGrows
<1>3. CASE Web!Next
  BY <1>2, <1>3, Steps, OpItems, BeginItems
<1> QED
  BY <1>1, <1>3

(* How handlers start and stop. *)
Gone(h) == conn[h].reader = "gone" => tak[h].uids \subseteq tak[h].told /\ h \notin subs["clients"]
Crash == crashed => \E h \in Handlers : ~conn[h].active
StopInv == TellsWell /\ Crash /\ \A h \in Handlers : StopOrder(h) /\ Subscribed(h) /\ Gone(h)

\* What a step of a handler leaves of the others.
LEMMA OthersStay ==
  ASSUME Types, StopInv, NEW h \in Handlers, Handles(h), NEW i \in Handlers \ {h}
  PROVE  StopOrder(i)' /\ Subscribed(i)' /\ Gone(i)'
<1>1. conn'[i] = conn[i] /\ page'[i] = page[i] /\ \A l \in Lists : i \in subs'[l] <=> i \in subs[l]
  BY HandlesQuietly
<1>2. tak'[i] = tak[i]
  <2>1. tak' = tak \/ \E k : tak' = [tak EXCEPT ![h] = k]
    <3>1. CASE Web!ReaderStep(h)
      BY <3>1 DEF Web!ReaderStep, Web!getWsHandler, Web!getTakWsHandler, Web!Parse, Web!ReadFails, Web!ReaderStops,
         Web!RemoveHandlerCb, Web!Add, Web!ConnOnly
    <3>2. CASE ~Web!ReaderStep(h)
      BY <3>2 DEF Handles, Web!WriterStep, Web!Recv, Web!Write, Web!WriteFails, Web!WriterStops, Web!PageStep,
         Web!OpenPage, Web!LeavePage, Web!FallSilent, Web!processUnits,
         Web!getUnits, Web!Receive, Web!ConnOnly
    <3> QED
      BY <3>1, <3>2
  <2> QED
    BY <2>1 DEF Types
<1> QED
  BY <1>1, <1>2 DEF StopInv, StopOrder, Subscribed, Gone, Lists

\* The reader's steps.
LEMMA ReaderOrder ==
  ASSUME Types, StopInv, NEW h \in Handlers, Web!ReaderStep(h) \/ \E u \in Uids : Web!Receive(h, u)
  PROVE  StopOrder(h)' /\ Subscribed(h)' /\ Gone(h)' /\ conn'[h].reader # "off" /\ (conn'[h].active => conn[h].active)
         /\ conn'[h].ch = conn[h].ch /\ conn'[h].hand = conn[h].hand /\ conn'[h].peer = conn[h].peer
<1> DEFINE c == conn[h]
           d == conn'[h]
           Rest == d.ch = c.ch /\ d.hand = c.hand /\ d.peer = c.peer
           Goes == Rest /\ d.active = c.active /\ d.open = c.open /\ d.socket = c.socket
           Same == \A l \in Lists : h \in subs'[l] <=> h \in subs[l]
<1>0. c \in Conn /\ subs \in [Lists -> SUBSET Handlers] /\ StopOrder(h) /\ Subscribed(h) /\ Gone(h)
  BY DEF Types, StopInv
<1>g. page' = page
  BY DEF Web!ReaderStep, Web!getWsHandler, Web!getTakWsHandler, Web!Parse, Web!ReadFails, Web!ReaderStops,
     Web!RemoveHandlerCb, Web!Add, Web!ConnOnly, Web!Receive
<1>1. CASE Web!getWsHandler(h)
  <2>1. Kind[h] = "map"
    BY <1>1 DEF Web!getWsHandler
  <2>2. CASE c.reader = "off" /\ c.peer = "there" /\ Web!Turn(h, [c EXCEPT !.reader = "half"]) /\ Web!Add(h, "change")
    <3>1. Goes /\ d.reader = "half" /\ d.writer = c.writer
      BY <1>0, <2>2 DEF Web!Turn, Types, Conn
    <3>2. h \in subs'["change"] /\ (h \in subs'["delete"] <=> h \in subs["delete"])
          /\ (h \in subs'["clients"] <=> h \in subs["clients"])
      BY <1>0, <2>2 DEF Web!Add, Lists
    <3>3. StopOrder(h)' /\ Gone(h)'
      BY <1>0, <3>1 DEF StopOrder, Gone
    <3>4. Subscribed(h)'
      BY <1>0, <2>2, <3>1, <3>2 DEF Subscribed, Lists
    <3>5. d.reader # "off" /\ (d.active => c.active) /\ Rest
      BY <3>1
    <3> QED
      BY <3>3, <3>4, <3>5
  <2>3. CASE c.reader = "half" /\ Web!Turn(h, Web!Listening(c)) /\ Web!Add(h, "delete")
    <3>1. Goes /\ d.reader = "read" /\ d.writer = "recv"
      BY <1>0, <2>3 DEF Web!Turn, Types, Conn, Web!Listening
    <3>2. h \in subs'["delete"] /\ (h \in subs'["change"] <=> h \in subs["change"])
          /\ (h \in subs'["clients"] <=> h \in subs["clients"])
      BY <1>0, <2>3 DEF Web!Add, Lists
    <3> QED
      BY <1>0, <1>g, <2>1, <2>3, <3>1, <3>2 DEF StopOrder, Subscribed, Gone, Lists
  <2> QED
    BY <1>1, <2>2, <2>3 DEF Web!getWsHandler
<1>2. CASE Web!getTakWsHandler(h)
  <2>1. Kind[h] = "tak" /\ c.reader = "off" /\ c.peer = "there" /\ Web!Turn(h, Web!Listening(c))
    BY <1>2 DEF Web!getTakWsHandler
  <2>2. Goes /\ d.reader = "read" /\ d.writer = "recv"
    BY <1>0, <2>1 DEF Web!Turn, Types, Conn, Web!Listening
  <2> QED
    BY <1>0, <1>g, <2>1, <2>2 DEF StopOrder, Subscribed, Gone, Lists
<1>3. CASE Web!Parse(h)
  <2>1. c.reader = "got" /\ Web!Turn(h, [c EXCEPT !.reader = "read"]) /\ subs' = subs
    BY <1>3 DEF Web!Parse
  <2>2. Goes /\ d.reader = "read" /\ d.writer = c.writer
    BY <1>0, <2>1 DEF Web!Turn, Types, Conn
  <2> QED
    BY <1>0, <1>g, <2>1, <2>2 DEF StopOrder, Subscribed, Gone, Lists
<1>4. CASE Web!ReadFails(h)
  <2>1. c.reader = "read" /\ Web!Turn(h, [c EXCEPT !.reader = "swap"]) /\ subs' = subs
    BY <1>4 DEF Web!ReadFails, Web!ConnOnly
  <2>2. Goes /\ d.reader = "swap" /\ d.writer = c.writer
    BY <1>0, <2>1 DEF Web!Turn, Types, Conn
  <2> QED
    BY <1>0, <1>g, <2>1, <2>2 DEF StopOrder, Subscribed, Gone, Lists
<1>5. CASE Web!ReaderStops(h)
  <2>1. subs' = subs /\ tak' = tak
    BY <1>5 DEF Web!ReaderStops, Web!ConnOnly
  <2>2. \/ c.reader = "swap" /\ c.active /\ Web!Turn(h, [c EXCEPT !.reader = "close", !.active = FALSE])
        \/ c.reader = "swap" /\ ~c.active /\ Web!Turn(h, [c EXCEPT !.reader = "left"])
        \/ c.reader = "close" /\ Web!Turn(h, [c EXCEPT !.reader = "shut", !.open = FALSE])
        \/ c.reader = "shut" /\ Web!Turn(h, [c EXCEPT !.reader = "left", !.socket = FALSE])
    BY <1>5 DEF Web!ReaderStops, Web!Stop, Web!Stops
  <2>3. Rest /\ d.writer = c.writer /\ ~d.active /\ d.reader \in {"close", "shut", "left"}
    <3>0. c.reader \in {"close", "shut"} => ~c.active
      BY <1>0 DEF StopOrder
    <3>1. \/ c.reader = "swap" /\ c.active /\ d = [c EXCEPT !.reader = "close", !.active = FALSE]
          \/ c.reader = "swap" /\ ~c.active /\ d = [c EXCEPT !.reader = "left"]
          \/ c.reader = "close" /\ d = [c EXCEPT !.reader = "shut", !.open = FALSE]
          \/ c.reader = "shut" /\ d = [c EXCEPT !.reader = "left", !.socket = FALSE]
      BY <2>2 DEF Web!Turn, Types
    <3> HIDE DEF c, d
    <3> QED
      BY <1>0, <3>0, <3>1 DEF Conn
  <2>4. c.reader # "off"
    BY <2>2
  <2> QED
    BY <1>0, <1>g, <2>1, <2>3, <2>4 DEF StopOrder, Subscribed, Gone, Lists
<1>6. CASE Web!RemoveHandlerCb(h)
  <2>1. c.reader = "left" /\ Web!Turn(h, [c EXCEPT !.reader = "gone"])
        /\ subs' = [subs EXCEPT !["clients"] = subs["clients"] \ {h}]
        /\ tak' = [tak EXCEPT ![h] = [tak[h] EXCEPT !.told = tak[h].uids]]
    BY <1>6 DEF Web!RemoveHandlerCb
  <2>2. Goes /\ d.reader = "gone" /\ d.writer = c.writer
    BY <1>0, <2>1 DEF Web!Turn, Types, Conn
  <2>3. tak'[h].uids = tak[h].uids /\ tak'[h].told = tak[h].uids
    BY <2>1 DEF Types, Client
  <2>4. h \notin subs'["clients"] /\ \A l \in Lists : h \in subs'[l] => h \in subs[l]
    BY <1>0, <2>1 DEF Lists
  <2> QED
    BY <1>0, <1>g, <2>1, <2>2, <2>3, <2>4 DEF StopOrder, Subscribed, Gone, Lists
<1>7. ASSUME NEW u \in Uids, Web!Receive(h, u) PROVE StopOrder(h)' /\ Subscribed(h)' /\ Gone(h)'
      /\ d.reader # "off" /\ (d.active => c.active) /\ Rest
  <2>1. c.reader = "read" /\ Web!Turn(h, [c EXCEPT !.reader = "got"]) /\ subs' = subs
    BY <1>7 DEF Web!Receive
  <2>2. Goes /\ d.reader = "got" /\ d.writer = c.writer
    BY <1>0, <2>1 DEF Web!Turn, Types, Conn
  <2> QED
    BY <1>0, <1>g, <2>1, <2>2 DEF StopOrder, Subscribed, Gone, Lists
<1> QED
  BY <1>1, <1>2, <1>3, <1>4, <1>5, <1>6, <1>7 DEF Web!ReaderStep

\* The writer's steps, and those of the page.
LEMMA WriterOrder ==
  ASSUME Types, StopInv, NEW h \in Handlers, Web!WriterStep(h) \/ Web!PageStep(h)
  PROVE  /\ StopOrder(h)' /\ Subscribed(h)' /\ Gone(h)'
         /\ conn'[h].reader = conn[h].reader /\ (conn'[h].active => conn[h].active)
<1> DEFINE c == conn[h]
           d == conn'[h]
           Flags == d.active = c.active /\ d.open = c.open /\ d.socket = c.socket
           Goal == /\ StopOrder(h)' /\ Subscribed(h)' /\ Gone(h)'
                   /\ d.reader = c.reader /\ (d.active => c.active)
<1>0. c \in Conn /\ StopOrder(h) /\ Subscribed(h) /\ Gone(h)
  BY DEF Types, StopInv
<1>s. subs' = subs /\ tak' = tak
  BY DEF Web!WriterStep, Web!Recv, Web!Write, Web!WriteFails, Web!WriterStops, Web!PageStep, Web!OpenPage,
     Web!LeavePage, Web!FallSilent, Web!processUnits, Web!getUnits, Web!ConnOnly
<1>p. ASSUME d.reader = c.reader, d.active => c.active, d.active => d.open /\ d.socket,
   d.ch = c.ch \/ c.reader # "off",
             d.writer \in {"close", "shut", "end"} => ~d.active, c.reader \in {"off", "half"} => d.writer = "off",
             d.writer = "write" <=> d.hand # <<>>,
                d.peer = "away" => c.peer = "away" /\ page'[h].looked = page[h].looked
      PROVE  Goal
  BY <1>0, <1>s, <1>p DEF StopOrder, Subscribed, Gone, Lists
<1>1. CASE Web!Recv(h)
  <2>1. page' = page /\ c.writer = "recv"
    BY <1>1 DEF Web!Recv, Web!ConnOnly
  <2>2. \/ c.ch # <<>> /\ Web!Turn(h, [c EXCEPT !.ch = Tail(c.ch), !.hand = <<Head(c.ch)>>, !.writer = "write"])
        \/ c.ch = <<>> /\ ~c.open /\ Web!Turn(h, [c EXCEPT !.writer = "end"])
    BY <1>1 DEF Web!Recv
  <2>3. c.reader \notin {"off", "half"} /\ c.hand = <<>>
    BY <1>0, <2>1 DEF Subscribed
  <2>4. /\ d.reader = c.reader /\ Flags /\ d.peer = c.peer
        /\ \/ d.writer = "write" /\ d.hand # <<>>
           \/ d.writer = "end" /\ d.hand = c.hand /\ ~c.open
    <3>1. CASE c.ch # <<>> /\ Web!Turn(h, [c EXCEPT !.ch = Tail(c.ch), !.hand = <<Head(c.ch)>>, !.writer = "write"])
      <4> DEFINE t == Tail(c.ch)
                 one == <<Head(c.ch)>>
      <4>1. one # <<>>
        OBVIOUS
      <4> HIDE DEF t, one
      <4>2. Web!Turn(h, [c EXCEPT !.ch = t, !.hand = one, !.writer = "write"])
        BY <3>1 DEF t, one
      <4> QED
        BY <1>0, <4>1, <4>2 DEF Web!Turn, Types, Conn
    <3>2. CASE c.ch = <<>> /\ ~c.open /\ Web!Turn(h, [c EXCEPT !.writer = "end"])
      BY <1>0, <3>2 DEF Web!Turn, Types, Conn
    <3> QED
      BY <2>2, <3>1, <3>2
  <2>5. ~c.open => ~c.active
    BY <1>0 DEF StopOrder
  <2> QED
    BY <1>0, <1>p, <2>1, <2>3, <2>4, <2>5 DEF StopOrder
<1>2. CASE Web!Write(h)
  <2>1. c.writer = "write" /\ c.peer = "there" /\ Web!Turn(h, [c EXCEPT !.hand = <<>>, !.writer = "recv"])
    BY <1>2 DEF Web!Write
  <2>2. d.reader = c.reader /\ Flags /\ d.ch = c.ch /\ d.peer = c.peer /\ d.writer = "recv" /\ d.hand = <<>>
    BY <1>0, <2>1 DEF Web!Turn, Types, Conn
  <2>3. c.reader \notin {"off", "half"}
    BY <1>0, <2>1 DEF Subscribed
  <2> QED
    BY <1>0, <1>p, <2>1, <2>2, <2>3 DEF StopOrder
<1>3. CASE Web!WriteFails(h)
  <2>1. c.writer = "write" /\ page' = page
    BY <1>3 DEF Web!WriteFails, Web!ConnOnly
  <2>2. PICK x \in {"end", "recv", "swap"} : (x = "end" => ~c.active)
        /\ Web!Turn(h, [c EXCEPT !.hand = <<>>, !.writer = x])
    BY <1>3 DEF Web!WriteFails
  <2>3. d.reader = c.reader /\ Flags /\ d.ch = c.ch /\ d.peer = c.peer /\ d.writer = x /\ d.hand = <<>>
    BY <1>0, <2>2 DEF Web!Turn, Types, Conn
  <2>4. c.reader \notin {"off", "half"}
    BY <1>0, <2>1 DEF Subscribed
  <2> QED
    BY <1>0, <1>p, <2>1, <2>2, <2>3, <2>4 DEF StopOrder
<1>4. CASE Web!WriterStops(h)
  <2>1. page' = page
    BY <1>4 DEF Web!WriterStops, Web!ConnOnly
  <2>2. \/ c.writer = "swap" /\ c.active /\ Web!Turn(h, [c EXCEPT !.writer = "close", !.active = FALSE])
        \/ c.writer = "swap" /\ ~c.active /\ Web!Turn(h, [c EXCEPT !.writer = "end"])
        \/ c.writer = "close" /\ Web!Turn(h, [c EXCEPT !.writer = "shut", !.open = FALSE])
        \/ c.writer = "shut" /\ Web!Turn(h, [c EXCEPT !.writer = "end", !.socket = FALSE])
    BY <1>4 DEF Web!WriterStops, Web!Stop, Web!Stops
  <2>3. c.writer \in {"close", "shut"} => ~c.active
    BY <1>0 DEF StopOrder
  <2>4. \/ c.writer = "swap" /\ c.active /\ d = [c EXCEPT !.writer = "close", !.active = FALSE]
        \/ c.writer = "swap" /\ ~c.active /\ d = [c EXCEPT !.writer = "end"]
        \/ c.writer = "close" /\ d = [c EXCEPT !.writer = "shut", !.open = FALSE]
        \/ c.writer = "shut" /\ d = [c EXCEPT !.writer = "end", !.socket = FALSE]
    BY <2>2 DEF Web!Turn, Types
  <2>5. d.ch = c.ch /\ d.hand = c.hand /\ d.peer = c.peer /\ d.reader = c.reader /\ ~d.active
        /\ d.writer \in {"close", "shut", "end"}
    <3> HIDE DEF c, d
    <3> QED
      BY <1>0, <2>3, <2>4 DEF Conn
  <2>6. c.writer \in {"swap", "close", "shut"}
    BY <2>2
  <2>7. c.hand = <<>> /\ c.reader \notin {"off", "half"}
    BY <1>0, <2>6 DEF Subscribed
  <2> QED
    BY <1>0, <1>p, <2>1, <2>5, <2>7 DEF StopOrder
<1>5. CASE Web!OpenPage(h) \/ Web!LeavePage(h) \/ Web!FallSilent(h)
  <2>1. \E x \in {"there", "left", "silent"} : Web!Turn(h, [c EXCEPT !.peer = x])
    BY <1>5 DEF Web!OpenPage, Web!LeavePage, Web!FallSilent
  <2>2. d.reader = c.reader /\ Flags /\ d.ch = c.ch /\ d.hand = c.hand /\ d.writer = c.writer /\ d.peer # "away"
    BY <1>0, <2>1 DEF Web!Turn, Types, Conn
  <2> QED
    BY <1>0, <1>p, <2>2 DEF StopOrder, Subscribed
<1>6. CASE Web!processUnits(h)
  <2>1. conn' = conn /\ page' = [page EXCEPT ![h] = [page[h] EXCEPT !.view = page[h].answer, !.arrived = TRUE,
     !.off = page[h].off \cup page[h].touched]]
    BY <1>6 DEF Web!processUnits, Web!Merged
  <2>2. page'[h].looked = page[h].looked
    BY <2>1 DEF Types, Page
  <2> QED
    BY <1>0, <1>p, <2>1, <2>2 DEF StopOrder, Subscribed
<1>7. ASSUME NEW u \in Uids, Web!getUnits(h, u) PROVE Goal
  <2>1. conn' = conn /\ c.peer = "there"
    BY <1>7 DEF Web!getUnits
  <2> QED
    BY <1>0, <1>p, <2>1 DEF StopOrder, Subscribed
<1> QED
  BY <1>1, <1>2, <1>3, <1>4, <1>5, <1>6, <1>7 DEF Web!WriterStep, Web!PageStep

\* The steps of operations: a push adds to a channel, a visit may strike a
\* handler that does not listen from a list.
LEMMA OpOrder ==
  ASSUME Types, ItemsInv, StopInv, NEW p \in Writers, Web!OpStep(p)
  PROVE  StopInv'
<1> DEFINE r == op[p]
<1>0. r \in Op /\ OpFits(r)
  BY DEF ItemsInv, Numbers, Types
<1>t. tak' = tak
  BY DEF Web!OpStep, Web!Find, Web!Update, Web!Store, Web!Remove, Web!Finish, Web!Visit, Web!Push
<1>a. \A h \in Handlers : StopOrder(h) /\ Subscribed(h) /\ Gone(h)
  BY DEF StopInv
<1>s. ASSUME conn' = conn, crashed' = crashed, \A l \in Lists, h \in Handlers : h \in subs'[l] => h \in subs[l],
             \A h \in Handlers : page'[h].looked = page[h].looked,
             \A h \in Handlers : conn[h].active => \A l \in Lists : h \in subs[l] => h \in subs'[l]
      PROVE  Crash' /\ \A h \in Handlers : StopOrder(h)' /\ Subscribed(h)' /\ Gone(h)'
  <2>1. Crash'
    BY <1>s DEF StopInv, Crash
  <2>2. ASSUME NEW h \in Handlers PROVE StopOrder(h)' /\ Subscribed(h)' /\ Gone(h)'
    <3>1. StopOrder(h)'
      BY <1>a, <1>s DEF StopOrder
    <3>2. Subscribed(h)'
      BY <1>a, <1>s DEF Subscribed, Lists
    <3>3. Gone(h)'
      BY <1>a, <1>s, <1>t DEF Gone, Lists
    <3> QED
      BY <3>1, <3>2, <3>3
  <2> QED
    BY <2>1, <2>2
<1>1. CASE Web!Find(p) \/ Web!Update(p) \/ Web!Store(p) \/ Web!Remove(p) \/ Web!Finish(p)
  <2>1. UNCHANGED <<subs, conn, page, crashed>>
    BY <1>1 DEF Web!Find, Web!Update, Web!Store, Web!Remove, Web!Finish
  <2>2. \A q \in Writers \ {p} : op'[q] = op[q]
    BY <1>1 DEF Web!Find, Web!Update, Web!Store, Web!Remove, Web!Finish, Web!Becomes, Types
  <2>3. op'[p].to \subseteq op[p].to
    <3>1. \/ op'[p] = [r EXCEPT !.at = "update", !.obj = items[r.uid]]
          \/ op'[p] = [r EXCEPT !.at = "put", !.obj = r.n]
          \/ \E a \in Places : op'[p] = [r EXCEPT !.at = a]
          \/ op'[p] = Web!Idle
      BY <1>1 DEF Web!Find, Web!Update, Web!Store, Web!Remove, Web!Finish, Web!Becomes, Types, Places
    <3>2. Web!Idle.to = {}
      BY DEF Web!Idle
    <3> QED
      BY <1>0, <3>1, <3>2 DEF Op
  <2>4. op'[p].kind = op[p].kind \/ op'[p].to = {}
    <3>1. \/ op'[p] = [r EXCEPT !.at = "update", !.obj = items[r.uid]]
          \/ op'[p] = [r EXCEPT !.at = "put", !.obj = r.n]
          \/ \E a \in Places : op'[p] = [r EXCEPT !.at = a]
          \/ op'[p] = Web!Idle
      BY <1>1 DEF Web!Find, Web!Update, Web!Store, Web!Remove, Web!Finish, Web!Becomes, Types, Places
    <3>2. Web!Idle.to = {}
      BY DEF Web!Idle
    <3> QED
      BY <1>0, <3>1, <3>2 DEF Op
  <2>5. TellsWell'
    BY <2>1, <2>2, <2>3, <2>4 DEF StopInv, TellsWell
  <2> QED
    BY <1>s, <2>1, <2>5 DEF StopInv
<1>2. ASSUME NEW h \in Handlers, Web!Visit(p, h) PROVE StopInv'
  <2>1. r.at = "tell" /\ r.to = {} /\ h \in r.todo /\ UNCHANGED <<conn, crashed>> /\ r.uid \in Uids
    BY <1>0, <1>2 DEF Web!Visit, OpFits
  <2>2. Web!List(r) \in Lists /\ (Web!List(r) = "clients" <=> r.kind = "send")
    BY DEF Web!List, Lists
  <2>3. \A q \in Writers \ {p} : op'[q] = op[q]
    BY <1>2 DEF Web!Visit, Web!Becomes, Types
  <2>4. CASE h \in subs[Web!List(r)] /\ conn[h].active
    <3>1. op' = [op EXCEPT ![p] = [r EXCEPT !.to = {h}]] /\ UNCHANGED <<subs, page>>
      BY <1>2, <2>4 DEF Web!Visit, Web!Becomes
    <3>2. op'[p].to = {h} /\ op'[p].kind = r.kind
      BY <1>0, <3>1 DEF Types, Op
    <3>3. conn[h].reader # "off" /\ (Kind[h] = "map" => r.kind # "send")
      BY <1>a, <2>2, <2>4 DEF Subscribed
    <3>4. TellsWell'
      BY <2>1, <2>3, <3>2, <3>3 DEF StopInv, TellsWell
    <3> QED
      BY <1>s, <2>1, <3>1, <3>4 DEF StopInv
  <2>5. CASE ~(h \in subs[Web!List(r)] /\ conn[h].active)
    <3>1. /\ op' = [op EXCEPT ![p] = [r EXCEPT !.todo = r.todo \ {h}]]
          /\ subs' = IF r.kind = "send" THEN subs ELSE [subs EXCEPT ![Web!List(r)] = subs[Web!List(r)] \ {h}]
          /\ Web!Spoil(IF r.uid \in page[h].looked \/ conn[h].reader = "half" THEN {h} ELSE {}, r.uid)
      BY <1>2, <2>5 DEF Web!Visit, Web!Becomes
    <3>2. op'[p].to = {}
      BY <1>0, <2>1, <3>1 DEF Types, Op
    <3>3. \A k \in Handlers : page'[k].looked = page[k].looked
      <4>1. \E hs \in SUBSET Handlers : Web!Spoil(hs, r.uid)
        BY <3>1
      <4> QED
        BY <2>1, <4>1, SpoilEffect
    <3>4. \A l \in Lists, k \in Handlers : (k \in subs'[l] => k \in subs[l]) /\ (k \in subs[l]
          /\ conn[k].active => k \in subs'[l])
      BY <2>2, <2>5, <3>1 DEF Types
    <3>5. TellsWell'
      BY <2>1, <2>3, <3>2 DEF StopInv, TellsWell
    <3> QED
      BY <1>s, <2>1, <3>3, <3>4, <3>5 DEF StopInv
  <2> QED
    BY <2>4, <2>5
<1>3. ASSUME NEW h \in Handlers, Web!Push(p, h) PROVE StopInv'
  <2> DEFINE c == conn[h]
             d == conn'[h]
  <2>1. r.at = "tell" /\ h \in r.to /\ subs' = subs /\ r.uid \in Uids
    BY <1>0, <1>3 DEF Web!Push, OpFits
  <2>2. op' = [op EXCEPT ![p] = [r EXCEPT !.to = {}, !.todo = r.todo \ {h}]]
    BY <1>3 DEF Web!Push, Web!Becomes
  <2>3. \A q \in Writers \ {p} : op'[q] = op[q]
    BY <2>2 DEF Types
  <2>4. op'[p].to = {}
    BY <1>0, <2>2 DEF Types, Op
  <2>5. c.reader # "off"
    BY <2>1 DEF StopInv, TellsWell
  <2>6. \A k \in Handlers : page'[k].looked = page[k].looked
    <3>1. UNCHANGED page \/ Web!Spoil({h}, r.uid)
      BY <1>3 DEF Web!Push
    <3>2. {h} \in SUBSET Handlers
      OBVIOUS
    <3> QED
      BY <2>1, <3>1, <3>2, SpoilEffect
  <2>7. /\ \A k \in Handlers \ {h} : conn'[k] = conn[k]
        /\ d.reader = c.reader /\ d.writer = c.writer /\ d.active = c.active /\ d.open = c.open /\ d.socket = c.socket
        /\ d.peer = c.peer /\ d.hand = c.hand
    <3> DEFINE s == Append(c.ch, [uid |-> r.uid, ver |-> Web!Says(r)])
    <3>1. conn' = conn \/ conn' = [conn EXCEPT ![h] = [c EXCEPT !.ch = s]]
      BY <1>3 DEF Web!Push
    <3>2. c \in Conn
      BY DEF Types
    <3> HIDE DEF s
    <3> QED
      BY <3>1, <3>2 DEF Types, Conn
  <2>8. TellsWell'
    <3>1. \A k \in Handlers : conn'[k].reader = conn[k].reader
      BY <2>7
    <3> QED
      BY <2>3, <2>4, <3>1 DEF StopInv, TellsWell, Types, Op
  <2>9. Crash'
    <3>1. crashed' = crashed \/ ~c.open
      BY <1>3 DEF Web!Push
    <3>2. ~c.open => ~c.active
      BY <1>a DEF StopOrder
    <3>3. \A k \in Handlers : conn'[k].active = conn[k].active
      BY <2>7
    <3> QED
      BY <3>1, <3>2, <3>3 DEF StopInv, Crash
  <2>10. ASSUME NEW k \in Handlers PROVE StopOrder(k)' /\ Subscribed(k)' /\ Gone(k)'
    <3>1. CASE k = h
      BY <1>a, <1>t, <2>1, <2>5, <2>6, <2>7, <3>1 DEF StopOrder, Subscribed, Gone
    <3>2. CASE k # h
      BY <1>a, <1>t, <2>1, <2>6, <2>7, <3>2 DEF StopOrder, Subscribed, Gone
    <3> QED
      BY <3>1, <3>2
  <2> QED
    BY <2>8, <2>9, <2>10 DEF StopInv
<1> QED
  BY <1>1, <1>2, <1>3 DEF Web!OpStep

\* An operation that begins tells nobody yet.
LEMMA BeginOrder ==
  ASSUME Types, StopInv, NEW p \in Writers, NEW u \in Uids, Begins(p, u)
  PROVE  StopInv'
<1>0. PICK kind \in Kinds, place \in Places : Web!Begin(p, kind, place, u)
  BY DEF Begins, Kinds, Places
<1>1. PICK hs \in SUBSET Handlers : Web!Begin(p, kind, place, u) /\ Web!Spoil(hs, u)
  BY <1>0 DEF Web!Begin
<1>2. UNCHANGED <<subs, conn, tak, crashed>>
      /\ op' = [op EXCEPT ![p] = [Web!Idle EXCEPT !.kind = kind, !.at = place, !.uid = u, !.n = ops + 1,
        !.obj = items[u], !.todo = Handlers]]
  BY <1>1 DEF Web!Begin, Web!Becomes
<1>3. op'[p].to = {} /\ \A q \in Writers \ {p} : op'[q] = op[q]
  BY <1>2 DEF Types, Web!Idle
<1>4. \A h \in Handlers : page'[h].looked = page[h].looked
  BY <1>1, SpoilEffect
<1>5. TellsWell' /\ Crash'
  BY <1>2, <1>3 DEF StopInv, TellsWell, Crash
<1>6. \A h \in Handlers : StopOrder(h)' /\ Subscribed(h)' /\ Gone(h)'
  BY <1>2, <1>4 DEF StopInv, StopOrder, Subscribed, Gone
<1> QED
  BY <1>5, <1>6 DEF StopInv

\* StopInv is inductive.
LEMMA StopStep ==
  ASSUME WebConstants, Types, ItemsInv, StopInv, [Web!Next]_(Web!vars)
  PROVE  StopInv'
<1>1. CASE UNCHANGED Web!vars
  BY <1>1 DEF Web!vars, StopInv, TellsWell, Crash, StopOrder, Subscribed, Gone
<1>2. ASSUME NEW h \in Handlers, Handles(h), ~crashed PROVE StopInv'
  <2>1. /\ StopOrder(h)' /\ Subscribed(h)' /\ Gone(h)' /\ (conn'[h].active => conn[h].active)
        /\ conn'[h].reader # "off" \/ conn'[h].reader = conn[h].reader
    BY <1>2, ReaderOrder, WriterOrder DEF Handles
  <2>2. \A i \in Handlers \ {h} : StopOrder(i)' /\ Subscribed(i)' /\ Gone(i)'
    BY <1>2, OthersStay
  <2>3. UNCHANGED <<op, crashed>> /\ \A i \in Handlers \ {h} : conn'[i] = conn[i]
    BY <1>2, HandlesQuietly
  <2>4. TellsWell'
    <3>1. \A i \in Handlers : conn[i].reader # "off" => conn'[i].reader # "off"
      BY <2>1, <2>3
    <3>2. op' = op
      BY <2>3
    <3> QED
      BY <3>1, <3>2 DEF StopInv, TellsWell, Types, Op
  <2>5. Crash'
    BY <1>2, <2>3 DEF Crash
  <2> QED
    BY <2>1, <2>2, <2>4, <2>5 DEF StopInv
<1>3. CASE Web!Next
  BY <1>2, <1>3, Steps, OpOrder, BeginOrder
<1> QED
  BY <1>1, <1>3

(* What is on its way to a page. *)

\* The next message is taken in hand.
LEMMA TakenInHand ==
  ASSUME NEW c \in Conn, NEW d \in Conn, NEW g, NEW u, NEW v, c.ch # <<>>, c.hand = <<>>,
         d.ch = Tail(c.ch), d.hand = <<Head(c.ch)>>, Told(c, g, u, v)
  PROVE  Told(d, g, u, v)
<1> DEFINE s == c.ch
           t == d.ch
<1>1. s \in Seq(Web!Message) /\ s # <<>> /\ t = Tail(s)
  BY DEF Conn
<1>2. d.hand # <<>> /\ d.hand[1] = s[1]
  <2> HIDE DEF s
  <2>1. Head(s) = s[1] /\ d.hand = <<Head(s)>>
    BY <1>1 DEF s
  <2> QED
    BY <2>1
<1> HIDE DEF s, t
<1>3. /\ Len(s) \in Nat /\ Len(s) >= 1 /\ Len(t) = Len(s) - 1
      /\ \A i \in 1..Len(t) : i + 1 \in 1..Len(s) /\ t[i] = s[i + 1]
      /\ \A j \in 1..Len(s) : j # 1 => j - 1 \in 1..Len(t) /\ t[j - 1] = s[j]
  BY <1>1
<1>4. QueueTrue(c, u, v) /\ (NoneAbout(c, u) => PageTrue(g, u, v))
  BY DEF Told
<1>5. \A i \in 1..Len(s) : s[i].uid = u => s[i].ver = v \/ \E j \in 1..Len(s) : j > i /\ s[j].uid = u
  BY <1>4 DEF QueueTrue, s
<1>6. ASSUME NEW i \in 1..Len(t), t[i].uid = u
      PROVE  t[i].ver = v \/ \E j \in 1..Len(t) : j > i /\ t[j].uid = u
  <2>1. i + 1 \in 1..Len(s) /\ t[i] = s[i + 1]
    BY <1>3
  <2>2. CASE s[i + 1].ver = v
    BY <2>1, <2>2
  <2>3. CASE \E j \in 1..Len(s) : j > i + 1 /\ s[j].uid = u
    <3>1. PICK j \in 1..Len(s) : j > i + 1 /\ s[j].uid = u
      BY <2>3
    <3>2. j # 1 /\ j - 1 > i
      BY <3>1, <1>3
    <3>3. j - 1 \in 1..Len(t) /\ t[j - 1].uid = u
      BY <1>3, <3>1, <3>2
    <3> QED
      BY <3>2, <3>3
  <2>4. s[i + 1].ver = v \/ \E j \in 1..Len(s) : j > i + 1 /\ s[j].uid = u
    BY <1>5, <1>6, <2>1
  <2> QED
    BY <2>2, <2>3, <2>4
<1>7. d.hand[1].uid = u => d.hand[1].ver = v \/ \E j \in 1..Len(t) : t[j].uid = u
  <2> SUFFICES ASSUME s[1].uid = u, s[1].ver # v PROVE \E j \in 1..Len(t) : t[j].uid = u
    BY <1>2
  <2>1. 1 \in 1..Len(s)
    BY <1>3
  <2>2. PICK j \in 1..Len(s) : j > 1 /\ s[j].uid = u
    BY <1>5, <2>1
  <2>3. j # 1
    BY <2>2
  <2> QED
    BY <1>3, <2>2, <2>3
<1>8. QueueTrue(d, u, v)
  BY <1>6, <1>7 DEF QueueTrue, t
<1>9. NoneAbout(d, u) => NoneAbout(c, u)
  <2> SUFFICES ASSUME NoneAbout(d, u) PROVE \A j \in 1..Len(s) : s[j].uid # u
    BY DEF NoneAbout, s
  <2>1. s[1].uid # u /\ \A j \in 1..Len(t) : t[j].uid # u
    BY <1>2 DEF NoneAbout, t
  <2> QED
    BY <1>3, <2>1
<1> QED
  BY <1>4, <1>8, <1>9 DEF Told

\* The message in hand is written, and the page applies it.
LEMMA Applied ==
  ASSUME NEW c \in Conn, NEW d \in Conn, NEW g \in Page, NEW f \in Page, NEW u \in Uids, NEW v, NEW m \in Web!Message,
         c.hand # <<>>, c.hand[1] = m, d.ch = c.ch, d.hand = <<>>,
         f.view = [g.view EXCEPT ![m.uid] = m.ver], f.answer = g.answer, f.looked = g.looked, f.arrived = g.arrived,
         f.touched = g.touched \cup (g.looked \cap {m.uid}), Told(c, g, u, v)
  PROVE  Told(d, f, u, v)
<1>1. QueueTrue(c, u, v) /\ (NoneAbout(c, u) => PageTrue(g, u, v))
  BY DEF Told
<1>2. QueueTrue(d, u, v)
  BY <1>1 DEF QueueTrue
<1>3. ASSUME NoneAbout(d, u) PROVE PageTrue(f, u, v)
  <2>1. \A j \in 1..Len(c.ch) : c.ch[j].uid # u
    BY <1>3 DEF NoneAbout
  <2>2. CASE m.uid = u
    <3>1. m.ver = v
      BY <1>1, <2>1, <2>2 DEF QueueTrue
    <3>2. f.view[u] = v
      BY <2>2, <3>1 DEF Page
    <3> QED
      BY <2>2, <3>2 DEF PageTrue
  <2>3. CASE m.uid # u
    <3>1. PageTrue(g, u, v)
      BY <1>1, <2>1, <2>3 DEF NoneAbout
    <3>2. f.view[u] = g.view[u]
      BY <2>3 DEF Page
    <3> QED
      BY <3>1, <3>2 DEF PageTrue
  <2> QED
    BY <2>2, <2>3
<1> QED
  BY <1>2, <1>3 DEF Told

\* A message is queued: it is true, or about something else.
LEMMA Queued ==
  ASSUME NEW c \in Conn, NEW d \in Conn, NEW g, NEW u, NEW v, NEW m \in Web!Message, d.ch = Append(c.ch, m),
     d.hand = c.hand,
         (m.uid = u /\ m.ver = v) \/ (m.uid # u /\ Told(c, g, u, v))
  PROVE  Told(d, g, u, v)
<1> DEFINE s == c.ch
           t == d.ch
           num == Len(s) + 1
<1>1. s \in Seq(Web!Message) /\ t = Append(s, m)
  BY DEF Conn
<1> HIDE DEF s, t
<1>2. /\ Len(s) \in Nat /\ Len(t) = num /\ t[num] = m /\ num \in 1..Len(t)
      /\ \A i \in 1..Len(s) : i \in 1..Len(t) /\ t[i] = s[i] /\ num > i
      /\ \A i \in 1..Len(t) : i = num \/ i \in 1..Len(s)
  BY <1>1
<1> HIDE DEF num
<1>3. CASE m.uid = u /\ m.ver = v
  <2>1. \A i \in 1..Len(t) : t[i].uid = u => t[i].ver = v \/ \E j \in 1..Len(t) : j > i /\ t[j].uid = u
    BY <1>2, <1>3
  <2>2. \E j \in 1..Len(t) : t[j].uid = u
    BY <1>2, <1>3
  <2> QED
    BY <2>1, <2>2 DEF Told, QueueTrue, NoneAbout, t
<1>4. CASE m.uid # u /\ Told(c, g, u, v)
  <2>1. QueueTrue(c, u, v) /\ (NoneAbout(c, u) => PageTrue(g, u, v))
    BY <1>4 DEF Told
  <2>2. \A i \in 1..Len(s) : s[i].uid = u => s[i].ver = v \/ \E j \in 1..Len(s) : j > i /\ s[j].uid = u
    BY <2>1 DEF QueueTrue, s
  <2>3. \A i \in 1..Len(t) : t[i].uid = u => t[i].ver = v \/ \E j \in 1..Len(t) : j > i /\ t[j].uid = u
    BY <1>2, <1>4, <2>2
  <2>4. (\E j \in 1..Len(s) : s[j].uid = u) => \E j \in 1..Len(t) : t[j].uid = u
    BY <1>2
  <2>5. c.hand # <<>> /\ c.hand[1].uid = u => c.hand[1].ver = v \/ \E j \in 1..Len(s) : s[j].uid = u
    BY <2>1 DEF QueueTrue, s
  <2>6. QueueTrue(d, u, v)
    BY <2>3, <2>4, <2>5 DEF QueueTrue, t
  <2>7. NoneAbout(d, u) => NoneAbout(c, u)
    BY <1>2 DEF NoneAbout, s, t
  <2> QED
    BY <2>1, <2>6, <2>7 DEF Told
<1> QED
  BY <1>3, <1>4

\* Nothing is on its way to a page that has neither asked nor subscribed.
LEMMA NothingYet ==
  ASSUME NEW c, NEW g, NEW u, NEW v, c.ch = <<>>, c.hand = <<>>, ~g.arrived, u \notin g.looked
  PROVE  Told(c, g, u, v)
BY DEF Told, QueueTrue, PageTrue

\* A step that changes neither the line to a page nor what the page has, and
\* the item only if an operation has still to tell of it, or nobody will.
LEMMA PageStays ==
  ASSUME NEW h \in Handlers, NEW u \in Uids, PageKnows(h, u), Watched(h)' => Watched(h),
         conn'[h].ch = conn[h].ch, conn'[h].hand = conn[h].hand,
         page'[h].view = page[h].view, page'[h].answer = page[h].answer, page'[h].looked = page[h].looked,
         page'[h].arrived = page[h].arrived, page'[h].touched = page[h].touched, page[h].off \subseteq page'[h].off,
         Val(u)' = Val(u) \/ Pending(h, u)' \/ u \in unsaid', u \in unsaid => u \in unsaid' \/ Pending(h, u)',
         Pending(h, u) => Pending(h, u)'
  PROVE  PageKnows(h, u)'
<1> SUFFICES ASSUME Watched(h)', u \notin page'[h].off \cup unsaid', ~Pending(h, u)'
             PROVE  Told(conn'[h], page'[h], u, Val(u)')
  BY DEF PageKnows
<1>1. Val(u)' = Val(u)
  OBVIOUS
<1>2. Told(conn[h], page[h], u, Val(u))
  BY DEF PageKnows
<1> DEFINE c == conn[h]
           d == conn'[h]
           g == page[h]
           f == page'[h]
           v == Val(u)
<1>3. Told(c, g, u, v)
  BY <1>2
<1>4. d.ch = c.ch /\ d.hand = c.hand /\ f.view = g.view /\ f.answer = g.answer /\ f.looked = g.looked
      /\ f.arrived = g.arrived /\ f.touched = g.touched
  OBVIOUS
<1> HIDE DEF c, d, g, f, v
<1>5. Told(d, f, u, v)
  BY <1>3, <1>4 DEF Told, QueueTrue, NoneAbout, PageTrue
<1> QED
  BY <1>1, <1>5 DEF d, f, v

\* The other operations tell what they did before.
LEMMA OthersTell ==
  ASSUME NEW p \in Writers, \A q \in Writers \ {p} : op'[q] = op[q], NEW h, NEW u, Tells(op[p], h,
     u) => Tells(op'[p], h, u)
  PROVE  Pending(h, u) => Pending(h, u)'
<1> SUFFICES ASSUME Pending(h, u) PROVE \E q \in Writers : Tells(op'[q], h, u)
  BY DEF Pending, Tells
<1>1. PICK q \in Writers : Tells(op[q], h, u)
  BY DEF Pending
<1> QED
  BY <1>1

\* The steps of an operation up to its callback.
LEMMA WorkPages ==
  ASSUME WebConstants, Types, ItemsInv, PagesKnow, NEW p \in Writers,
         Web!Find(p) \/ Web!Update(p) \/ Web!Store(p) \/ Web!Remove(p) \/ Web!Finish(p)
  PROVE  PagesKnow'
<1> DEFINE r == op[p]
           s == op'[p]
<1>0. r \in Op /\ OpFits(r) /\ ops \in Nat /\ items \in [Uids -> Web!Vers] /\ content \in [1..MaxOps -> Web!Vers]
  BY DEF ItemsInv, Numbers, Types, Web!Vers
<1>1. UNCHANGED <<conn, page>> /\ \A q \in Writers \ {p} : op'[q] = op[q]
  BY DEF Web!Find, Web!Update, Web!Store, Web!Remove, Web!Finish, Web!Becomes, Types
<1>p. ASSUME NEW u \in Uids, NEW h \in Handlers, Val(u)' = Val(u) \/ Tells(s, h, u) \/ u \in unsaid',
             Tells(r, h, u) => Tells(s, h, u), u \in unsaid => u \in unsaid' \/ Tells(s, h, u)
      PROVE  PageKnows(h, u)'
  <2>1. Pending(h, u) => Pending(h, u)'
    BY <1>1, <1>p, OthersTell
  <2>2. (Val(u)' = Val(u) \/ Pending(h, u)' \/ u \in unsaid') /\ (u \in unsaid => u \in unsaid' \/ Pending(h, u)')
    BY <1>p DEF Pending, Tells
  <2>3. PageKnows(h, u) /\ (Watched(h)' => Watched(h))
    BY <1>1 DEF PagesKnow, Watched
  <2> QED
    BY <1>1, <2>1, <2>2, <2>3, PageStays
<1> SUFFICES ASSUME NEW u \in Uids, NEW h \in Handlers
             PROVE  /\ Val(u)' = Val(u) \/ Tells(s, h, u) \/ u \in unsaid'
                    /\ Tells(r, h, u) => Tells(s, h, u)
                    /\ u \in unsaid => u \in unsaid' \/ Tells(s, h, u)
  BY <1>p DEF PagesKnow
<1>2. CASE Web!Find(p)
  <2>1. r.at = "find" /\ items' = items /\ (content' = content \/ content' = [content EXCEPT ![r.n] = r.n])
    BY <1>2 DEF Web!Find
  <2>2. items[u] # r.n
    BY <2>1 DEF ItemsInv, Fresh
  <2>3. items[u] # 0 => content'[items[u]] = content[items[u]]
    <3>1. items[u] # 0 => items[u] \in 1..MaxOps
      BY <1>0 DEF WebConstants, Web!Vers
    <3> QED
      BY <1>0, <2>1, <2>2, <3>1
  <2>4. u \in unsaid /\ u \notin unsaid' => Tells(s, h, u)
    <3> SUFFICES ASSUME u \in unsaid, u \notin unsaid' PROVE Tells(s, h, u)
      OBVIOUS
    <3>1. u = r.uid /\ r.kind = "save" /\ s = [r EXCEPT !.at = "put", !.obj = r.n]
      BY <1>2 DEF Web!Find, Web!Becomes, Types
    <3>2. s.at = "put" /\ s.kind = r.kind /\ s.uid = r.uid /\ s.todo = r.todo /\ r.todo = Handlers
      BY <1>0, <2>1, <3>1 DEF Op, OpFits
    <3> QED
      BY <3>1, <3>2 DEF Tells
  <2> QED
    BY <2>1, <2>3, <2>4 DEF Val, Tells
<1>3. CASE Web!Update(p)
  <2>1. r.at = "update" /\ items' = items /\ content' = [content EXCEPT ![r.obj] = r.n]
        /\ r.kind \in {"save", "fade", "mark"} /\ r.obj # 0 /\ r.todo = Handlers
        /\ unsaid' = IF r.kind = "mark" THEN unsaid \cup {r.uid} ELSE unsaid \ {r.uid}
    BY <1>0, <1>3 DEF Web!Update, OpFits
  <2>2. r.kind # "mark" => s.at \in {"put", "tell"} /\ s.kind = r.kind /\ s.uid = r.uid /\ s.todo = Handlers
    <3> SUFFICES ASSUME r.kind # "mark"
                 PROVE  s.at \in {"put", "tell"} /\ s.kind = r.kind /\ s.uid = r.uid /\ s.todo = Handlers
      OBVIOUS
    <3>1. \E a \in {"put", "tell"} : s = [r EXCEPT !.at = a]
      BY <1>3 DEF Web!Update, Web!Becomes, Types
    <3> QED
      BY <1>0, <2>1, <3>1 DEF Op
  <2>3. items[u] = r.obj => r.uid = u
    BY <2>1 DEF ItemsInv, ObjectsApart, Busy
  <2>4. items[u] # 0 /\ items[u] # r.obj => content'[items[u]] = content[items[u]]
    <3>1. items[u] # 0 => items[u] \in 1..MaxOps
      BY <1>0 DEF WebConstants, Web!Vers
    <3> QED
      BY <1>0, <2>1, <3>1
  <2>5. u # r.uid => Val(u)' = Val(u)
    BY <2>1, <2>3, <2>4 DEF Val
  <2>6. ~Tells(r, h, u)
    BY <2>1 DEF Tells
  <2>7. CASE r.kind = "mark"
    BY <2>1, <2>5, <2>6, <2>7
  <2>8. CASE r.kind # "mark"
    <3>1. u = r.uid => Tells(s, h, u)
      BY <2>1, <2>2, <2>8 DEF Tells
    <3> QED
      BY <2>1, <2>5, <2>6, <2>8, <3>1
  <2> QED
    BY <2>7, <2>8
<1>4. CASE Web!Store(p)
  <2>1. r.at = "put" /\ content' = content /\ unsaid' = unsaid /\ items' = [items EXCEPT ![r.uid] = r.obj] /\ r.kind = "save"
        /\ r.todo = Handlers
    BY <1>0, <1>4 DEF Web!Store, OpFits
  <2>2. s.at = "tell" /\ s.kind = r.kind /\ s.uid = r.uid /\ s.todo = Handlers
    <3>1. s = [r EXCEPT !.at = "tell"]
      BY <1>4 DEF Web!Store, Web!Becomes, Types
    <3> QED
      BY <1>0, <2>1, <3>1 DEF Op
  <2>3. u # r.uid => items'[u] = items[u]
    BY <1>0, <2>1
  <2> QED
    BY <2>1, <2>2, <2>3 DEF Val, Tells
<1>5. CASE Web!Remove(p)
  <2>1. r.at = "find" /\ content' = content /\ items' = [items EXCEPT ![r.uid] = 0] /\ r.kind = "remove"
        /\ r.todo = Handlers /\ unsaid' \in {unsaid, IF items[r.uid] = 0 THEN unsaid ELSE unsaid \ {r.uid}}
    BY <1>0, <1>5 DEF Web!Remove, OpFits
  <2>2. items[r.uid] # 0 => s.at = "tell" /\ s.kind = r.kind /\ s.uid = r.uid /\ s.todo = Handlers
    <3>1. items[r.uid] # 0 => s = [r EXCEPT !.at = "tell"]
      BY <1>5 DEF Web!Remove, Web!Becomes, Types
    <3> QED
      BY <1>0, <2>1, <3>1 DEF Op
  <2>3. items'[u] = IF u = r.uid THEN 0 ELSE items[u]
    BY <1>0, <2>1
  <2> QED
    BY <2>1, <2>2, <2>3 DEF Val, Tells
<1>6. CASE Web!Finish(p)
  <2>1. r.todo = {} /\ UNCHANGED <<items, content, unsaid>>
    BY <1>6 DEF Web!Finish
  <2> QED
    BY <2>1 DEF Val, Tells
<1> QED
  BY <1>2, <1>3, <1>4, <1>5, <1>6

\* A handler that is passed over is not told; its page has the uid spoilt, or
\* has not asked for it.
LEMMA VisitPages ==
  ASSUME WebConstants, Types, ItemsInv, StopInv, PagesKnow, NEW p \in Writers, NEW k \in Handlers, Web!Visit(p, k)
  PROVE  PagesKnow'
<1> DEFINE r == op[p]
           s == op'[p]
<1>0. r \in Op /\ r.at = "tell" /\ r.uid \in Uids
  BY DEF ItemsInv, Numbers, Types, OpFits, Web!Visit
<1>1. UNCHANGED <<items, content, unsaid, conn>> /\ \A q \in Writers \ {p} : op'[q] = op[q]
  BY DEF Web!Visit, Web!Becomes, Types
<1>2. PICK hs \in SUBSET {k} : page' = page \/ Web!Spoil(hs, r.uid)
  BY DEF Web!Visit
<1>3. \A h \in Handlers :
              /\ page'[h].view = page[h].view /\ page'[h].answer = page[h].answer /\ page'[h].looked = page[h].looked
              /\ page'[h].arrived = page[h].arrived /\ page'[h].touched = page[h].touched
                 /\ page[h].off \subseteq page'[h].off
  <2>1. hs \in SUBSET Handlers
    OBVIOUS
  <2>2. CASE page' = page
    BY <2>2
  <2>3. CASE Web!Spoil(hs, r.uid)
    <3>1. \A h \in Handlers :
              /\ page'[h].view = page[h].view /\ page'[h].answer = page[h].answer /\ page'[h].looked = page[h].looked
              /\ page'[h].arrived = page[h].arrived /\ page'[h].touched = page[h].touched
              /\ page'[h].off = IF h \in hs THEN page[h].off \cup {r.uid} ELSE page[h].off
      BY <1>0, <2>1, <2>3, SpoilEffect
    <3> QED
      BY <3>1
  <2> QED
    BY <1>2, <2>2, <2>3
<1>p. ASSUME NEW u \in Uids, NEW h \in Handlers, Tells(r, h, u) => Tells(s, h, u)
      PROVE  PageKnows(h, u)'
  <2>1. Pending(h, u) => Pending(h, u)'
    BY <1>1, <1>p, OthersTell
  <2>2. Val(u)' = Val(u)
    BY <1>1 DEF Val
  <2>3. PageKnows(h, u) /\ (Watched(h)' => Watched(h))
    BY <1>1 DEF PagesKnow, Watched
  <2> QED
    BY <1>1, <1>3, <2>1, <2>2, <2>3, PageStays
<1> SUFFICES ASSUME NEW u \in Uids, NEW h \in Handlers, Tells(r, h, u), ~Tells(s, h, u) PROVE PageKnows(h, u)'
  BY <1>p DEF PagesKnow
<1>4. ~(k \in subs[Web!List(r)] /\ conn[k].active)
  <2> SUFFICES ASSUME k \in subs[Web!List(r)] /\ conn[k].active PROVE FALSE
    OBVIOUS
  <2>1. s = [r EXCEPT !.to = {k}]
    BY DEF Web!Visit, Web!Becomes, Types
  <2>2. s.at = r.at /\ s.kind = r.kind /\ s.uid = r.uid /\ s.todo = r.todo
    BY <1>0, <2>1 DEF Op
  <2> QED
    BY <2>2 DEF Tells
<1>5. /\ s = [r EXCEPT !.todo = r.todo \ {k}]
      /\ Web!Spoil(IF r.uid \in page[k].looked \/ conn[k].reader = "half" THEN {k} ELSE {}, r.uid)
  BY <1>4 DEF Web!Visit, Web!Becomes, Types
<1>6. s.at = r.at /\ s.kind = r.kind /\ s.uid = r.uid /\ s.todo = r.todo \ {k}
  BY <1>0, <1>5 DEF Op
<1>7. h = k /\ u = r.uid /\ r.kind # "send"
  BY <1>6 DEF Tells
<1> SUFFICES ASSUME Watched(h)', u \notin page'[h].off \cup unsaid' PROVE Told(conn'[h], page'[h], u, Val(u)')
  BY DEF PageKnows
<1>8. conn[h].active /\ Kind[h] = "map"
  BY <1>1 DEF Watched
<1>9. u \notin page[h].looked /\ conn[h].reader # "half"
  <2> SUFFICES ASSUME u \in page[h].looked \/ conn[h].reader = "half" PROVE FALSE
    OBVIOUS
  <2>1. Web!Spoil({h}, u) /\ {h} \in SUBSET Handlers
    BY <1>5, <1>7
  <2>2. page'[h] = [page[h] EXCEPT !.off = page[h].off \cup {u}] /\ page[h] \in Page
    BY <2>1 DEF Web!Spoil, Types
  <2>3. page'[h].off = page[h].off \cup {u}
    BY <2>2 DEF Page
  <2> QED
    BY <2>3
<1>10. conn[h].reader = "off"
  <2>1. h \notin subs[Web!List(r)] /\ Web!List(r) \in {"change", "delete"}
    BY <1>4, <1>7, <1>8 DEF Web!List
  <2>2. StopOrder(h) /\ Subscribed(h) /\ conn[h].reader \in ReaderPlaces
    BY DEF StopInv, Types, Conn
  <2> QED
    BY <1>8, <1>9, <2>1, <2>2 DEF StopOrder, Subscribed, ReaderPlaces
<1>11. conn'[h].ch = <<>> /\ conn'[h].hand = <<>>
  BY <1>1, <1>10 DEF StopInv, Subscribed
<1>12. ~page'[h].arrived /\ u \notin page'[h].looked
  BY <1>3, <1>9 DEF Types
<1> QED
  BY <1>11, <1>12, NothingYet

\* What is pushed is what the item says, and nobody else is at work on it.
LEMMA PushPages ==
  ASSUME WebConstants, Types, ItemsInv, StopInv, PagesKnow, NEW p \in Writers, NEW k \in Handlers, Web!Push(p, k)
  PROVE  PagesKnow'
<1> DEFINE r == op[p]
           s == op'[p]
           m == [uid |-> r.uid, ver |-> Web!Says(r)]
<1>0. r \in Op /\ OpFits(r) /\ r.at = "tell" /\ r.uid \in Uids /\ k \in r.to
  BY DEF ItemsInv, Numbers, Types, OpFits, Web!Push
<1>1. UNCHANGED <<items, content, unsaid>> /\ (\A q \in Writers \ {p} : op'[q] = op[q])
      /\ s = [r EXCEPT !.to = {}, !.todo = r.todo \ {k}]
  BY DEF Web!Push, Web!Becomes, Types
<1>2. s.at = r.at /\ s.kind = r.kind /\ s.uid = r.uid /\ s.todo = r.todo \ {k}
  BY <1>0, <1>1 DEF Op
<1>3. \A h \in Handlers, u \in Uids : h # k \/ u # r.uid => (Tells(r, h, u) => Tells(s, h, u))
  BY <1>2 DEF Tells
<1>4. \A h \in Handlers, u \in Uids : h # k \/ u # r.uid => (Pending(h, u) => Pending(h, u)')
  BY <1>1, <1>3, OthersTell
<1>5. \A u \in Uids : Val(u)' = Val(u)
  BY <1>1 DEF Val
<1>6. CASE ~conn[k].open /\ UNCHANGED <<conn, page>>
  <2>1. ~Watched(k)
    BY <1>6 DEF StopInv, StopOrder, Watched
  <2> SUFFICES ASSUME NEW h \in Handlers, NEW u \in Uids PROVE PageKnows(h, u)'
    BY DEF PagesKnow
  <2>2. PageKnows(h, u) /\ (Watched(h)' <=> Watched(h))
    BY <1>6 DEF PagesKnow, Watched
  <2>3. CASE h = k
    BY <2>1, <2>2, <2>3 DEF PageKnows
  <2>4. CASE h # k
    BY <1>1, <1>4, <1>5, <1>6, <2>2, <2>4, PageStays
  <2> QED
    BY <2>3, <2>4
<1>7. CASE conn[k].open /\ Web!Drops(k) /\ Web!Spoil({k}, r.uid) /\ UNCHANGED conn
  <2> SUFFICES ASSUME NEW h \in Handlers, NEW u \in Uids PROVE PageKnows(h, u)'
    BY DEF PagesKnow
  <2>1. PageKnows(h, u) /\ (Watched(h)' <=> Watched(h)) /\ {k} \in SUBSET Handlers
    BY <1>7 DEF PagesKnow, Watched
  <2>2. /\ page'[h].view = page[h].view /\ page'[h].answer = page[h].answer /\ page'[h].looked = page[h].looked
        /\ page'[h].arrived = page[h].arrived /\ page'[h].touched = page[h].touched
        /\ page'[h].off = IF h \in {k} THEN page[h].off \cup {r.uid} ELSE page[h].off
    <3> DEFINE w == r.uid
    <3>1. w \in Uids /\ Web!Spoil({k}, w)
      BY <1>0, <1>7
    <3> HIDE DEF w
    <3>2. /\ page'[h].view = page[h].view /\ page'[h].answer = page[h].answer /\ page'[h].looked = page[h].looked
          /\ page'[h].arrived = page[h].arrived /\ page'[h].touched = page[h].touched
          /\ page'[h].off = IF h \in {k} THEN page[h].off \cup {w} ELSE page[h].off
      BY <2>1, <3>1, SpoilEffect
    <3> QED
      BY <3>2 DEF w
  <2>3. CASE h = k /\ u = r.uid
    BY <2>2, <2>3 DEF PageKnows
  <2>4. CASE h # k \/ u # r.uid
    <3>1. Pending(h, u) => Pending(h, u)'
      BY <1>4, <2>4
    <3>2. page[h].off \subseteq page'[h].off
      BY <2>2
    <3> QED
      BY <1>1, <1>5, <1>7, <2>1, <2>2, <3>1, <3>2, PageStays
  <2> QED
    BY <2>3, <2>4
<1>8. CASE conn[k].open /\ conn' = [conn EXCEPT ![k].ch = Append(@, m)] /\ UNCHANGED page
  <2> DEFINE c == conn[k]
             d == conn'[k]
  <2>1. m \in Web!Message
    <3>1. Web!Says(r) \in Web!Vers
      <4>1. r.kind \in {"save", "fade"} => r.obj \in 1..MaxOps
        <5>1. r.obj \in Web!Vers
          <6> HIDE DEF r
          <6> QED
            BY <1>0 DEF Op
        <5>2. r.kind \in {"save", "fade"} => r.obj # 0
          BY <1>0 DEF OpFits
        <5> QED
          BY <5>1, <5>2 DEF WebConstants, Web!Vers
      <4>2. r.kind \in Kinds /\ r.kind # "idle" /\ r.kind # "mark" /\ r.n \in Web!Vers
        BY <1>0 DEF Op, OpFits
      <4>3. 0 \in Web!Vers
        BY DEF WebConstants, Web!Vers
      <4> QED
        BY <1>0, <4>1, <4>2, <4>3 DEF Web!Says, Types, Kinds
    <3> QED
      BY <1>0, <3>1 DEF Web!Message
  <2>2. c \in Conn /\ d \in Conn /\ d.ch = Append(c.ch,
     m) /\ d.hand = c.hand /\ d.active = c.active /\ d.peer = c.peer
    <3> DEFINE t == Append(c.ch, m)
    <3>1. c \in Conn
      BY DEF Types
    <3>2. t \in Seq(Web!Message)
      <4> HIDE DEF m
      <4> QED
        BY <2>1, <3>1 DEF Conn
    <3>3. conn' = [conn EXCEPT ![k] = [c EXCEPT !.ch = t]]
      BY <1>8
    <3> HIDE DEF t
    <3>4. d = [c EXCEPT !.ch = t]
      BY <3>3 DEF Types
    <3>5. d \in Conn /\ d.ch = t /\ d.hand = c.hand /\ d.active = c.active /\ d.peer = c.peer
      <4> HIDE DEF c, d
      <4> QED
        BY <3>1, <3>2, <3>4 DEF Conn
    <3> QED
      BY <3>1, <3>5 DEF t
  <2>3. \A h \in Handlers \ {k} : conn'[h] = conn[h]
    BY <1>8 DEF Types
  <2>4. ASSUME NEW h \in Handlers \ {k}, NEW u \in Uids PROVE PageKnows(h, u)'
    <3>1. PageKnows(h, u) /\ (Watched(h)' <=> Watched(h))
      BY <2>3 DEF PagesKnow, Watched
    <3> QED
      BY <1>1, <1>4, <1>5, <1>8, <2>3, <3>1, PageStays
  <2>5. ASSUME NEW u \in Uids, Watched(k)', u \notin page'[k].off \cup unsaid', ~Pending(k, u)'
        PROVE  Told(d, page'[k], u, Val(u)')
    <3>1. Watched(k) /\ page' = page /\ u \notin page[k].off \cup unsaid
      BY <1>1, <1>8, <2>2, <2>5 DEF Watched
    <3>2. CASE u = r.uid
      <4>1. Knows(r, items)
        BY <1>0, <3>1, <3>2 DEF ItemsInv, OpsKnow, Clean, Busy
      <4>2. r.kind # "send" /\ r.kind \in Kinds /\ r.kind # "idle"
        BY <1>0, <3>1 DEF StopInv, TellsWell, Watched, Op, OpFits
      <4>3. r.kind # "mark" /\ (r.kind \in {"save", "fade"} => r.obj # 0)
        BY <1>0 DEF OpFits
      <4>4. Web!Says(r) = Val(u)
        BY <1>0, <3>2, <4>1, <4>2, <4>3 DEF Knows, Web!Says, Val, Kinds
      <4>5. m.uid = u /\ m.ver = Val(u)
        BY <3>2, <4>4
      <4> HIDE DEF m, c, d
      <4>6. Told(d, page[k], u, Val(u))
        BY <2>1, <2>2, <4>5, Queued
      <4> QED
        BY <1>5, <3>1, <4>6
    <3>3. CASE u # r.uid
      <4>1. ~Pending(k, u)
        BY <1>4, <2>5, <3>3
      <4>2. Told(c, page[k], u, Val(u)) /\ m.uid # u
        BY <3>1, <3>3, <4>1 DEF PagesKnow, PageKnows
      <4> HIDE DEF m, c, d
      <4>3. Told(d, page[k], u, Val(u))
        BY <2>1, <2>2, <4>2, Queued
      <4> QED
        BY <1>5, <3>1, <4>3
    <3> QED
      BY <3>2, <3>3
  <2>6. \A u \in Uids : PageKnows(k, u)'
    BY <2>5 DEF PageKnows
  <2> QED
    BY <2>4, <2>6 DEF PagesKnow
<1> QED
  BY <1>6, <1>7, <1>8 DEF Web!Push

\* An operation that begins has told nothing and changed nothing.
LEMMA BeginPages ==
  ASSUME Types, PagesKnow, NEW p \in Writers, NEW w \in Uids, Begins(p, w)
  PROVE  PagesKnow'
<1>0. PICK kind \in Kinds, place \in Places : Web!Begin(p, kind, place, w)
  BY DEF Begins, Kinds, Places
<1>1. PICK hs \in SUBSET Handlers : Web!Spoil(hs, w)
  BY <1>0 DEF Web!Begin
<1>2. UNCHANGED <<items, content, unsaid, conn>> /\ op[p] = Web!Idle /\ \A q \in Writers \ {p} : op'[q] = op[q]
  BY <1>0 DEF Web!Begin, Web!Becomes, Types
<1>3. \A h \in Handlers :
              /\ page'[h].view = page[h].view /\ page'[h].answer = page[h].answer /\ page'[h].looked = page[h].looked
              /\ page'[h].arrived = page[h].arrived /\ page'[h].touched = page[h].touched
              /\ page'[h].off = IF h \in hs THEN page[h].off \cup {w} ELSE page[h].off
  BY <1>1, SpoilEffect
<1> SUFFICES ASSUME NEW h \in Handlers, NEW u \in Uids PROVE PageKnows(h, u)'
  BY DEF PagesKnow
<1>4. Pending(h, u) => Pending(h, u)'
  <2>1. ~Tells(op[p], h, u)
    BY <1>2, IdleIsIdle DEF Tells
  <2> QED
    BY <1>2, <2>1, OthersTell
<1>5. page[h].off \subseteq page'[h].off
  BY <1>3
<1>6. Val(u)' = Val(u) /\ PageKnows(h, u) /\ (Watched(h)' => Watched(h))
  BY <1>2 DEF Val, PagesKnow, Watched
<1> QED
  BY <1>2, <1>3, <1>4, <1>5, <1>6, PageStays

\* Nothing about items or operations changes while handlers and pages step.
LEMMA NoNews ==
  ASSUME UNCHANGED <<items, content, unsaid, op>>, NEW h, NEW u
  PROVE  Val(u)' = Val(u) /\ (Pending(h, u)' <=> Pending(h, u))
BY DEF Val, Pending, Tells

\* The steps of the writer.
LEMMA WriterPages ==
  ASSUME Types, StopInv, NEW h \in Handlers, NEW u \in Uids, PageKnows(h, u), Web!WriterStep(h)
  PROVE  PageKnows(h, u)'
<1> DEFINE c == conn[h]
           d == conn'[h]
           g == page[h]
           f == page'[h]
           v == Val(u)
<1>0. c \in Conn /\ g \in Page /\ Subscribed(h) /\ StopOrder(h)
  BY DEF StopInv, Types
<1>1. UNCHANGED <<items, content, unsaid, op>> /\ (d.active => c.active)
  BY HandlesQuietly, WriterOrder DEF Handles
<1>2. v' = v /\ (Pending(h, u)' <=> Pending(h, u))
  BY <1>1, NoNews
<1> SUFFICES ASSUME Watched(h)', u \notin f.off \cup unsaid, ~Pending(h, u) PROVE Told(d, f, u, v)
  BY <1>1, <1>2 DEF PageKnows
<1>3. d.active /\ d.peer = "there" /\ Kind[h] = "map" /\ c.active /\ c.open /\ c.socket
  BY <1>0, <1>1 DEF Watched, StopOrder
<1>p. c.peer = "there" => Watched(h)
  BY <1>3 DEF Watched
<1>k. c.peer = "there" /\ u \notin g.off => Told(c, g, u, v)
  BY <1>p DEF PageKnows
<1>4. CASE Web!Recv(h)
  <2>1. c.writer = "recv" /\ page' = page /\ c.ch # <<>>
        /\ Web!Turn(h, [c EXCEPT !.ch = Tail(c.ch), !.hand = <<Head(c.ch)>>, !.writer = "write"])
    BY <1>3, <1>4 DEF Web!Recv, Web!ConnOnly
  <2>2. c.hand = <<>>
    BY <1>0, <2>1 DEF Subscribed
  <2>3. d \in Conn /\ d.ch = Tail(c.ch) /\ d.hand = <<Head(c.ch)>> /\ d.peer = c.peer
    <3> DEFINE t == Tail(c.ch)
               one == <<Head(c.ch)>>
    <3>1. c.ch \in Seq(Web!Message)
      BY <1>0 DEF Conn
    <3>2. t \in Seq(Web!Message) /\ one \in Seq(Web!Message)
      <4> DEFINE s == c.ch
      <4>1. s \in Seq(Web!Message) /\ s # <<>>
        BY <2>1, <3>1
      <4> HIDE DEF s
      <4>2. Tail(s) \in Seq(Web!Message) /\ Head(s) \in Web!Message
        BY <4>1
      <4>3. <<Head(s)>> \in Seq(Web!Message)
        BY <4>2
      <4> QED
        BY <4>2, <4>3 DEF s
    <3> HIDE DEF t, one
    <3>3. d = [c EXCEPT !.ch = t, !.hand = one, !.writer = "write"]
      BY <2>1 DEF Web!Turn, Types, t, one
    <3>4. d \in Conn /\ d.ch = t /\ d.hand = one /\ d.peer = c.peer
      <4> HIDE DEF c, d
      <4> QED
        BY <1>0, <3>2, <3>3 DEF Conn, WriterPlaces
    <3> QED
      BY <3>4 DEF t, one
  <2>4. Told(c, g, u, v) /\ f = g
    BY <1>3, <1>k, <2>1, <2>3
  <2> HIDE DEF c, d, g, f, v
  <2> QED
    BY <1>0, <2>1, <2>2, <2>3, <2>4, TakenInHand
<1>5. CASE Web!Write(h)
  <2> DEFINE m == Head(c.hand)
             w == [g.view EXCEPT ![m.uid] = m.ver]
             t == g.touched \cup (g.looked \cap {m.uid})
  <2>1. c.writer = "write" /\ c.peer = "there" /\ Web!Turn(h, [c EXCEPT !.hand = <<>>, !.writer = "recv"])
        /\ page' = [page EXCEPT ![h] = [g EXCEPT !.view = w, !.touched = t]]
    BY <1>3, <1>5 DEF Web!Write
  <2>2. c.hand # <<>> /\ c.hand \in Seq(Web!Message)
    BY <1>0, <2>1 DEF Subscribed, Conn
  <2>3. m \in Web!Message /\ c.hand[1] = m
    <3> DEFINE s == c.hand
    <3>1. s \in Seq(Web!Message) /\ s # <<>>
      BY <2>2
    <3> HIDE DEF s
    <3>2. Head(s) \in Web!Message /\ s[1] = Head(s)
      BY <3>1
    <3> QED
      BY <3>2 DEF s
  <2>4. m.uid \in Uids /\ m.ver \in Web!Vers
    BY <2>3 DEF Web!Message
  <2>5. w \in [Uids -> Web!Vers] /\ t \in SUBSET Uids
    <3>1. g.view \in [Uids -> Web!Vers] /\ g.touched \in SUBSET Uids /\ g.looked \in SUBSET Uids
      BY <1>0 DEF Page
    <3> QED
      BY <2>4, <3>1
  <2>6. f \in Page /\ f.view = w /\ f.touched = t /\ f.answer = g.answer /\ f.looked = g.looked
        /\ f.arrived = g.arrived /\ f.off = g.off
    <3> HIDE DEF w, t
    <3>1. f = [g EXCEPT !.view = w, !.touched = t]
      BY <2>1 DEF Types
    <3> HIDE DEF f, g
    <3> QED
      BY <1>0, <2>5, <3>1 DEF Page
  <2>7. d \in Conn /\ d.ch = c.ch /\ d.hand = <<>>
    <3>1. d = [c EXCEPT !.hand = <<>>, !.writer = "recv"]
      BY <2>1 DEF Web!Turn, Types
    <3>2. <<>> \in Seq(Web!Message)
      OBVIOUS
    <3> HIDE DEF c, d
    <3> QED
      BY <1>0, <3>1, <3>2 DEF Conn, WriterPlaces
  <2>8. Told(c, g, u, v)
    BY <1>k, <2>1, <2>6
  <2>9. f.view = [g.view EXCEPT ![m.uid] = m.ver] /\ f.touched = g.touched \cup (g.looked \cap {m.uid})
    BY <2>6
  <2> HIDE DEF c, d, g, f, v, m, w, t
  <2> QED
    BY <1>0, <2>2, <2>3, <2>6, <2>7, <2>8, <2>9, Applied
<1>6. CASE Web!WriteFails(h)
  <2>1. c.peer = "left" /\ \E x \in {"recv", "swap"} : Web!Turn(h, [c EXCEPT !.hand = <<>>, !.writer = x])
    BY <1>3, <1>6 DEF Web!WriteFails
  <2>2. d.peer = c.peer
    BY <1>0, <2>1 DEF Web!Turn, Types, Conn
  <2> QED
    BY <1>3, <2>1, <2>2
<1>7. CASE Web!WriterStops(h)
  <2>1. c.writer = "swap" /\ Web!Turn(h, [c EXCEPT !.writer = "close", !.active = FALSE])
    BY <1>0, <1>3, <1>7 DEF Web!WriterStops, Web!Stop, Web!Stops, StopOrder
  <2>2. ~d.active
    BY <1>0, <2>1 DEF Web!Turn, Types, Conn
  <2> QED
    BY <1>3, <2>2
<1> QED
  BY <1>4, <1>5, <1>6, <1>7 DEF Web!WriterStep

\* The steps of the page.
LEMMA PagePages ==
  ASSUME Types, StopInv, NEW h \in Handlers, NEW u \in Uids, PageKnows(h, u), Web!PageStep(h)
  PROVE  PageKnows(h, u)'
<1> DEFINE c == conn[h]
           d == conn'[h]
           g == page[h]
           f == page'[h]
           v == Val(u)
<1>0. c \in Conn /\ g \in Page /\ Subscribed(h) /\ (g.arrived => g.looked = Uids)
  BY DEF StopInv, Types
<1>1. UNCHANGED <<items, content, unsaid, op>> /\ (d.active => c.active) /\ g.off \subseteq f.off
  BY HandlesQuietly, WriterOrder DEF Handles
<1>2. v' = v /\ (Pending(h, u)' <=> Pending(h, u))
  BY <1>1, NoNews
<1> SUFFICES ASSUME Watched(h)', u \notin f.off \cup unsaid, ~Pending(h, u) PROVE Told(d, f, u, v)
  BY <1>1, <1>2 DEF PageKnows
<1>3. d.active /\ d.peer = "there" /\ Kind[h] = "map" /\ c.active /\ u \notin g.off
  BY <1>1 DEF Watched
<1>k. c.peer = "there" => Told(c, g, u, v)
  BY <1>3 DEF PageKnows, Watched
<1>4. CASE Web!OpenPage(h)
  <2>1. PICK w : page' = [page EXCEPT ![h].view = w]
    BY <1>4 DEF Web!OpenPage
  <2>2. c.peer = "away" /\ Web!Turn(h, [c EXCEPT !.peer = "there"])
    BY <1>4 DEF Web!OpenPage
  <2>3. c.reader = "off" /\ g.looked = {} /\ c.ch = <<>> /\ c.hand = <<>>
    BY <1>0, <2>2 DEF Subscribed
  <2>4. d.ch = <<>> /\ d.hand = <<>>
    BY <1>0, <2>2, <2>3 DEF Web!Turn, Types, Conn
  <2>5. f.arrived = g.arrived /\ f.looked = g.looked
    <3>1. f = [g EXCEPT !.view = w]
      BY <2>1 DEF Types
    <3> HIDE DEF f, g
    <3> QED
      BY <1>0, <3>1 DEF Page
  <2>6. ~f.arrived /\ u \notin f.looked
    BY <1>0, <2>3, <2>5
  <2> HIDE DEF d, f, v
  <2> QED
    BY <2>4, <2>6, NothingYet
<1>5. CASE Web!LeavePage(h) \/ Web!FallSilent(h)
  <2>1. \E x \in {"left", "silent"} : Web!Turn(h, [c EXCEPT !.peer = x])
    BY <1>5 DEF Web!LeavePage, Web!FallSilent
  <2>2. d.peer # "there"
    BY <1>0, <2>1 DEF Web!Turn, Types, Conn
  <2> QED
    BY <1>3, <2>2
<1>6. CASE Web!processUnits(h)
  <2>1. conn' = conn /\ g.looked = Uids /\ ~g.arrived
        /\ page' = [page EXCEPT ![h] = [g EXCEPT !.view = g.answer, !.arrived = TRUE, !.off = g.off \cup g.touched]]
    BY <1>6 DEF Web!processUnits, Web!Merged
  <2>2. f.view = g.answer /\ f.arrived /\ f.off = g.off \cup g.touched
    <3>1. f = [g EXCEPT !.view = g.answer, !.arrived = TRUE, !.off = g.off \cup g.touched]
      BY <2>1 DEF Types
    <3> HIDE DEF f, g
    <3> QED
      BY <1>0, <3>1 DEF Page
  <2>3. Told(c, g, u, v) /\ d = c
    BY <1>3, <1>k, <2>1
  <2>4. u \in g.looked \ g.touched
    BY <2>1, <2>2
  <2>5. PageTrue(g, u, v) => PageTrue(f, u, v)
    <3> HIDE DEF f, g, v
    <3> QED
      BY <2>1, <2>2, <2>4 DEF PageTrue
  <2> HIDE DEF c, d, f, g, v
  <2> QED
    BY <2>3, <2>5 DEF Told
<1>7. ASSUME NEW w \in Uids, Web!getUnits(h, w) PROVE Told(d, f, u, v)
  <2> DEFINE a == [g.answer EXCEPT ![w] = Val(w)]
  <2>1. conn' = conn /\ c.peer = "there" /\ w \notin g.looked
        /\ page' = [page EXCEPT ![h] = [g EXCEPT !.looked = g.looked \cup {w}, !.answer = a]]
    BY <1>7 DEF Web!getUnits, Val
  <2>2. f.view = g.view /\ f.arrived = g.arrived /\ f.looked = g.looked \cup {w} /\ f.answer = a /\ f.touched = g.touched
    <3> HIDE DEF a
    <3>1. f = [g EXCEPT !.looked = g.looked \cup {w}, !.answer = a]
      BY <2>1 DEF Types
    <3> HIDE DEF f, g
    <3> QED
      BY <1>0, <3>1 DEF Page
  <2>3. a[u] = IF u = w THEN v ELSE g.answer[u]
    <3>1. g.answer \in [Uids -> Web!Vers]
      BY <1>0 DEF Page
    <3> QED
      BY <3>1
  <2>4. Told(c, g, u, v) /\ d = c /\ ~g.arrived
    BY <1>0, <1>k, <2>1
  <2>5. PageTrue(g, u, v) => PageTrue(f, u, v)
    <3> HIDE DEF f, g, v, a
    <3> QED
      BY <2>2, <2>3, <2>4 DEF PageTrue
  <2> HIDE DEF c, d, f, g, v
  <2> QED
    BY <2>4, <2>5 DEF Told
<1> QED
  BY <1>4, <1>5, <1>6, <1>7 DEF Web!PageStep

\* PagesKnow is inductive.
LEMMA PagesStep ==
  ASSUME WebConstants, Types, ItemsInv, StopInv, PagesKnow, [Web!Next]_(Web!vars)
  PROVE  PagesKnow'
<1>1. CASE UNCHANGED Web!vars
  BY <1>1 DEF Web!vars, PagesKnow, PageKnows, Watched, Pending, Tells, Told, QueueTrue, NoneAbout, PageTrue, Val
<1>2. ASSUME NEW h \in Handlers, Handles(h) PROVE PagesKnow'
  <2> SUFFICES ASSUME NEW i \in Handlers, NEW u \in Uids PROVE PageKnows(i, u)'
    BY DEF PagesKnow
  <2>1. PageKnows(i, u) /\ UNCHANGED <<items, content, unsaid, op>>
    BY <1>2, HandlesQuietly DEF PagesKnow
  <2>2. Val(u)' = Val(u) /\ (Pending(i, u)' <=> Pending(i, u))
    BY <2>1, NoNews
  <2>3. CASE i # h
    <3>1. conn'[i] = conn[i] /\ page'[i] = page[i]
      BY <1>2, <2>3, HandlesQuietly
    <3>2. Watched(i)' => Watched(i)
      BY <3>1 DEF Watched
    <3> QED
      BY <2>1, <2>2, <3>1, <3>2, PageStays
  <2>4. CASE i = h /\ (Web!ReaderStep(h) \/ \E w \in Uids : Web!Receive(h, w))
    <3>1. page' = page
      BY <2>4 DEF Web!ReaderStep, Web!getWsHandler, Web!getTakWsHandler, Web!Parse, Web!ReadFails, Web!ReaderStops,
         Web!RemoveHandlerCb, Web!Add, Web!ConnOnly, Web!Receive
    <3>2. /\ conn'[i].ch = conn[i].ch /\ conn'[i].hand = conn[i].hand /\ conn'[i].peer = conn[i].peer
          /\ conn'[i].active => conn[i].active
      BY <2>4, ReaderOrder
    <3>3. Watched(i)' => Watched(i)
      BY <3>2 DEF Watched
    <3> QED
      BY <2>1, <2>2, <3>1, <3>2, <3>3, PageStays
  <2>5. CASE i = h /\ Web!WriterStep(h)
    BY <2>1, <2>5, WriterPages
  <2>6. CASE i = h /\ Web!PageStep(h)
    BY <2>1, <2>6, PagePages
  <2> QED
    BY <1>2, <2>3, <2>4, <2>5, <2>6 DEF Handles
<1>3. ASSUME NEW p \in Writers, Web!OpStep(p) PROVE PagesKnow'
  BY <1>3, WorkPages, VisitPages, PushPages DEF Web!OpStep
<1>4. ASSUME NEW p \in Writers, NEW u \in Uids, Begins(p, u) PROVE PagesKnow'
  BY <1>4, BeginPages
<1>5. CASE Web!Next
  BY <1>2, <1>3, <1>4, <1>5, Steps
<1> QED
  BY <1>1, <1>5

(* The invariant, and what it says. *)
WebInv == Types /\ ItemsInv /\ StopInv /\ PagesKnow

\* The initial states, with no item and no handler.
LEMMA WebInitially == ASSUME WebConstants, Web!Init PROVE WebInv
<1>0. 0 \in Web!Vers /\ ops = 0 /\ Web!Blank \in [Uids -> Web!Vers]
  BY DEF WebConstants, Web!Init, Web!Vers, Web!Blank
<1>1. Web!NewConn \in Conn /\ LineFits(Web!NewConn) /\ Web!NewPage \in Page /\ Web!NewTak \in Client /\ Web!Idle \in Op
  <2>1. <<>> \in Seq(Web!Message) /\ Len(<<>>) = 0
    OBVIOUS
  <2>2. Web!NewConn \in Conn
    BY <2>1 DEF Web!NewConn, Conn, ReaderPlaces, WriterPlaces
  <2>3. Web!NewConn.ch = <<>> /\ Web!NewConn.hand = <<>>
    BY DEF Web!NewConn
  <2>4. LineFits(Web!NewConn)
    BY <2>1, <2>3 DEF WebConstants, LineFits
  <2>5. Web!NewPage \in Page
    BY <1>0 DEF Web!NewPage, Page
  <2>6. Web!NewTak \in Client
    BY DEF Web!NewTak, Client
  <2>7. Web!Idle \in Op
    BY <1>0 DEF Web!Idle, Op, Kinds, Places
  <2> QED
    BY <2>2, <2>4, <2>5, <2>6, <2>7
<1>2. ~Web!NewPage.arrived /\ Web!NewPage.looked = {} /\ Web!NewConn.peer = "away"
      /\ Web!NewConn.reader = "off" /\ Web!NewConn.writer = "off"
      /\ Web!NewConn.ch = <<>> /\ Web!NewConn.hand = <<>> /\ Web!NewConn.active /\ Web!NewConn.open /\ Web!NewConn.socket
  BY DEF Web!NewPage, Web!NewConn
<1>3. Types
  BY <1>0, <1>1, <1>2 DEF Web!Init, Types, Lists
<1>4. ItemsInv
  <2>1. Web!Idle.at = "idle" /\ Web!Idle.obj = 0 /\ Web!Idle.to = {} /\ Web!Idle.todo = {}
    BY DEF Web!Idle
  <2>2. OpFits(Web!Idle)
    BY <1>0, <2>1 DEF OpFits
  <2>3. Numbers
    BY <1>0, <2>2 DEF Web!Init, Numbers, Web!Blank
  <2>4. \A p \in Writers : op[p] = Web!Idle /\ ~Busy(p)
    BY <2>1 DEF Web!Init, Busy
  <2>5. \A u \in Uids : items[u] = 0
    BY DEF Web!Init, Web!Blank
  <2> QED
    BY <2>1, <2>3, <2>4, <2>5 DEF ItemsInv, Fresh, ObjectsApart, OneWorker, OpsKnow
<1>5. StopInv
  <2>1. TellsWell /\ Crash
    BY DEF Web!Init, TellsWell, Crash, Web!Idle
  <2>2. \A h \in Handlers : conn[h] = Web!NewConn /\ page[h] = Web!NewPage /\ \A l \in Lists : h \notin subs[l]
    BY DEF Web!Init, Lists
  <2> QED
    BY <1>2, <2>1, <2>2 DEF StopInv, StopOrder, Subscribed, Gone, Lists
<1>6. PagesKnow
  BY <1>2 DEF Web!Init, PagesKnow, PageKnows, Watched
<1> QED
  BY <1>3, <1>4, <1>5, <1>6 DEF WebInv

\* The invariant is inductive: each part leans on the ones before it.
LEMMA WebStep == ASSUME WebConstants, WebInv, [Web!Next]_(Web!vars) PROVE WebInv'
BY TypesStep, ItemsStep, StopStep, PagesStep DEF WebInv, ItemsInv, StopInv

\* What the invariant says of a handler that stops.
LEMMA InvIsClean == ASSUME WebConstants, WebInv PROVE Web!StopIsClean
<1>0. Types /\ StopInv /\ Numbers
  BY DEF WebInv, ItemsInv
<1>1. ASSUME NEW h \in Handlers PROVE Web!ConnOK(conn[h]) /\ Web!PageOK(page[h])
      /\ tak[h].uids \cup tak[h].told \subseteq Uids
  <2>1. conn[h] \in Conn /\ LineFits(conn[h])
    BY <1>0 DEF Types
  <2>2. Web!ConnOK(conn[h])
    BY <2>1 DEF Conn, Web!ConnOK, LineFits, Web!Stops, ReaderPlaces, WriterPlaces
  <2>3. page[h] \in Page /\ (page[h].arrived => page[h].looked = Uids) /\ tak[h] \in Client
    BY <1>0 DEF Types
  <2>4. Web!PageOK(page[h])
    BY <2>3 DEF Page, Web!PageOK
  <2> QED
    BY <2>2, <2>3, <2>4 DEF Client
<1>2. ASSUME NEW p \in Writers PROVE op[p] = Web!Idle \/ (op[p].uid \in Uids /\ op[p].to \subseteq op[p].todo)
  BY <1>0 DEF Numbers, OpFits
<1>3. Web!TypeOK
  BY <1>0, <1>1, <1>2 DEF Web!TypeOK, Types, Lists
<1>4. Web!FlagGuards /\ Web!LeavesNothing
  BY <1>0 DEF Web!FlagGuards, Web!LeavesNothing, StopInv, StopOrder, Gone, Crash
<1> QED
  BY <1>3, <1>4 DEF Web!StopIsClean

\* When nothing is under way, nothing is on its way to a page either.
LEMMA InvShowsItems == ASSUME WebConstants, WebInv PROVE Web!MapIsTrue
<1> SUFFICES ASSUME NEW h \in Handlers, Kind[h] = "map", Web!Quiet(h), NEW u \in Uids \ (page[h].off \cup unsaid)
             PROVE  page[h].view[u] = Val(u)
  BY DEF Web!MapIsTrue, Val
<1>1. Types /\ StopInv /\ PagesKnow
  BY DEF WebInv
<1>2. ~Pending(h, u)
  BY IdleIsIdle DEF Web!Quiet, Pending, Tells
<1>3. Watched(h)
  BY DEF Web!Quiet, Watched
<1>4. Told(conn[h], page[h], u, Val(u))
  BY <1>1, <1>2, <1>3 DEF PagesKnow, PageKnows
<1>5. conn[h].ch = <<>> /\ conn[h].hand = <<>> /\ page[h].arrived
  BY <1>1 DEF Web!Quiet, StopInv, Subscribed
<1>6. NoneAbout(conn[h], u)
  BY <1>5 DEF NoneAbout
<1> QED
  BY <1>4, <1>5, <1>6 DEF Told, PageTrue

\* A handler whose flag is up has an open channel and an open websocket, so the
\* send after the test of SendItem, DeleteItem or tryAddPacket panics only when
\* the handler stops between the two; and a WebTAK client that is gone leaves no
\* contact RemoveHandlerCb has not set offline, and nothing in the loop's map.
THEOREM StopsClean == ASSUME WebConstants PROVE Web!Spec => []Web!StopIsClean
<1>1. Web!Init => WebInv
  BY WebInitially
<1>2. WebInv /\ [Web!Next]_(Web!vars) => WebInv'
  BY WebStep
<1>3. WebInv => Web!StopIsClean
  BY InvIsClean
<1> QED
  BY <1>1, <1>2, <1>3, PTL DEF Web!Spec

\* When nothing is under way, a page shows each item as it is, except those the
\* code can show wrongly: changed by two goroutines at once (Store and its
\* callback are two steps, items_repo.go:55), dropped by a full channel, changed
\* before the page was listed, overtaken by the answer to GET /api/unit, or last
\* changed without a word to anybody (main.go:186, processors.go:188).
THEOREM MapsAreTrue == ASSUME WebConstants PROVE Web!Spec => []Web!MapIsTrue
<1>1. Web!Init => WebInv
  BY WebInitially
<1>2. WebInv /\ [Web!Next]_(Web!vars) => WebInv'
  BY WebStep
<1>3. WebInv => Web!MapIsTrue
  BY InvShowsItems
<1> QED
  BY <1>1, <1>2, <1>3, PTL DEF Web!Spec
=============================================================================
