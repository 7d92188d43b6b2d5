---------------------------- MODULE MissionsProofs ----------------------------
(***************************************************************************)
(* Missions, for any users, scopes, clients, names, contents and requests. *)
(***************************************************************************)
EXTENDS Missions, FiniteSetTheorems, TLAPS
-----------------------------------------------------------------------------
\* A request under way.
Request == [pc : {"idle", "new", "subscribe", "save", "contents", "find", "link", "statement", "log", "notify",
                  "announce"},
            op : Ops \cup {""}, id : Ids \cup {0}, new : MissionRows \cup {None}, uid : Clients \cup {0}, row : Nat,
            seen : SUBSET Contents, todo : Seq(Contents)]

\* The places of each operation, and what is known there.
PlacesOf(op) ==
  CASE op = "create" -> {"new", "subscribe", "save", "announce"}
    [] op = "subscribe" -> {"subscribe", "save"}
    [] op = "invite" -> {"find", "save"}
    [] op \in {"delete", "unsubscribe", "uninvite"} -> {"statement"}
    [] op = "point" -> {"contents", "link", "log", "notify"}
    [] op \in {"put", "remove", "drop"} -> {"contents", "log", "notify"}
    [] OTHER -> {"idle"}

\* A copy of a mission is that of the table but for the columns edited.
Agrees(m, row, table, ed) == \A c \in Columns : <<m, c>> \notin ed => row[c] = table[m][c]

Fits(r, table, ed) ==
  /\ r.pc \in PlacesOf(r.op)
  /\ r.pc = "new" => r.id = 0 /\ r.new \in MissionRows
  /\ r.pc \notin {"idle", "new"} =>
       r.id \in Ids /\ r.new \in MissionRows /\ table[r.id] # None /\ Agrees(r.id, r.new, table, ed)
  /\ r.pc = "idle" => r.id = 0
  /\ r.op = "create" => r.uid = r.new.creator
  /\ r.pc \in {"subscribe", "save", "find"} \/ r.op = "uninvite" => r.uid # 0
  /\ r.op \in ContentOps => r.todo # <<>>

RequestsFit == req \in [Procs -> Request] /\ \A p \in Procs : Fits(req[p], missions, edited)

\* The ids given are the first ones, and nothing is there for the others.
IdsInOrder ==
  /\ \E n \in 0..MaxMissions : {m \in Ids : missions[m] # None} = 1..n
  /\ \A m \in Ids : missions[m] = None =>
       /\ \A s \in subs : s.id # m
       /\ \A c \in log : c.id # m
       /\ \A c \in Contents : <<m, c>> \notin links
       /\ \A u \in Clients, c \in Contents : <<m, u, c>> \notin belief

\* The tables are finite, and changes have an order; a creation is of no content.
TablesFit ==
  /\ IsFiniteSet(subs) /\ IsFiniteSet(invites) /\ IsFiniteSet(log)
  /\ \A c, d \in log : c.at = d.at => c = d
  /\ \A c \in log : c.type = "create" => c.key = ""

\* Who is about to be subscribed was admitted.
AdmittedFirst == \A p \in Procs : req[p].pc = "save" /\ req[p].op # "invite" => Admitted(p)

\* A transaction is that of a creation or a subscription.
InTransaction(p) == req[p].pc = "new" \/ (req[p].pc = "save" /\ req[p].op # "invite")
TransactionsKnown == txn = {p \in Procs : InTransaction(p)}

\* What a transaction found holds until it ends.
FoundHolds == Serializable =>
  /\ \A p, q \in txn : p = q
  /\ \A p \in Procs : req[p].pc = "new" => MissionQuery({req[p].new.scope}, req[p].new.name) = {}
  /\ \A p \in Procs : req[p].pc = "save" /\ req[p].op # "invite" => req[p].row \in One(Found(p))
  /\ OneMissionPerName /\ OneSubscription

\* The log says of a content that it is there.
Logged(m, c) == \E r \in Changes(m) : r.key = c /\ r.type = "add" /\ \A d \in Changes(m) : d.key = c => d.at <= r.at

At(p, pcs, m, c) == p \in Busy(m, c) /\ req[p].pc \in pcs /\ Current(p) = c

\* What may be said of a content that one request at a time works on.
Tracked(m, c) == m \in live /\ <<m, c>> \notin raced \cup broken

OneAtWork == \A m \in Ids, c \in Contents : <<m, c>> \notin raced => \A p, q \in Busy(m, c) : p = q

\* Link, change and message of a content come one after the other.
LinkFirst(m, c) == \A p \in Procs :
  At(p, {"log", "notify"}, m, c) => (<<m, c>> \in links <=> ChangeType(p) = "add")
ChangeNext(m, c) ==
  (\A p \in Procs : ~At(p, {"log"}, m, c)) => (<<m, c>> \in links <=> Logged(m, c))
MessageLast(m, c) == \A u \in Clients :
  <<m, u>> \in follows /\ (\A p \in Procs : ~At(p, {"log", "notify"}, m, c)) =>
    (<<m, c>> \in links <=> <<m, u, c>> \in belief)
InOrder == \A m \in Ids, c \in Contents : Tracked(m, c) => LinkFirst(m, c) /\ ChangeNext(m, c) /\ MessageLast(m, c)

\* The inductive invariant.
IInv == /\ TypeOK /\ RequestsFit /\ IdsInOrder /\ TablesFit /\ AdmittedFirst /\ SubscribersAdmitted
        /\ TransactionsKnown /\ FoundHolds /\ LeftoversBounded
        /\ OneAtWork /\ InOrder
-----------------------------------------------------------------------------
(* What a step does to its request. *)

Elsewhere(p) == req' \in [Procs -> Request] /\ \A q \in Procs \ {p} : req'[q] = req[q]
SameRequest(r, q) == r.op = q.op /\ r.id = q.id /\ r.new = q.new /\ r.uid = q.uid
Keeps(p) == /\ req'[p].op = req[p].op /\ req'[p].id = req[p].id
            /\ req'[p].new = req[p].new /\ req'[p].uid = req[p].uid

Places == {"idle", "new", "subscribe", "save", "contents", "find", "link", "statement", "log", "notify", "announce"}

\* The fields of a request that is not at work.
LEMMA IdleFields ==
  /\ Idle.pc = "idle" /\ Idle.op = "" /\ Idle.id = 0 /\ Idle.new = None /\ Idle.uid = 0 /\ Idle.row = 0
  /\ Idle.seen = {} /\ Idle.todo = <<>>
BY DEF Idle

\* A request that is not at work fits any table.
LEMMA IdleFits == Idle \in Request /\ \A t, ed : Fits(Idle, t, ed)
BY DEF Idle, Request, Fits, PlacesOf, Ops, ContentOps

\* A handler that answers changes its own request only.
LEMMA DoneEffect ==
  ASSUME req \in [Procs -> Request], NEW p \in Procs, Done(p)
  PROVE  Elsewhere(p) /\ req'[p] = Idle
BY IdleFits DEF Done, Elsewhere

\* A request that goes on keeps what it read.
LEMMA GotoEffect ==
  ASSUME req \in [Procs -> Request], NEW p \in Procs, NEW pc \in Places, Goto(p, pc)
  PROVE  /\ Elsewhere(p) /\ Keeps(p) /\ req'[p].pc = pc
         /\ req'[p].row = req[p].row /\ req'[p].todo = req[p].todo
<1> DEFINE r == [req[p] EXCEPT !.pc = pc]
<1>1. req[p] \in Request
  OBVIOUS
<1>2. r \in Request /\ SameRequest(r, req[p]) /\ r.pc = pc /\ r.row = req[p].row /\ r.todo = req[p].todo
  BY <1>1 DEF Request, Places, SameRequest
<1>3. req' = [req EXCEPT ![p] = r]
  BY DEF Goto
<1> HIDE DEF r
<1>4. Elsewhere(p) /\ req'[p] = r
  BY <1>2, <1>3 DEF Elsewhere
<1> QED
  BY <1>2, <1>4 DEF Keeps, SameRequest

\* A request that looked for a row keeps what it read, and the row.
LEMMA FoundEffect ==
  ASSUME req \in [Procs -> Request], NEW p \in Procs, NEW n \in Nat,
         req' = [req EXCEPT ![p].pc = "save", ![p].row = n]
  PROVE  /\ Elsewhere(p) /\ Keeps(p) /\ req'[p].pc = "save"
         /\ req'[p].row = n /\ req'[p].todo = req[p].todo
<1> DEFINE r == [req[p] EXCEPT !.pc = "save", !.row = n]
<1>1. req[p] \in Request
  OBVIOUS
<1>2. r \in Request /\ SameRequest(r, req[p]) /\ r.pc = "save" /\ r.row = n /\ r.todo = req[p].todo
  BY <1>1 DEF Request, SameRequest
<1>3. req' = [req EXCEPT ![p] = r]
  OBVIOUS
<1> HIDE DEF r
<1>4. Elsewhere(p) /\ req'[p] = r
  BY <1>2, <1>3 DEF Elsewhere
<1> QED
  BY <1>2, <1>4 DEF Keeps, SameRequest

\* A mission that was made is the one its request goes on with.
LEMMA CommitEffect ==
  ASSUME req \in [Procs -> Request], NEW p \in Procs, NEW m \in Ids, NEW pc \in Places,
         req' = [req EXCEPT ![p].id = m, ![p].pc = pc]
  PROVE  /\ Elsewhere(p) /\ req'[p].id = m /\ req'[p].pc = pc
         /\ req'[p].op = req[p].op /\ req'[p].new = req[p].new /\ req'[p].uid = req[p].uid
<1> DEFINE r == [req[p] EXCEPT !.id = m, !.pc = pc]
<1>1. req[p] \in Request
  OBVIOUS
<1>2. /\ r \in Request /\ r.id = m /\ r.pc = pc
      /\ r.op = req[p].op /\ r.new = req[p].new /\ r.uid = req[p].uid
  BY <1>1 DEF Request, Places
<1>3. req' = [req EXCEPT ![p] = r]
  OBVIOUS
<1> HIDE DEF r
<1> QED
  BY <1>2, <1>3 DEF Elsewhere

\* What AddMissionResource and AddMissionPoint do to links and request.
LEMMA LinkedEffect ==
  ASSUME req \in [Procs -> Request], NEW p \in Procs, Linked(p), Current(p) \in Contents
  PROVE  /\ Elsewhere(p) /\ Keeps(p) /\ req'[p].pc = "log" /\ req'[p].todo = req[p].todo
         /\ links' = links \cup {<<req[p].id, Current(p)>>}
<1> DEFINE s == req[p].seen \cup {Current(p)}
           r == [req[p] EXCEPT !.pc = "log", !.seen = s]
<1>1. req[p] \in Request /\ s \in SUBSET Contents
  <2>1. req[p] \in Request
    OBVIOUS
  <2>2. req[p].seen \in SUBSET Contents
    BY <2>1 DEF Request
  <2> QED
    BY <2>1, <2>2
<1>2. req' = [req EXCEPT ![p] = r]
  BY DEF Linked
<1> HIDE DEF s
<1>3. r \in Request /\ SameRequest(r, req[p]) /\ r.pc = "log" /\ r.todo = req[p].todo
  BY <1>1 DEF Request, SameRequest
<1> HIDE DEF r
<1>4. Elsewhere(p) /\ req'[p] = r
  BY <1>2, <1>3 DEF Elsewhere
<1>5. links' = links \cup {<<req[p].id, Current(p)>>}
  BY DEF Linked
<1> QED
  BY <1>3, <1>4, <1>5 DEF Keeps, SameRequest

\* A number that is neither 0 nor 1 is larger.
LEMMA Longer == \A n \in Nat \ {0} : n # 1 => n > 1
OBVIOUS

\* A request goes on to its next content, or is done after the last.
LEMMA NextEffect ==
  ASSUME req \in [Procs -> Request], NEW p \in Procs, NextContent(p), req[p].todo # <<>>
  PROVE  /\ Elsewhere(p)
         /\ Len(req[p].todo) \in Nat \ {0}
         /\ \/ Len(req[p].todo) = 1 /\ req'[p] = Idle
            \/ /\ Len(req[p].todo) > 1 /\ Keeps(p) /\ req'[p].pc = "contents"
               /\ req'[p].todo = Tail(req[p].todo)
<1>1. req[p] \in Request /\ req[p].todo \in Seq(Contents) /\ Len(req[p].todo) \in Nat \ {0}
  <2>1. req[p] \in Request /\ req[p].todo \in Seq(Contents)
    BY DEF Request
  <2> QED
    BY <2>1
<1>2. Tail(req[p].todo) \in Seq(Contents)
  BY <1>1
<1>3. CASE Len(req[p].todo) = 1
  BY <1>3, <1>1, IdleFits DEF NextContent, Elsewhere
<1>4. CASE Len(req[p].todo) # 1
  <2> DEFINE r == [req[p] EXCEPT !.pc = "contents", !.todo = Tail(req[p].todo)]
  <2>1. r \in Request /\ r.pc = "contents" /\ r.todo = Tail(req[p].todo)
    BY <1>1, <1>2 DEF Request
  <2>2. r.op = req[p].op /\ r.id = req[p].id /\ r.new = req[p].new /\ r.uid = req[p].uid
    BY <1>1 DEF Request
  <2>3. req' = [req EXCEPT ![p] = r]
    BY <1>4 DEF NextContent
  <2> HIDE DEF r
  <2>4. Elsewhere(p) /\ req'[p] = r
    BY <2>1, <2>3 DEF Elsewhere
  <2>5. Len(req[p].todo) > 1
    BY <1>1, <1>4, Longer
  <2> QED
    BY <2>1, <2>2, <2>4, <2>5, <1>1 DEF Keeps
<1> QED
  BY <1>3, <1>4, <1>1

\* The request of a handler that read its mission.
LEMMA AskEffect ==
  ASSUME req \in [Procs -> Request], missions \in [Ids -> MissionRows \cup {None}],
         NEW p \in Procs, NEW op \in Ops, NEW m \in Ids, NEW uid \in Clients \cup {0}, NEW pc \in Places,
         Ask(p, op, m, uid, pc)
  PROVE  /\ Elsewhere(p) /\ req'[p].pc = pc /\ req'[p].op = op /\ req'[p].id = m
         /\ req'[p].uid = uid /\ req'[p].new = missions[m]
<1> DEFINE w == missions[m]
           r == [Idle EXCEPT !.pc = pc, !.op = op, !.id = m, !.new = w, !.uid = uid]
<1>1. w \in MissionRows \cup {None} /\ Idle \in Request
  BY IdleFits
<1>2. w = missions[m] /\ req' = [req EXCEPT ![p] = r]
  BY DEF Ask
<1> HIDE DEF w
<1>3. r \in Request
  BY <1>1 DEF Request, Places
<1>4. r.pc = pc /\ r.op = op /\ r.id = m /\ r.uid = uid /\ r.new = w
  BY DEF Idle
<1> HIDE DEF r
<1> QED
  BY <1>2, <1>3, <1>4 DEF Elsewhere

\* The request of a handler that will add or remove contents.
LEMMA AskContentsEffect ==
  ASSUME req \in [Procs -> Request], missions \in [Ids -> MissionRows \cup {None}],
         NEW p \in Procs, NEW op \in ContentOps, NEW m \in Ids, NEW todo \in Seq(Contents),
         AskContents(p, op, m, todo)
  PROVE  /\ Elsewhere(p) /\ req'[p].pc = "contents" /\ req'[p].op = op /\ req'[p].id = m
         /\ req'[p].uid = 0 /\ req'[p].new = missions[m] /\ req'[p].todo = todo
<1> DEFINE s == IF op = "put" THEN {} ELSE {c \in Contents : <<m, c>> \in links}
           r == [Idle EXCEPT !.pc = "contents", !.op = op, !.id = m, !.new = missions[m], !.seen = s, !.todo = todo]
<1>1. s \in SUBSET Contents
  OBVIOUS
<1>2. req' = [req EXCEPT ![p] = r]
  BY DEF AskContents
<1> HIDE DEF s
<1>3. /\ r \in Request /\ r.pc = "contents" /\ r.op = op /\ r.id = m /\ r.uid = 0 /\ r.new = missions[m]
      /\ r.todo = todo
  <2>1. Idle \in Request /\ Idle.uid = 0 /\ op \in Ops
    BY IdleFits, IdleFields DEF Ops
  <2> QED
    BY <2>1, <1>1 DEF Request
<1> HIDE DEF r
<1> QED
  BY <1>2, <1>3 DEF Elsewhere
-----------------------------------------------------------------------------
(* The steps there are. *)

Asked(op, c, pc) ==
  \/ op = "delete" /\ c = 0 /\ pc = "statement"
  \/ op = "unsubscribe" /\ c \in Clients \cup {0} /\ pc = "statement"
  \/ op = "subscribe" /\ c \in Clients /\ pc = "subscribe"
  \/ op = "invite" /\ c \in Clients /\ pc = "find"
  \/ op = "uninvite" /\ c \in Clients /\ pc = "statement"

Begins(p) == \E u \in Users, n \in Names, k \in Kinds, c \in Clients \cup {0} : CreateBegin(p, u, n, k, c)
Asks(p) == \E m \in live : \E op \in Ops, c \in Clients \cup {0}, pc \in Places :
             Asked(op, c, pc) /\ Ask(p, op, m, c, pc)
AsksContents(p) == \E m \in live : \E op \in ContentOps, todo \in Seq(Contents) \ {<<>>} :
                     AskContents(p, op, m, todo)
Edits == \E u \in Users : getMetadataPutHandler(u)
Reads == \E m \in live, c \in Clients : getMissionHandler(m, c) \/ getMissionChangesHandler(m, c)

\* The requests that can be asked have known operations and places.
LEMMA AskedPlaces ==
  ASSUME NEW op, NEW c, NEW pc, Asked(op, c, pc)
  PROVE  op \in Ops /\ pc \in Places /\ c \in Clients \cup {0}
BY DEF Asked, Ops, Places

\* Every step is a statement of one request, or a client's read.
LEMMA Steps ==
  ASSUME [Next]_vars
  PROVE  \/ \E p \in Procs : \/ Begins(p) \/ CreateCommit(p) \/ Announce(p) \/ Abort(p) \/ Asks(p) \/ Delete(p)
                             \/ Subscribing(p) \/ AsksContents(p) \/ Changing(p)
         \/ Reads \/ Edits \/ UNCHANGED vars
<1>p. Handlers \subseteq Procs /\ Loop \in Procs
  BY DEF Procs
<1>m. \A scopes, n : MissionQuery(scopes, n) \subseteq live
  BY DEF MissionQuery
<1>c. Hashes \subseteq Contents /\ Points \subseteq Contents
  BY DEF Contents
<1> DEFINE Goal == \/ \E p \in Procs : \/ Begins(p) \/ Asks(p) \/ AsksContents(p)
                   \/ Reads
<1>1. ASSUME NEW p \in Handlers, NEW u \in Users, getMissionPutHandler(p, u) PROVE Goal
  BY <1>1, <1>p DEF getMissionPutHandler, Begins
<1>2. ASSUME NEW p \in Handlers, NEW m \in live, Handling(p, m) PROVE Goal
  <2>1. ASSUME NEW op, NEW c, NEW pc, Asked(op, c, pc), Ask(p, op, m, c, pc) PROVE Goal
    BY <2>1, <1>p, AskedPlaces DEF Asks
  <2>2. CASE getMissionDeleteHandler(p, m)
    BY <2>1, <2>2 DEF getMissionDeleteHandler, Asked
  <2>3. CASE getMissionSubscriptionDeleteHandler(p, m)
    BY <2>1, <2>3 DEF getMissionSubscriptionDeleteHandler, Asked
  <2>4. ASSUME NEW c \in Clients, getMissionSubscriptionPutHandler(p, m, c) PROVE Goal
    BY <2>1, <2>4 DEF getMissionSubscriptionPutHandler, Asked
  <2>5. ASSUME NEW c \in Clients, getInvitePutHandler(p, m, c) PROVE Goal
    BY <2>1, <2>5 DEF getInvitePutHandler, Asked
  <2>6. ASSUME NEW c \in Clients, getInviteDeleteHandler(p, m, c) PROVE Goal
    BY <2>1, <2>6 DEF getInviteDeleteHandler, Asked
  <2>7. CASE getMissionContentPutHandler(p, m)
    <3>1. PICK h \in Hashes, k \in Hashes : AskContents(p, "put", m, <<h>>) \/ AskContents(p, "put", m, <<h, k>>)
      BY <2>7 DEF getMissionContentPutHandler
    <3>2. <<h>> \in Seq(Contents) \ {<<>>} /\ <<h, k>> \in Seq(Contents) \ {<<>>} /\ "put" \in ContentOps
      BY <1>c DEF ContentOps
    <3> QED
      BY <3>1, <3>2, <1>p DEF AsksContents
  <2>8. CASE getMissionContentDeleteHandler(p, m)
    <3>1. PICK x \in Points, h \in Hashes : \E todo \in {<<x>>, <<h>>, <<x, h>>} : AskContents(p, "remove", m, todo)
      BY <2>8 DEF getMissionContentDeleteHandler
    <3>2. {<<x>>, <<h>>, <<x, h>>} \subseteq Seq(Contents) \ {<<>>} /\ "remove" \in ContentOps
      BY <1>c DEF ContentOps
    <3> QED
      BY <3>1, <3>2, <1>p DEF AsksContents
  <2>9. ASSUME NEW c \in Clients, getMissionHandler(m, c) \/ getMissionChangesHandler(m, c) PROVE Goal
    BY <2>9 DEF Reads
  <2> QED
    BY <1>2, <2>2, <2>3, <2>4, <2>5, <2>6, <2>7, <2>8, <2>9 DEF Handling
<1>3. ASSUME NEW s \in Scopes, processMissionPoint(s) PROVE Goal
  <2>1. PICK n \in Names : \E m \in MissionQuery({s}, n) : \E c \in Points, op \in {"point", "drop"} :
                             AskContents(Loop, op, m, <<c>>)
    BY <1>3 DEF processMissionPoint
  <2>2. PICK m \in live, c \in Points, op \in {"point", "drop"} : AskContents(Loop, op, m, <<c>>)
    BY <2>1, <1>m
  <2>3. <<c>> \in Seq(Contents) \ {<<>>} /\ op \in ContentOps
    BY <1>c DEF ContentOps
  <2> QED
    BY <2>2, <2>3, <1>p DEF AsksContents
<1>4. ASSUME NEW p \in Handlers, NEW u \in Users, NEW n \in Names, NEW m \in Readable(u, n), Handling(p, m) PROVE Goal
  BY <1>4, <1>2, <1>m DEF Readable
<1> QED
  BY <1>1, <1>3, <1>4, <1>p DEF Next, Edits
-----------------------------------------------------------------------------
(* Requests fit their places. *)

Given == {m \in Ids : missions[m] # None}
GivenStay == /\ edited \subseteq edited'
             /\ \A m \in Ids : missions[m] # None => missions'[m] # None /\ Agrees(m, missions[m], missions', edited')
GivenSame == edited' = edited /\ \A m \in Ids : missions[m] # None => missions'[m] = missions[m]

\* A step that leaves the missions there are leaves what is known of them.
LEMMA SameStay == GivenSame => GivenStay
BY DEF GivenSame, GivenStay, Agrees

\* What the assumption on the constants says of ids, uids and contents.
LEMMA SetFacts ==
  /\ None \notin MissionRows /\ 0 \notin Clients /\ 0 \notin Ids /\ Clients \subseteq Nat
  /\ MaxMissions \in Nat \ {0} /\ IsFiniteSet(Procs) /\ Loop \in Procs /\ Handlers \subseteq Procs
  /\ "" \notin Contents
<1>1. None.kind = "" /\ \A w \in MissionRows : w.kind # ""
  BY MissionsAssumption DEF MissionsAssumption, None, MissionRows
<1>2. 0 \notin Clients /\ Clients \subseteq Nat /\ MaxMissions \in Nat \ {0} /\ IsFiniteSet(Handlers) /\ "" \notin Contents
  BY MissionsAssumption DEF MissionsAssumption
<1>3. IsFiniteSet(Procs)
  BY <1>2, FS_AddElement DEF Procs
<1>4. 0 \notin Ids
  <2>1. MaxMissions \in Nat
    BY <1>2
  <2> QED
    BY <2>1 DEF Ids
<1> QED
  BY <1>1, <1>2, <1>3, <1>4 DEF Procs

\* A request that fits goes on fitting while the missions there stay.
LEMMA FitStays ==
  ASSUME GivenStay, NEW r, Fits(r, missions, edited)
  PROVE  Fits(r, missions', edited')
<1>1. ASSUME r.pc \notin {"idle", "new"}
      PROVE  missions'[r.id] # None /\ Agrees(r.id, r.new, missions', edited')
  <2>1. r.id \in Ids /\ missions[r.id] # None /\ Agrees(r.id, r.new, missions, edited)
    BY <1>1 DEF Fits
  <2>2. edited \subseteq edited' /\ missions'[r.id] # None /\ Agrees(r.id, missions[r.id], missions', edited')
    BY <2>1 DEF GivenStay
  <2> QED
    BY <2>1, <2>2 DEF Agrees
<1> QED
  BY <1>1 DEF Fits

\* If the request that steps fits, and the ids given stay, all requests fit.
LEMMA FitAfter ==
  ASSUME RequestsFit, missions \in [Ids -> MissionRows \cup {None}], GivenStay, NEW p \in Procs, Elsewhere(p),
         Fits(req'[p], missions', edited')
  PROVE  RequestsFit'
<1>1. ASSUME NEW q \in Procs, q # p PROVE Fits(req'[q], missions', edited')
  BY <1>1, FitStays DEF RequestsFit, Elsewhere
<1> QED
  BY <1>1 DEF RequestsFit, Elsewhere

\* What is known of a request at work on contents.
LEMMA AtContents ==
  ASSUME RequestsFit, NEW p \in Procs,
         req[p].op \in ContentOps \/ req[p].pc \in {"contents", "link", "log", "notify"}
  PROVE  /\ req[p] \in Request /\ req[p].op \in ContentOps /\ req[p].pc \in {"contents", "link", "log", "notify"}
         /\ req[p].id \in Ids /\ req[p].new \in MissionRows /\ missions[req[p].id] # None
         /\ req[p].todo \in Seq(Contents) /\ req[p].todo # <<>> /\ Current(p) \in Contents
         /\ req[p].pc = "link" => req[p].op = "point"
<1>1. req[p] \in Request /\ Fits(req[p], missions, edited)
  BY DEF RequestsFit
<1>2. /\ req[p].op \in ContentOps /\ req[p].pc \in {"contents", "link", "log", "notify"}
      /\ req[p].pc = "link" => req[p].op = "point"
  BY <1>1 DEF Fits, PlacesOf, ContentOps, Request, Ops
<1>3. req[p].id \in Ids /\ req[p].new \in MissionRows /\ missions[req[p].id] # None /\ req[p].todo # <<>>
  BY <1>1, <1>2 DEF Fits
<1>4. req[p].todo \in Seq(Contents)
  BY <1>1 DEF Request
<1>5. Current(p) \in Contents
  BY <1>3, <1>4 DEF Current
<1> QED
  BY <1>1, <1>2, <1>3, <1>4, <1>5

\* After one of several contents others are left.
LEMMA TailThere == \A s \in Seq(Contents) : Len(s) > 1 => Tail(s) # <<>>
<1> TAKE s \in Seq(Contents)
<1> HAVE Len(s) > 1
<1>1. s # <<>> /\ Len(s) \in Nat
  OBVIOUS
<1>2. Len(Tail(s)) = Len(s) - 1
  BY <1>1
<1>3. Len(Tail(s)) # 0
  BY <1>1, <1>2
<1>4. Len(<<>>) = 0
  OBVIOUS
<1>5. \A t : t = <<>> => Len(t) = 0
  BY <1>4
<1> QED
  BY <1>3, <1>5, Zenon

\* A request that goes on with the same mission fits its next place.
LEMMA FitOn ==
  ASSUME NEW r \in Request, NEW s \in Request, NEW table, NEW ed, Fits(r, table, ed), r.pc \notin {"idle", "new"},
         s.op = r.op, s.id = r.id, s.new = r.new, s.uid = r.uid,
         s.pc \in PlacesOf(r.op) \ {"idle", "new"},
         s.pc \in {"subscribe", "save", "find"} => r.uid # 0,
         r.op \in ContentOps => s.todo # <<>>
  PROVE  Fits(s, table, ed)
BY DEF Fits

\* Adding and removing contents keeps requests as they should be.
LEMMA ContentsFit ==
  ASSUME RequestsFit, missions \in [Ids -> MissionRows \cup {None}], NEW p \in Procs, Changing(p)
  PROVE  RequestsFit' /\ Elsewhere(p) /\ UNCHANGED <<missions, edited, live, subs, invites, txn, owing>>
<1>1. UNCHANGED <<missions, edited, live, subs, invites, txn, owing>>
  BY DEF Changing, Skip, AddMissionResource, RemoveContent, SavePoint, LinkPoint, PointFails, FailsUnnoticed,
         LogChange, Notify, tables, ghosts
<1>2. req[p].pc \in {"contents", "link", "log", "notify"}
  BY DEF Changing, Skip, AddMissionResource, RemoveContent, SavePoint, LinkPoint, PointFails, FailsUnnoticed,
         LogChange, Notify
<1>3. /\ req[p] \in Request /\ Fits(req[p], missions, edited) /\ req \in [Procs -> Request]
      /\ req[p].op \in ContentOps /\ req[p].todo # <<>> /\ Current(p) \in Contents
  BY <1>2, AtContents DEF RequestsFit
<1>4. /\ {"contents", "log", "notify"} \subseteq PlacesOf(req[p].op) /\ {"idle", "new"} \cap PlacesOf(req[p].op) = {}
      /\ req[p].op = "point" => "link" \in PlacesOf(req[p].op)
  BY <1>3 DEF PlacesOf, ContentOps
<1>5. \/ NextContent(p) \/ Linked(p) \/ (\E pc \in {"log", "notify"} : Goto(p, pc))
      \/ Goto(p, "link") /\ req[p].op = "point"
  BY DEF Changing, Skip, AddMissionResource, RemoveContent, SavePoint, LinkPoint, PointFails, FailsUnnoticed,
         LogChange, Notify, Unlinked
<1>6. ASSUME Elsewhere(p), Keeps(p), req'[p].todo # <<>>,
             req'[p].pc \in {"contents", "log", "notify"} \/ (req'[p].pc = "link" /\ req[p].op = "point")
      PROVE  Fits(req'[p], missions, edited) /\ Elsewhere(p)
  <2>1. req'[p] \in Request
    BY <1>6 DEF Elsewhere
  <2> QED
    BY <2>1, <1>2, <1>3, <1>4, <1>6, FitOn DEF Keeps
<1>8. ASSUME Linked(p) PROVE Fits(req'[p], missions, edited) /\ Elsewhere(p)
  BY <1>3, <1>6, <1>8, LinkedEffect
<1>9. ASSUME (\E pc \in {"log", "notify"} : Goto(p, pc)) \/ (Goto(p, "link") /\ req[p].op = "point")
      PROVE  Fits(req'[p], missions, edited) /\ Elsewhere(p)
  <2>1. PICK pc \in {"log", "notify", "link"} : Goto(p, pc) /\ (pc = "link" => req[p].op = "point")
    BY <1>9
  <2>2. pc \in Places
    BY DEF Places
  <2> QED
    BY <2>1, <2>2, <1>3, <1>6, GotoEffect
<1>10. Elsewhere(p) /\ Fits(req'[p], missions, edited)
  <2>1. CASE NextContent(p) /\ req'[p] = Idle
    BY <2>1, <1>3, NextEffect, IdleFits
  <2>2. CASE NextContent(p) /\ req'[p] # Idle
    <3>1. /\ Elsewhere(p) /\ Len(req[p].todo) > 1 /\ Keeps(p) /\ req'[p].pc = "contents"
          /\ req'[p].todo = Tail(req[p].todo)
      BY <2>2, <1>3, NextEffect
    <3>2. req[p].todo \in Seq(Contents)
      BY <1>3 DEF Request
    <3>3. Tail(req[p].todo) # <<>>
      BY <3>1, <3>2, TailThere
    <3> QED
      BY <3>1, <3>3, <1>6
  <2> QED
    BY <2>1, <2>2, <1>5, <1>8, <1>9
<1> QED
  BY <1>1, <1>10, FitAfter, SameStay DEF GivenSame

\* The id of a new mission was never given.
LEMMA NewIdIsFree ==
  ASSUME IdsInOrder, missions \in [Ids -> MissionRows \cup {None}]
  PROVE  /\ \E n \in 0..MaxMissions : Given = 1..n /\ NewId = n + 1
         /\ NewId \in Ids => missions[NewId] = None
<1>1. PICK n \in 0..MaxMissions : Given = 1..n
  BY DEF IdsInOrder, Given
<1>2. n \in Nat
  <2>1. MaxMissions \in Nat
    BY SetFacts
  <2> QED
    BY <1>1, <2>1
<1>3. Cardinality(1..n) = n
  BY <1>2, FS_Interval
<1>4. NewId = n + 1
  BY <1>1, <1>3 DEF NewId, Given
<1>5. n + 1 \notin 1..n
  BY <1>2
<1>6. NewId \notin Given
  BY <1>1, <1>4, <1>5
<1> QED
  BY <1>1, <1>4, <1>6 DEF Given

\* Where a request stands that is not at work on contents.
LEMMA AtPlace ==
  ASSUME RequestsFit, NEW p \in Procs
  PROVE  /\ req[p] \in Request /\ Fits(req[p], missions, edited) /\ req \in [Procs -> Request]
         /\ req[p].pc = "new" => req[p].op = "create" /\ req[p].id = 0 /\ req[p].new \in MissionRows
         /\ req[p].pc = "announce" => req[p].op = "create"
         /\ req[p].pc = "subscribe" => req[p].op \in {"create", "subscribe"}
         /\ req[p].pc = "find" => req[p].op = "invite"
         /\ req[p].pc = "save" => req[p].op \in {"create", "subscribe", "invite"}
         /\ req[p].op \in {"delete", "unsubscribe", "uninvite"} => req[p].pc = "statement"
         /\ req[p].pc \in {"new", "subscribe", "save", "find", "announce", "statement"} => req[p].op \notin ContentOps
         /\ req[p].pc \in {"subscribe", "save", "find", "announce", "statement"} =>
              /\ req[p].id \in Ids /\ req[p].new \in MissionRows /\ missions[req[p].id] # None
              /\ Agrees(req[p].id, req[p].new, missions, edited)
         /\ req[p].pc \in {"subscribe", "save", "find"} \/ req[p].op = "uninvite" => req[p].uid \in Clients
         /\ req[p].op = "create" => req[p].uid = req[p].new.creator
<1>1. req[p] \in Request /\ Fits(req[p], missions, edited) /\ req \in [Procs -> Request]
  BY DEF RequestsFit
<1>2. req[p].pc \in PlacesOf(req[p].op) /\ req[p].op \in Ops \cup {""} /\ req[p].uid \in Clients \cup {0}
  BY <1>1 DEF Fits, Request
<1> HIDE DEF Idle
<1>3. /\ req[p].pc = "new" => req[p].op = "create"
      /\ req[p].pc = "announce" => req[p].op = "create"
      /\ req[p].pc = "subscribe" => req[p].op \in {"create", "subscribe"}
      /\ req[p].pc = "find" => req[p].op = "invite"
      /\ req[p].pc = "save" => req[p].op \in {"create", "subscribe", "invite"}
      /\ req[p].op \in {"delete", "unsubscribe", "uninvite"} => req[p].pc = "statement"
      /\ req[p].pc \in {"new", "subscribe", "save", "find", "announce", "statement"} => req[p].op \notin ContentOps
  BY <1>2 DEF PlacesOf, Ops, ContentOps
<1>4. /\ req[p].pc = "new" => req[p].id = 0 /\ req[p].new \in MissionRows
      /\ req[p].pc \in {"subscribe", "save", "find", "announce", "statement"} =>
           /\ req[p].id \in Ids /\ req[p].new \in MissionRows /\ missions[req[p].id] # None
           /\ Agrees(req[p].id, req[p].new, missions, edited)
      /\ req[p].op = "create" => req[p].uid = req[p].new.creator
  BY <1>1 DEF Fits
<1>5. req[p].pc \in {"subscribe", "save", "find"} \/ req[p].op = "uninvite" => req[p].uid \in Clients
  BY <1>1, <1>2 DEF Fits
<1> QED
  BY <1>1, <1>3, <1>4, <1>5

\* A creation begins, having found no mission of the name, and commits.
LEMMA Began ==
  ASSUME req \in [Procs -> Request], NEW p \in Procs, Begins(p)
  PROVE  /\ Elsewhere(p) /\ req'[p].pc = "new" /\ req'[p].op = "create" /\ req'[p].id = 0
         /\ req'[p].new \in MissionRows /\ req'[p].uid = req'[p].new.creator
         /\ req[p].pc = "idle" /\ MayWrite(p) /\ txn' = txn \cup {p} /\ UNCHANGED <<tables, edited>>
         /\ MissionQuery({req'[p].new.scope}, req'[p].new.name) = {}
<1>1. PICK u \in Users, n \in Names, k \in Kinds, c \in Clients \cup {0} : CreateBegin(p, u, n, k, c)
  BY DEF Begins
<1> DEFINE w == [scope |-> Scope[u], name |-> n, kind |-> k, creator |-> c]
<1>2. w \in MissionRows /\ w.creator = c /\ w.scope = Scope[u] /\ w.name = n
  BY MissionsAssumption DEF MissionsAssumption, MissionRows
<1> DEFINE r == [Idle EXCEPT !.pc = "new", !.op = "create", !.uid = c, !.new = w]
<1>3. req' = [req EXCEPT ![p] = r]
  BY <1>1 DEF CreateBegin
<1>5. req[p].pc = "idle" /\ MayWrite(p) /\ txn' = txn \cup {p} /\ UNCHANGED <<tables, edited>> /\ MissionQuery({Scope[u]}, n) = {}
  BY <1>1 DEF CreateBegin, Idling, NameTaken, ghosts
<1> HIDE DEF w
<1>4. r \in Request /\ r.pc = "new" /\ r.op = "create" /\ r.id = 0 /\ r.uid = c /\ r.new = w
  <2>1. c \in Clients \cup {0}
    BY <1>1
  <2>2. Idle \in Request /\ Idle.id = 0 /\ "create" \in Ops
    BY IdleFits, IdleFields DEF Ops
  <2> QED
    BY <1>2, <2>1, <2>2 DEF Request
<1> HIDE DEF r
<1>6. Elsewhere(p) /\ req'[p] = r
  BY <1>3, <1>4 DEF Elsewhere
<1> QED
  BY <1>2, <1>4, <1>5, <1>6

\* What CreateMission leaves behind when it commits.
LEMMA Committed ==
  ASSUME RequestsFit, IdsInOrder, missions \in [Ids -> MissionRows \cup {None}], NEW p \in Procs, CreateCommit(p)
  PROVE  /\ GivenSame /\ Elsewhere(p) /\ req'[p].id = NewId /\ NewId \in Ids
         /\ missions[NewId] = None /\ missions' = [missions EXCEPT ![NewId] = req[p].new] /\ live' = live \cup {NewId}
         /\ missions'[NewId] = req[p].new /\ req[p].new \in MissionRows
         /\ req'[p].pc \in {"announce", "subscribe"} /\ (req'[p].pc = "subscribe" => req'[p].uid # 0)
         /\ req[p].op = "create" /\ req'[p].op = "create" /\ req'[p].new = req[p].new /\ req'[p].uid = req'[p].new.creator
         /\ req[p].pc = "new" /\ txn' = txn \ {p}
<1>1. /\ req[p].pc = "new" /\ NewId \in Ids /\ missions' = [missions EXCEPT ![NewId] = req[p].new]
      /\ live' = live \cup {NewId} /\ txn' = txn \ {p}
      /\ req' = [req EXCEPT ![p].id = NewId, ![p].pc = AfterCreate(p)]
  BY DEF CreateCommit
<1>2. /\ req[p].op = "create" /\ req[p].new \in MissionRows /\ req[p].uid = req[p].new.creator
  BY <1>1, AtPlace
<1>3. missions[NewId] = None
  BY <1>1, NewIdIsFree
<1>4. GivenSame
  <2>1. edited' = edited
    BY DEF CreateCommit, ghosts
  <2> QED
    BY <2>1, <1>1, <1>3 DEF GivenSame
<1>5. /\ AfterCreate(p) \in {"announce", "subscribe"} /\ (AfterCreate(p) = "subscribe" => req[p].uid # 0)
      /\ AfterCreate(p) \in Places
  BY DEF AfterCreate, Places
<1>6. /\ Elsewhere(p) /\ req'[p].id = NewId /\ req'[p].pc = AfterCreate(p)
      /\ req'[p].op = req[p].op /\ req'[p].new = req[p].new /\ req'[p].uid = req[p].uid
  <2>1. AfterCreate(p) \in Places /\ req \in [Procs -> Request]
    BY <1>5 DEF RequestsFit
  <2> HIDE DEF NewId, AfterCreate
  <2> QED
    BY <2>1, <1>1, CommitEffect
<1>7. missions'[NewId] = req[p].new
  BY <1>1
<1> QED
  BY <1>1, <1>2, <1>3, <1>4, <1>5, <1>6, <1>7

\* The same mission for the next step.
LEMMA GoesOn ==
  ASSUME RequestsFit, missions \in [Ids -> MissionRows \cup {None}], UNCHANGED <<missions, edited>>,
         NEW p \in Procs, Elsewhere(p), Keeps(p),
         req[p].pc \in {"subscribe", "save", "find"}, req[p].op \notin ContentOps,
         req'[p].pc \in PlacesOf(req[p].op) \ {"idle", "new"}
  PROVE  RequestsFit' /\ GivenStay
<1>1. req'[p] \in Request /\ req[p] \in Request /\ Fits(req[p], missions, edited)
  BY DEF Elsewhere, RequestsFit
<1>2. req[p].uid # 0
  BY <1>1 DEF Fits
<1>3. Fits(req'[p], missions, edited)
  BY <1>1, <1>2, FitOn DEF Keeps
<1> QED
  BY <1>3, FitAfter, SameStay DEF GivenSame

\* Requests stay as they should be when one is answered.
LEMMA Ends ==
  ASSUME RequestsFit, missions \in [Ids -> MissionRows \cup {None}], UNCHANGED <<missions, edited>>, NEW p \in Procs, Done(p)
  PROVE  RequestsFit' /\ GivenStay /\ Elsewhere(p)
<1>1. Elsewhere(p) /\ req'[p] = Idle
  BY DoneEffect DEF RequestsFit
<1> QED
  BY <1>1, IdleFits, FitAfter, SameStay DEF GivenSame

\* Every statement of a request keeps requests as they should be.
LEMMA RequestsStep ==
  ASSUME TypeOK, RequestsFit, IdsInOrder, NEW p \in Procs,
         \/ Begins(p) \/ CreateCommit(p) \/ Announce(p) \/ Abort(p) \/ Asks(p) \/ Delete(p)
         \/ Subscribing(p) \/ AsksContents(p) \/ Changing(p)
  PROVE  RequestsFit' /\ GivenStay /\ Elsewhere(p)
<1>m. missions \in [Ids -> MissionRows \cup {None}] /\ req \in [Procs -> Request]
  BY DEF TypeOK, RequestsFit
<1>l. \A m \in live : m \in Ids /\ missions[m] \in MissionRows /\ missions[m] # None
  BY <1>m DEF TypeOK
<1>1. CASE Begins(p)
  <2>1. /\ Elsewhere(p) /\ req'[p].pc = "new" /\ req'[p].op = "create" /\ req'[p].id = 0
        /\ req'[p].new \in MissionRows /\ req'[p].uid = req'[p].new.creator /\ UNCHANGED <<missions, edited>>
    BY <1>1, <1>m, Began DEF tables
  <2>2. Fits(req'[p], missions, edited)
    BY <2>1 DEF Fits, PlacesOf, ContentOps
  <2> QED
    BY <1>m, <2>1, <2>2, FitAfter, SameStay DEF GivenSame
<1>2. CASE CreateCommit(p)
  <2>1. /\ GivenSame /\ Elsewhere(p) /\ req'[p].id = NewId /\ NewId \in Ids
        /\ missions'[NewId] = req[p].new /\ req[p].new \in MissionRows
        /\ req'[p].pc \in {"announce", "subscribe"} /\ (req'[p].pc = "subscribe" => req'[p].uid # 0)
        /\ req'[p].op = "create" /\ req'[p].new = req[p].new /\ req'[p].uid = req'[p].new.creator
    BY <1>2, <1>m, Committed
  <2>2. Fits(req'[p], missions', edited')
    <3>1. req'[p].pc \in PlacesOf("create") /\ req'[p].pc \notin {"new", "idle", "save", "find"}
      BY <2>1 DEF PlacesOf, ContentOps
    <3>2. /\ req'[p].id \in Ids /\ req'[p].new \in MissionRows /\ missions'[req'[p].id] # None
          /\ Agrees(req'[p].id, req'[p].new, missions', edited')
      BY <2>1, SetFacts DEF Agrees
    <3>3. "create" \notin ContentOps
      BY DEF ContentOps
    <3> QED
      BY <2>1, <3>1, <3>2, <3>3 DEF Fits
  <2> QED
    BY <1>m, <2>1, <2>2, FitAfter, SameStay
<1>3. CASE Announce(p)
  BY <1>3, <1>m, Ends DEF Announce, tables, ghosts
<1>4. CASE Abort(p)
  BY <1>4, <1>m, Ends DEF Abort, tables, ghosts
<1>5. CASE Asks(p)
  <2>1. PICK m \in live, op \in Ops, c \in Clients \cup {0}, pc \in Places : Asked(op, c, pc) /\ Ask(p, op, m, c, pc)
    BY <1>5 DEF Asks
  <2>2. /\ Elsewhere(p) /\ req'[p].pc = pc /\ req'[p].op = op /\ req'[p].id = m
        /\ req'[p].uid = c /\ req'[p].new = missions[m]
    BY <2>1, <1>m, <1>l, AskEffect
  <2>3. /\ pc \in PlacesOf(op) /\ pc \notin {"new", "idle"} /\ op # "create" /\ op \notin ContentOps
        /\ (pc \in {"subscribe", "save", "find"} \/ op = "uninvite" => c \in Clients)
    BY <2>1 DEF Asked, PlacesOf, ContentOps
  <2>4. Fits(req'[p], missions, edited)
    BY <2>1, <2>2, <2>3, <1>l, SetFacts DEF Fits, Agrees
  <2>5. UNCHANGED <<missions, edited>>
    BY <2>1 DEF Ask, tables, ghosts
  <2> QED
    BY <1>m, <2>2, <2>4, <2>5, FitAfter, SameStay DEF GivenSame
<1>6. CASE Delete(p)
  BY <1>6, <1>m, Ends DEF Delete
<1>7. CASE Subscribing(p)
  <2>1. CASE Refuse(p) \/ Unsubscribe(p) \/ InviteSave(p) \/ Uninvite(p)
    BY <2>1, <1>m, Ends DEF Refuse, Unsubscribe, InviteSave, Uninvite, tables, ghosts
  <2>2. CASE SubscribeBegin(p) \/ InviteFind(p)
    <3>1. /\ req[p].pc \in {"subscribe", "find"} /\ UNCHANGED <<missions, edited>>
          /\ \E rows \in {Found(p), Invitations(req[p].id, req[p].uid)} : \E n \in One(rows) :
               req' = [req EXCEPT ![p].pc = "save", ![p].row = n]
      BY <2>2 DEF SubscribeBegin, InviteFind, tables, ghosts
    <3>2. \A rows \in {Found(p), Invitations(req[p].id, req[p].uid)} : \A n \in One(rows) : n \in Nat
      <4>1. (\A s \in subs : s.row \in Nat) /\ \A i \in invites : i.row \in Nat
        BY DEF TypeOK
      <4>2. Found(p) \subseteq subs /\ Invitations(req[p].id, req[p].uid) \subseteq invites
        BY DEF Found, Subscriptions, Invitations
      <4> QED
        BY <4>1, <4>2 DEF One
    <3>3. PICK n \in Nat : req' = [req EXCEPT ![p].pc = "save", ![p].row = n]
      BY <3>1, <3>2
    <3>4. Elsewhere(p) /\ Keeps(p) /\ req'[p].pc = "save"
      BY <3>3, <1>m, FoundEffect
    <3>5. "save" \in PlacesOf(req[p].op) /\ req[p].op \notin ContentOps
      <4>1. req[p].op \in {"create", "subscribe", "invite"}
        BY <3>1, AtPlace
      <4> QED
        BY <4>1 DEF PlacesOf, ContentOps
    <3> QED
      BY <3>1, <3>4, <3>5, <1>m, GoesOn
  <2>3. CASE SubscribeCommit(p)
    <3>1. req[p].pc = "save" /\ UNCHANGED <<missions, edited>>
      BY <2>3 DEF SubscribeCommit, ghosts
    <3>2. CASE req[p].op = "create"
      <4>1. Goto(p, "announce")
        BY <2>3, <3>2 DEF SubscribeCommit
      <4>2. Elsewhere(p) /\ Keeps(p) /\ req'[p].pc = "announce"
        BY <4>1, <1>m, GotoEffect DEF Places
      <4> QED
        BY <3>1, <3>2, <4>2, <1>m, GoesOn DEF PlacesOf, ContentOps
    <3>3. CASE req[p].op # "create"
      BY <3>1, <3>3, <2>3, <1>m, Ends DEF SubscribeCommit
    <3> QED
      BY <3>2, <3>3
  <2> QED
    BY <1>7, <2>1, <2>2, <2>3 DEF Subscribing
<1>8. CASE AsksContents(p)
  <2>1. PICK m \in live, op \in ContentOps, todo \in Seq(Contents) \ {<<>>} : AskContents(p, op, m, todo)
    BY <1>8 DEF AsksContents
  <2>2. /\ Elsewhere(p) /\ req'[p].pc = "contents" /\ req'[p].op = op /\ req'[p].id = m
        /\ req'[p].new = missions[m] /\ req'[p].todo = todo
    BY <2>1, <1>m, <1>l, AskContentsEffect
  <2>3. "contents" \in PlacesOf(op) /\ op \notin {"create", "uninvite"}
    BY <2>1 DEF PlacesOf, ContentOps
  <2>4. Fits(req'[p], missions, edited)
    BY <2>1, <2>2, <2>3, <1>l, SetFacts DEF Fits, Agrees
  <2>5. UNCHANGED <<missions, edited>>
    BY <2>1 DEF AskContents, tables
  <2> QED
    BY <1>m, <2>2, <2>4, <2>5, FitAfter, SameStay DEF GivenSame
<1>9. CASE Changing(p)
  BY <1>9, <1>m, ContentsFit, SameStay DEF GivenSame
<1> QED
  BY <1>1, <1>2, <1>3, <1>4, <1>5, <1>6, <1>7, <1>8, <1>9

\* What a metadata request writes: one column of a mission there is.
LEMMA EditEffect ==
  ASSUME TypeOK, RequestsFit, Edits
  PROVE  /\ UNCHANGED <<live, subs, links, log, belief, follows, req, txn, raced, broken, owing>>
         /\ Serializable => txn = {}
         /\ missions' \in [Ids -> MissionRows \cup {None}] /\ edited' \subseteq Ids \X Columns
         /\ \A k \in Ids : missions'[k] = None <=> missions[k] = None
         /\ GivenStay /\ RequestsFit'
<1>1. PICK m \in live, column \in Columns, row \in MissionRows :
        /\ \A c \in Columns \ {column} : row[c] = missions[m][c]
        /\ missions' = [missions EXCEPT ![m] = row] /\ edited' = edited \cup {<<m, column>>}
  BY DEF Edits, getMetadataPutHandler
<1>2. /\ UNCHANGED <<live, subs, links, log, belief, follows, req, txn, raced, broken, owing>>
      /\ Serializable => txn = {}
  BY DEF Edits, getMetadataPutHandler
<1>3. /\ missions \in [Ids -> MissionRows \cup {None}] /\ m \in Ids /\ missions[m] # None
      /\ edited \subseteq Ids \X Columns /\ row # None
  BY SetFacts DEF TypeOK
<1>4. missions' \in [Ids -> MissionRows \cup {None}] /\ edited' \subseteq Ids \X Columns
  BY <1>1, <1>3
<1>5. \A k \in Ids : missions'[k] = None <=> missions[k] = None
  BY <1>1, <1>3
<1>6. GivenStay
  BY <1>1, <1>3 DEF GivenStay, Agrees
<1>7. RequestsFit'
  BY <1>2, <1>6, FitStays DEF RequestsFit
<1> QED
  BY <1>2, <1>4, <1>5, <1>6, <1>7
-----------------------------------------------------------------------------
(* The tables keep their types. *)

SubRows == [id : Ids, uid : Clients, row : Nat \ {0}, role : {"creator", "subscriber"}]
InviteRows == [id : Ids, uid : Clients, row : Nat \ {0}]
ChangeRows(n) == [id : Ids, key : Contents \cup {""}, type : {"create", "add", "remove"}, at : 1..n]

MissionsTyped == missions \in [Ids -> MissionRows \cup {None}] /\ live \subseteq {m \in Ids : missions[m] # None}
RowsTyped == subs \subseteq SubRows /\ invites \subseteq InviteRows
LogTyped == log \subseteq ChangeRows(changes) /\ changes \in Nat
LinksTyped == links \subseteq Ids \X Contents /\ pointOf \in [Points -> Scopes \cup {""}]
OthersTyped == announced \subseteq Ids /\ txn \subseteq Procs /\ belief \subseteq Ids \X Clients \X Contents
GhostsTyped == /\ raced \subseteq Ids \X Contents /\ broken \subseteq Ids \X Contents
               /\ follows \subseteq Ids \X Clients /\ edited \subseteq Ids \X Columns
               /\ owing \in [Ids -> Nat] /\ faults \in 0..MaxFaults
TablesTyped == MissionsTyped /\ RowsTyped /\ LogTyped /\ LinksTyped /\ OthersTyped /\ GhostsTyped

\* The type invariant is that of the tables and that of the requests.
LEMMA TypesParted ==
  /\ TypeOK => TablesTyped
  /\ TablesTyped /\ RequestsFit => TypeOK
<1>1. ASSUME RequestsFit PROVE \A p \in Procs :
        /\ req[p].pc \in {"idle", "new", "subscribe", "save", "contents", "find", "link", "statement",
                          "log", "notify", "announce"}
        /\ req[p].op \in Ops \cup {""} /\ req[p].id \in Ids \cup {0}
        /\ req[p].uid \in Clients \cup {0} /\ req[p].todo \in Seq(Contents)
        /\ req[p].seen \subseteq Contents /\ req[p].new \in MissionRows \cup {None}
        /\ req[p].row \in Nat
  BY <1>1 DEF RequestsFit, Request
<1> QED
  BY <1>1 DEF TypeOK, TablesTyped, MissionsTyped, RowsTyped, LogTyped, LinksTyped, OthersTyped, GhostsTyped,
              SubRows, InviteRows, ChangeRows

\* Save finds a row that is free.
LEMMA FreeRowIsThere ==
  ASSUME NEW rows, IsFiniteSet(rows)
  PROVE  FreeRow(rows) \in Nat \ {0} /\ \A r \in rows : r.row # FreeRow(rows)
<1> DEFINE n == Cardinality(rows) + 1
<1>1. n \in Nat /\ Cardinality(rows) < n
  BY FS_CardinalityType
<1>2. IsFiniteSet(1..n) /\ Cardinality(1..n) = n
  BY <1>1, FS_Interval
<1>3. \E k \in 1..n : \A r \in rows : r.row # k
  <2> SUFFICES ASSUME \A k \in 1..n : \E r \in rows : r.row = k PROVE FALSE
    OBVIOUS
  <2> DEFINE f == [k \in 1..n |-> CHOOSE r \in rows : r.row = k]
  <2>1. f \in [1..n -> rows] /\ \A k \in 1..n : f[k].row = k
    OBVIOUS
  <2> HIDE DEF f, n
  <2>2. \E k, l \in 1..n : k # l /\ f[k] = f[l]
    BY <1>1, <1>2, <2>1, FS_PigeonHole
  <2> QED
    BY <2>1, <2>2
<1>4. FreeRow(rows) \in 1..n /\ \A r \in rows : r.row # FreeRow(rows)
  BY <1>3 DEF FreeRow
<1> QED
  BY <1>1, <1>4

\* The rows requests may still write, one by one.
Dues(m) == UNION {{p} \X (1..Owes(p)) : p \in {q \in Procs : req[q].id = m}}

\* What a request may still write is a number of rows.
LEMMA OwesIsNat ==
  ASSUME RequestsFit, NEW p \in Procs
  PROVE  Owes(p) \in Nat
<1>1. req[p].todo \in Seq(Contents) /\ Len(req[p].todo) \in Nat
  <2>1. req[p].todo \in Seq(Contents)
    BY DEF RequestsFit, Request
  <2> QED
    BY <2>1
<1>2. CASE req[p].op \in ContentOps /\ req[p].pc \notin {"subscribe", "find", "save"}
  <2>1. Len(req[p].todo) > 0
    <3>1. req[p].todo # <<>>
      BY <1>2, AtContents
    <3> QED
      BY <1>1, <3>1
  <2>2. Len(req[p].todo) - 1 \in Nat /\ Len(req[p].todo) - 0 \in Nat
    BY <1>1, <2>1
  <2> QED
    BY <2>2, <1>2 DEF Owes
<1> QED
  BY <1>2 DEF Owes

\* The rows due to a mission can be counted.
LEMMA DuesFinite ==
  ASSUME RequestsFit, NEW m
  PROVE  IsFiniteSet(Dues(m)) /\ Pending(m) = Cardinality(Dues(m)) /\ Pending(m) \in Nat
<1> DEFINE Q == {q \in Procs : req[q].id = m}
           f == [p \in Q |-> {p} \X (1..Owes(p))]
           T == {{p} \X (1..Owes(p)) : p \in Q}
<1>1. IsFiniteSet(Q)
  BY SetFacts, FS_Subset
<1>2. f \in Surjection(Q, T)
  BY DEF Surjection
<1>3. IsFiniteSet(T)
  <2> HIDE DEF Q, f, T
  <2> QED
    BY <1>1, <1>2, FS_Surjection
<1>4. \A t \in T : IsFiniteSet(t)
  <2> SUFFICES ASSUME NEW p \in Q PROVE IsFiniteSet({p} \X (1..Owes(p)))
    OBVIOUS
  <2>1. IsFiniteSet({p})
    BY FS_Singleton
  <2>2. Owes(p) \in Int
    BY OwesIsNat
  <2>3. IsFiniteSet(1..Owes(p))
    BY <2>2, FS_Interval
  <2> QED
    BY <2>1, <2>3, FS_Product
<1>5. IsFiniteSet(UNION T)
  <2> HIDE DEF T
  <2> QED
    BY <1>3, <1>4, FS_UNION
<1>6. Dues(m) = UNION T
  BY DEF Dues
<1> QED
  BY <1>5, <1>6, FS_CardinalityType DEF Pending, Dues

\* Which steps write which variables.
TouchesMissions == Edits \/ \E p \in Procs : CreateCommit(p) \/ Delete(p)
TouchesSubs == \E p \in Procs : SubscribeCommit(p) \/ Unsubscribe(p) \/ Delete(p)
TouchesInvites == \E p \in Procs : InviteSave(p) \/ Uninvite(p) \/ Delete(p)
TouchesLog == \E p \in Procs : CreateCommit(p) \/ LogChange(p) \/ Delete(p)
TouchesLinks == \E p \in Procs : AddMissionResource(p) \/ RemoveContent(p) \/ LinkPoint(p)
TouchesPoints == \E p \in Procs : SavePoint(p, req[p].new.scope)
TouchesTxn == \E p \in Procs : Begins(p) \/ CreateCommit(p) \/ Abort(p) \/ SubscribeBegin(p) \/ SubscribeCommit(p)
TouchesBelief == Reads \/ \E p \in Procs : Notify(p)
Fails == \E p \in Procs : Abort(p) \/ PointFails(p) \/ FailsUnnoticed(p)

Frame ==
  /\ UNCHANGED <<missions, live>> \/ TouchesMissions
  /\ UNCHANGED subs \/ TouchesSubs
  /\ UNCHANGED invites \/ TouchesInvites
  /\ UNCHANGED <<log, changes>> \/ TouchesLog
  /\ UNCHANGED links \/ TouchesLinks
  /\ UNCHANGED pointOf \/ TouchesPoints
  /\ UNCHANGED announced \/ \E p \in Procs : Announce(p)
  /\ UNCHANGED txn \/ TouchesTxn
  /\ UNCHANGED <<belief, follows>> \/ TouchesBelief
  /\ UNCHANGED raced \/ \E p \in Procs : AsksContents(p)
  /\ UNCHANGED <<broken, faults>> \/ Fails
  /\ UNCHANGED owing \/ \E p \in Procs : Delete(p)
  /\ UNCHANGED edited \/ Edits

\* Which tables each kind of statement leaves alone.
LEMMA StepsFramed == ASSUME [Next]_vars PROVE Frame
<1> USE DEF TouchesMissions, TouchesSubs, TouchesInvites, TouchesLog, TouchesLinks, TouchesPoints, TouchesTxn,
            TouchesBelief, Fails
<1>1. ASSUME NEW p \in Procs, Begins(p) PROVE Frame
  BY <1>1 DEF Frame, Begins, CreateBegin, tables, ghosts
<1>2. ASSUME NEW p \in Procs, CreateCommit(p) PROVE Frame
  BY <1>2 DEF Frame, CreateCommit, tables, ghosts
<1>3. ASSUME NEW p \in Procs, Announce(p) PROVE Frame
  BY <1>3 DEF Frame, Announce, tables, ghosts
<1>4. ASSUME NEW p \in Procs, Abort(p) PROVE Frame
  BY <1>4 DEF Frame, Abort, tables, ghosts
<1>5. ASSUME NEW p \in Procs, Asks(p) PROVE Frame
  BY <1>5 DEF Frame, Asks, Ask, tables, ghosts
<1>6. ASSUME NEW p \in Procs, Delete(p) PROVE Frame
  BY <1>6 DEF Frame, Delete, tables, ghosts
<1>7. ASSUME NEW p \in Procs, Refuse(p) PROVE Frame
  BY <1>7 DEF Frame, Refuse, tables, ghosts
<1>8. ASSUME NEW p \in Procs, SubscribeBegin(p) PROVE Frame
  BY <1>8 DEF Frame, SubscribeBegin, tables, ghosts
<1>9. ASSUME NEW p \in Procs, SubscribeCommit(p) PROVE Frame
  BY <1>9 DEF Frame, SubscribeCommit, tables, ghosts
<1>10. ASSUME NEW p \in Procs, Unsubscribe(p) PROVE Frame
  BY <1>10 DEF Frame, Unsubscribe, tables, ghosts
<1>11. ASSUME NEW p \in Procs, InviteFind(p) PROVE Frame
  BY <1>11 DEF Frame, InviteFind, tables, ghosts
<1>12. ASSUME NEW p \in Procs, InviteSave(p) PROVE Frame
  BY <1>12 DEF Frame, InviteSave, tables, ghosts
<1>13. ASSUME NEW p \in Procs, Uninvite(p) PROVE Frame
  BY <1>13 DEF Frame, Uninvite, tables, ghosts
<1>14. ASSUME NEW p \in Procs, AsksContents(p) PROVE Frame
  BY <1>14 DEF Frame, AsksContents, AskContents, tables, ghosts
<1>15. ASSUME NEW p \in Procs, Skip(p) PROVE Frame
  BY <1>15 DEF Frame, Skip, tables, ghosts
<1>16. ASSUME NEW p \in Procs, AddMissionResource(p) PROVE Frame
  BY <1>16 DEF Frame, AddMissionResource, Linked, tables, ghosts
<1>17. ASSUME NEW p \in Procs, RemoveContent(p) PROVE Frame
  BY <1>17 DEF Frame, RemoveContent, Unlinked, tables, ghosts
<1>18. ASSUME NEW p \in Procs, SavePoint(p, req[p].new.scope) PROVE Frame
  BY <1>18 DEF Frame, SavePoint, tables, ghosts
<1>19. ASSUME NEW p \in Procs, LinkPoint(p) PROVE Frame
  BY <1>19 DEF Frame, LinkPoint, Linked, tables, ghosts
<1>20. ASSUME NEW p \in Procs, PointFails(p) PROVE Frame
  BY <1>20 DEF Frame, PointFails, Breaks, tables, ghosts
<1>21. ASSUME NEW p \in Procs, FailsUnnoticed(p) PROVE Frame
  BY <1>21 DEF Frame, FailsUnnoticed, Breaks, tables, ghosts
<1>22. ASSUME NEW p \in Procs, LogChange(p) PROVE Frame
  BY <1>22 DEF Frame, LogChange, tables, ghosts
<1>23. ASSUME NEW p \in Procs, Notify(p) PROVE Frame
  BY <1>23 DEF Frame, Notify, tables, ghosts
<1>24. CASE Reads
  BY <1>24 DEF Frame, Reads, getMissionHandler, getMissionChangesHandler, Learn, tables
<1>26. CASE Edits
  BY <1>26 DEF Frame, Edits, getMetadataPutHandler
<1>25. CASE UNCHANGED vars
  BY <1>25 DEF Frame, vars, tables, ghosts
<1> QED
  BY Steps, <1>1, <1>2, <1>3, <1>4, <1>5, <1>6, <1>7, <1>8, <1>9, <1>10, <1>11, <1>12, <1>13, <1>14,
     <1>15, <1>16, <1>17, <1>18, <1>19, <1>20, <1>21, <1>22, <1>23, <1>24, <1>25, <1>26
     DEF Subscribing, Changing

\* What the statements that write a row write.
LEMMA MissionsTypeStep ==
  ASSUME TypeOK, RequestsFit, IdsInOrder, [Next]_vars
  PROVE  MissionsTyped'
<1>1. Frame /\ MissionsTyped
  BY StepsFramed, TypesParted DEF TablesTyped
<1>2. CASE UNCHANGED <<missions, live>>
  BY <1>1, <1>2 DEF MissionsTyped
<1>3. ASSUME NEW p \in Procs, CreateCommit(p) PROVE MissionsTyped'
  <2>1. req[p].new \in MissionRows /\ req[p].new # None
    BY <1>3, AtPlace, SetFacts DEF CreateCommit
  <2>2. NewId \in Ids /\ missions' = [missions EXCEPT ![NewId] = req[p].new] /\ live' = live \cup {NewId}
    BY <1>3 DEF CreateCommit
  <2> HIDE DEF NewId
  <2> QED
    BY <2>1, <2>2, <1>1 DEF MissionsTyped
<1>4. ASSUME NEW p \in Procs, Delete(p) PROVE MissionsTyped'
  BY <1>1, <1>4 DEF MissionsTyped, Delete
<1>5. CASE Edits
  BY <1>1, <1>5, EditEffect DEF MissionsTyped
<1> QED
  BY <1>1, <1>2, <1>3, <1>4, <1>5 DEF Frame, TouchesMissions

\* A subscription or invitation saved is a new row, or one found.
LEMMA SaveWrites ==
  ASSUME TypeOK, RequestsFit, TablesFit, NEW p \in Procs, req[p].pc = "save",
         NEW rows, rows \subseteq subs \/ rows \subseteq invites
  PROVE  /\ RowFor(req[p].row, rows) \in Nat \ {0} /\ req[p].id \in Ids /\ req[p].uid \in Clients
         /\ req[p].row = 0 => \A r \in rows : r.row # RowFor(req[p].row, rows)
         /\ req[p].row # 0 => RowFor(req[p].row, rows) = req[p].row
<1>1. IsFiniteSet(rows)
  BY FS_Subset DEF TablesFit
<1>2. req[p].id \in Ids /\ req[p].uid \in Clients /\ req[p] \in Request
  BY AtPlace
<1>3. req[p].row \in Nat
  BY <1>2 DEF Request
<1> QED
  BY <1>1, <1>2, <1>3, FreeRowIsThere DEF RowFor

\* Rows of subscriptions and invitations keep their type.
LEMMA RowsTypeStep ==
  ASSUME TypeOK, RequestsFit, TablesFit, [Next]_vars
  PROVE  RowsTyped' /\ IsFiniteSet(subs)' /\ IsFiniteSet(invites)'
<1>1. Frame /\ RowsTyped /\ IsFiniteSet(subs) /\ IsFiniteSet(invites)
  BY StepsFramed, TypesParted DEF TablesTyped, TablesFit
<1>2. subs' \subseteq SubRows /\ IsFiniteSet(subs')
  <2>1. CASE UNCHANGED subs
    BY <1>1, <2>1 DEF RowsTyped
  <2>2. ASSUME subs' \subseteq subs PROVE subs' \subseteq SubRows /\ IsFiniteSet(subs')
    BY <1>1, <2>2, FS_Subset DEF RowsTyped
  <2>3. ASSUME NEW p \in Procs, SubscribeCommit(p) PROVE subs' \subseteq SubRows /\ IsFiniteSet(subs')
    <3> DEFINE rows == Subscriptions(req[p].id, req[p].uid)
               n == RowFor(req[p].row, rows)
               old == {s \in subs : s \notin rows \/ s.row # n}
               new == [id |-> req[p].id, uid |-> req[p].uid, row |-> n,
                       role |-> IF req[p].op = "create" THEN "creator" ELSE "subscriber"]
    <3>1. req[p].pc = "save" /\ subs' = old \cup {new}
      BY <2>3 DEF SubscribeCommit
    <3>2. rows \subseteq subs
      BY DEF Subscriptions
    <3> HIDE DEF rows
    <3>3. n \in Nat \ {0} /\ req[p].id \in Ids /\ req[p].uid \in Clients
      BY <3>1, <3>2, SaveWrites
    <3> HIDE DEF n
    <3>4. new \in SubRows
      BY <3>3 DEF SubRows
    <3>5. old \subseteq subs
      OBVIOUS
    <3> HIDE DEF old, new
    <3>6. IsFiniteSet(old)
      BY <3>5, <1>1, FS_Subset
    <3> QED
      BY <3>1, <3>4, <3>5, <3>6, <1>1, FS_AddElement DEF RowsTyped
  <2>4. ASSUME NEW p \in Procs, Unsubscribe(p) \/ Delete(p) PROVE subs' \subseteq subs
    BY <2>4 DEF Unsubscribe, Delete, DeleteRows
  <2> QED
    BY <1>1, <2>1, <2>2, <2>3, <2>4 DEF Frame, TouchesSubs
<1>3. invites' \subseteq InviteRows /\ IsFiniteSet(invites')
  <2>1. CASE UNCHANGED invites
    BY <1>1, <2>1 DEF RowsTyped
  <2>2. ASSUME invites' \subseteq invites PROVE invites' \subseteq InviteRows /\ IsFiniteSet(invites')
    BY <1>1, <2>2, FS_Subset DEF RowsTyped
  <2>3. ASSUME NEW p \in Procs, InviteSave(p) PROVE invites' \subseteq InviteRows /\ IsFiniteSet(invites')
    <3> DEFINE rows == Invitations(req[p].id, req[p].uid)
               n == RowFor(req[p].row, rows)
               new == [id |-> req[p].id, uid |-> req[p].uid, row |-> n]
    <3>1. req[p].pc = "save" /\ invites' = invites \cup {new}
      BY <2>3 DEF InviteSave
    <3>2. rows \subseteq invites
      BY DEF Invitations
    <3> HIDE DEF rows
    <3>3. n \in Nat \ {0} /\ req[p].id \in Ids /\ req[p].uid \in Clients
      BY <3>1, <3>2, SaveWrites
    <3> HIDE DEF n
    <3>4. new \in InviteRows
      BY <3>3 DEF InviteRows
    <3> HIDE DEF new
    <3> QED
      BY <3>1, <3>4, <1>1, FS_AddElement DEF RowsTyped
  <2>4. ASSUME NEW p \in Procs, Uninvite(p) \/ Delete(p) PROVE invites' \subseteq invites
    BY <2>4 DEF Uninvite, Delete, DeleteRows
  <2> QED
    BY <1>1, <2>1, <2>2, <2>3, <2>4 DEF Frame, TouchesInvites
<1> QED
  BY <1>2, <1>3 DEF RowsTyped

\* One number more.
LEMMA OneMore ==
  \A n \in Nat : /\ n + 1 \in Nat /\ n + 1 \in 1..(n + 1) /\ 1..n \subseteq 1..(n + 1)
                 /\ n + 1 <= n + 1 /\ \A a \in 1..n : a # n + 1 /\ a <= n + 1
OBVIOUS

\* A change is written after all others.
Newest(r, m, key, type) == /\ r \notin log /\ log' = log \cup {r} /\ r.id = m /\ r.key = key /\ r.type = type
                           /\ \A c \in log' : c.at <= r.at

\* A change is entered with its type and as the newest.
LEMMA LogWrites ==
  ASSUME LogTyped, TablesFit, NEW m \in Ids, NEW key \in Contents \cup {""}, NEW type \in {"create", "add", "remove"},
         Log(m, key, type), type = "create" => key = ""
  PROVE  /\ LogTyped' /\ IsFiniteSet(log)' /\ changes' = changes + 1
         /\ (\A c, d \in log : c.at = d.at => c = d)' /\ (\A c \in log : c.type = "create" => c.key = "")'
         /\ \E r \in log' : Newest(r, m, key, type)
<1> DEFINE r == [id |-> m, key |-> key, type |-> type, at |-> changes']
<1>1. changes \in Nat /\ changes' = changes + 1 /\ log' = log \cup {r} /\ IsFiniteSet(log)
  BY DEF Log, LogTyped, TablesFit
<1>2. \A c \in log : c.at \in 1..changes
  BY DEF LogTyped, ChangeRows
<1>0. changes \in Nat /\ changes' = changes + 1
  BY <1>1
<1>3. /\ changes' \in Nat /\ changes' \in 1..changes' /\ 1..changes \subseteq 1..changes'
      /\ changes' <= changes' /\ \A a \in 1..changes : a # changes' /\ a <= changes'
  BY <1>0, OneMore
<1>4. r.id = m /\ r.key = key /\ r.type = type /\ r.at = changes'
  OBVIOUS
<1>5. r \in ChangeRows(changes')
  BY <1>3 DEF ChangeRows
<1>6. ChangeRows(changes) \subseteq ChangeRows(changes')
  BY <1>3 DEF ChangeRows
<1> HIDE DEF r
<1>7. LogTyped'
  BY <1>1, <1>3, <1>5, <1>6 DEF LogTyped
<1>8. IsFiniteSet(log')
  BY <1>1, FS_AddElement
<1>9. \A c \in log : c.at # r.at /\ c.at <= r.at
  <2> SUFFICES ASSUME NEW c \in log PROVE c.at # r.at /\ c.at <= r.at
    OBVIOUS
  <2>1. c.at \in 1..changes
    BY <1>2
  <2> QED
    BY <2>1, <1>3, <1>4
<1>10. \A c, d \in log' : c.at = d.at => c = d
  BY <1>1, <1>9 DEF TablesFit
<1>11. r.at <= r.at
  BY <1>3, <1>4
<1>12. \A c \in log' : c.at <= r.at
  BY <1>1, <1>9, <1>11
<1>13. r \notin log /\ r \in log'
  BY <1>1, <1>9
<1>14. \A c \in log' : c.type = "create" => c.key = ""
  BY <1>1, <1>4 DEF TablesFit
<1>15. Newest(r, m, key, type)
  BY <1>1, <1>4, <1>12, <1>13 DEF Newest
<1> QED
  BY <1>1, <1>7, <1>8, <1>10, <1>13, <1>14, <1>15

\* The change log keeps its type and its order.
LEMMA LogTypeStep ==
  ASSUME TypeOK, RequestsFit, TablesFit, [Next]_vars
  PROVE  /\ LogTyped' /\ IsFiniteSet(log)' /\ (\A c, d \in log : c.at = d.at => c = d)'
         /\ (\A c \in log : c.type = "create" => c.key = "")'
<1>1. Frame /\ LogTyped
  BY StepsFramed, TypesParted DEF TablesTyped
<1>2. CASE UNCHANGED <<log, changes>>
  BY <1>1, <1>2 DEF LogTyped, TablesFit
<1>3. ASSUME NEW p \in Procs, CreateCommit(p)
      PROVE  /\ LogTyped' /\ IsFiniteSet(log)' /\ (\A c, d \in log : c.at = d.at => c = d)'
             /\ (\A c \in log : c.type = "create" => c.key = "")'
  <2>1. NewId \in Ids /\ Log(NewId, "", "create")
    BY <1>3 DEF CreateCommit
  <2> HIDE DEF NewId
  <2> QED
    BY <1>1, <2>1, LogWrites
<1>4. ASSUME NEW p \in Procs, LogChange(p)
      PROVE  /\ LogTyped' /\ IsFiniteSet(log)' /\ (\A c, d \in log : c.at = d.at => c = d)'
             /\ (\A c \in log : c.type = "create" => c.key = "")'
  <2>1. req[p].pc = "log" /\ Log(req[p].id, Current(p), ChangeType(p))
    BY <1>4 DEF LogChange
  <2>2. req[p].id \in Ids /\ Current(p) \in Contents
    BY <2>1, AtContents
  <2>3. ChangeType(p) \in {"add", "remove"}
    BY DEF ChangeType
  <2> QED
    BY <1>1, <2>1, <2>2, <2>3, LogWrites
<1>5. ASSUME NEW p \in Procs, Delete(p)
      PROVE  /\ LogTyped' /\ IsFiniteSet(log)' /\ (\A c, d \in log : c.at = d.at => c = d)'
             /\ (\A c \in log : c.type = "create" => c.key = "")'
  <2>1. log' \subseteq log /\ changes' = changes
    BY <1>5 DEF Delete
  <2> QED
    BY <2>1, <1>1, FS_Subset DEF LogTyped, TablesFit
<1> QED
  BY <1>1, <1>2, <1>3, <1>4, <1>5 DEF Frame, TouchesLog
-----------------------------------------------------------------------------
\* Who is told of a change, and what a client learns.
LEMMA SubscribersTyped == ASSUME TypeOK, NEW m PROVE GetSubscribers(m) \subseteq Clients
<1>1. subs \subseteq SubRows
  BY TypesParted DEF TablesTyped, RowsTyped
<1> QED
  BY <1>1 DEF GetSubscribers, Get, Subscriptions, SubRows

\* What a client reads from the change log are contents.
LEMMA ContentsTyped ==
  ASSUME TypeOK, NEW m
  PROVE  {r.key : r \in GetChanges(m, TRUE)} \ {""} \subseteq Contents
<1>1. log \subseteq ChangeRows(changes)
  BY TypesParted DEF TablesTyped, LogTyped
<1>2. GetChanges(m, TRUE) \subseteq log
  BY DEF GetChanges, ChangesOf, Get, Changes
<1> QED
  BY <1>1, <1>2 DEF ChangeRows

\* Contents of missions keep their type.
LEMMA LinksTypeStep ==
  ASSUME TypeOK, RequestsFit, [Next]_vars
  PROVE  LinksTyped'
<1>1. Frame /\ LinksTyped
  BY StepsFramed, TypesParted DEF TablesTyped
<1>2. links' \subseteq Ids \X Contents
  <2>1. CASE UNCHANGED links
    BY <1>1, <2>1 DEF LinksTyped
  <2>2. ASSUME NEW p \in Procs, AddMissionResource(p) \/ LinkPoint(p) \/ RemoveContent(p)
        PROVE  links' \subseteq Ids \X Contents
    <3>1. req[p].id \in Ids /\ Current(p) \in Contents
      BY <2>2, AtContents DEF AddMissionResource, LinkPoint, RemoveContent
    <3>2. links' \subseteq links \cup {<<req[p].id, Current(p)>>}
      BY <2>2 DEF AddMissionResource, LinkPoint, RemoveContent, Linked, Unlinked
    <3>3. <<req[p].id, Current(p)>> \in Ids \X Contents
      BY <3>1
    <3> QED
      BY <3>2, <3>3, <1>1 DEF LinksTyped
  <2> QED
    BY <1>1, <2>1, <2>2 DEF Frame, TouchesLinks
<1>3. pointOf' \in [Points -> Scopes \cup {""}]
  <2>1. CASE UNCHANGED pointOf
    BY <1>1, <2>1 DEF LinksTyped
  <2>2. ASSUME NEW p \in Procs, SavePoint(p, req[p].new.scope) PROVE pointOf' \in [Points -> Scopes \cup {""}]
    <3>1. req[p].new \in MissionRows
      BY <2>2, AtContents DEF SavePoint
    <3>3. req[p].new.scope \in Scopes
      BY <3>1 DEF MissionRows
    <3>4. pointOf' = [pointOf EXCEPT ![Current(p)] = req[p].new.scope]
      BY <2>2 DEF SavePoint
    <3> QED
      BY <3>3, <3>4, <1>1 DEF LinksTyped
  <2> QED
    BY <1>1, <2>1, <2>2 DEF Frame, TouchesPoints
<1> QED
  BY <1>2, <1>3 DEF LinksTyped

\* Missions, points and announcements keep their type.
LEMMA OthersTypeStep ==
  ASSUME TypeOK, RequestsFit, [Next]_vars
  PROVE  OthersTyped'
<1>1. Frame /\ OthersTyped
  BY StepsFramed, TypesParted DEF TablesTyped
<1>2. announced' \subseteq Ids
  <2>1. CASE UNCHANGED announced
    BY <1>1, <2>1 DEF OthersTyped
  <2>2. ASSUME NEW p \in Procs, Announce(p) PROVE announced' \subseteq Ids
    <3>1. req[p].id \in Ids
      BY <2>2, AtPlace DEF Announce
    <3> QED
      BY <3>1, <2>2, <1>1 DEF Announce, OthersTyped
  <2> QED
    BY <1>1, <2>1, <2>2 DEF Frame
<1>3. txn' \subseteq Procs
  <2>1. \/ UNCHANGED txn
        \/ \E p \in Procs : txn' = txn \cup {p} \/ txn' = txn \ {p}
    BY <1>1 DEF Frame, TouchesTxn, Begins, CreateBegin, CreateCommit, Abort, SubscribeBegin, SubscribeCommit
  <2> QED
    BY <1>1, <2>1 DEF OthersTyped
<1>4. belief' \subseteq Ids \X Clients \X Contents
  <2>1. CASE UNCHANGED belief
    BY <1>1, <2>1 DEF OthersTyped
  <2>2. ASSUME NEW p \in Procs, Notify(p) PROVE belief' \subseteq Ids \X Clients \X Contents
    <3>1. req[p].id \in Ids /\ Current(p) \in Contents
      BY <2>2, AtContents DEF Notify
    <3>2. belief' \subseteq belief \cup ({req[p].id} \X ToldOf(p) \X {Current(p)})
      BY <2>2 DEF Notify
    <3> QED
      BY <3>1, <3>2, <1>1, SubscribersTyped DEF OthersTyped, ToldOf
  <2>3. ASSUME NEW m \in Ids, NEW u \in Clients, NEW contents \in SUBSET Contents, Learn(m, u, contents)
        PROVE  belief' \subseteq Ids \X Clients \X Contents
    BY <2>3, <1>1 DEF Learn, OthersTyped
  <2>4. CASE Reads
    <3>1. live \subseteq Ids
      BY DEF TypeOK
    <3> QED
      BY <2>3, <2>4, <3>1, ContentsTyped DEF Reads, getMissionHandler, getMissionChangesHandler
  <2> QED
    BY <1>1, <2>1, <2>2, <2>4 DEF Frame, TouchesBelief
<1> QED
  BY <1>2, <1>3, <1>4 DEF OthersTyped

\* The histories keep their type.
LEMMA GhostsTypeStep ==
  ASSUME TypeOK, RequestsFit, [Next]_vars
  PROVE  GhostsTyped'
<1>1. Frame /\ GhostsTyped
  BY StepsFramed, TypesParted DEF TablesTyped
<1>2. raced' \subseteq Ids \X Contents
  <2>1. CASE UNCHANGED raced
    BY <1>1, <2>1 DEF GhostsTyped
  <2>2. ASSUME NEW p \in Procs, AsksContents(p) PROVE raced' \subseteq Ids \X Contents
    <3>1. PICK m \in live, op \in ContentOps, todo \in Seq(Contents) \ {<<>>} : AskContents(p, op, m, todo)
      BY <2>2 DEF AsksContents
    <3>2. m \in Ids
      BY DEF TypeOK
    <3>3. ToSet(todo) \subseteq Contents
      BY DEF ToSet
    <3>4. raced' \subseteq raced \cup ({m} \X ToSet(todo))
      BY <3>1 DEF AskContents
    <3> QED
      BY <3>2, <3>3, <3>4, <1>1 DEF GhostsTyped
  <2> QED
    BY <1>1, <2>1, <2>2 DEF Frame
<1>3. broken' \subseteq Ids \X Contents /\ faults' \in 0..MaxFaults
  <2>1. CASE UNCHANGED <<broken, faults>>
    BY <1>1, <2>1 DEF GhostsTyped
  <2>2. ASSUME NEW p \in Procs, Fault(p) PROVE faults' \in 0..MaxFaults
    <3>1. MaxFaults \in Nat /\ faults \in 0..MaxFaults /\ faults < MaxFaults /\ faults' = faults + 1
      BY <2>2, <1>1, MissionsAssumption DEF MissionsAssumption, Fault, GhostsTyped
    <3> QED
      BY <3>1
  <2>3. ASSUME NEW p \in Procs, Abort(p) PROVE broken' \subseteq Ids \X Contents /\ faults' \in 0..MaxFaults
    BY <2>2, <2>3, <1>1 DEF Abort, ghosts, GhostsTyped
  <2>4. ASSUME NEW p \in Procs, PointFails(p) \/ FailsUnnoticed(p)
        PROVE  broken' \subseteq Ids \X Contents /\ faults' \in 0..MaxFaults
    <3>1. req[p].id \in Ids /\ Current(p) \in Contents
      BY <2>4, AtContents DEF PointFails, FailsUnnoticed
    <3>2. Breaks(p)
      BY <2>4 DEF PointFails, FailsUnnoticed
    <3> QED
      BY <2>2, <3>1, <3>2, <1>1 DEF Breaks, GhostsTyped
  <2> QED
    BY <1>1, <2>1, <2>3, <2>4 DEF Frame, Fails
<1>4. follows' \subseteq Ids \X Clients
  <2>1. CASE UNCHANGED follows
    BY <1>1, <2>1 DEF GhostsTyped
  <2>2. ASSUME NEW p \in Procs, Notify(p) PROVE follows' \subseteq Ids \X Clients
    <3>1. follows' \subseteq follows
      BY <2>2 DEF Notify
    <3> QED
      BY <3>1, <1>1 DEF GhostsTyped
  <2>3. CASE Reads
    <3>1. live \subseteq Ids
      BY DEF TypeOK
    <3>2. PICK m \in Ids, u \in Clients : follows' = follows \cup {<<m, u>>}
      BY <2>3, <3>1 DEF Reads, getMissionHandler, getMissionChangesHandler, Learn
    <3>3. <<m, u>> \in Ids \X Clients
      OBVIOUS
    <3> QED
      BY <3>2, <3>3, <1>1 DEF GhostsTyped
  <2> QED
    BY <1>1, <2>1, <2>2, <2>3 DEF Frame, TouchesBelief
<1>5. owing' \in [Ids -> Nat]
  <2>1. CASE UNCHANGED owing
    BY <1>1, <2>1 DEF GhostsTyped
  <2>2. ASSUME NEW p \in Procs, Delete(p) PROVE owing' \in [Ids -> Nat]
    <3>1. Pending(req[p].id) \in Nat
      BY DuesFinite
    <3>2. owing' = [owing EXCEPT ![req[p].id] = Pending(req[p].id)]
      BY <2>2 DEF Delete
    <3> QED
      BY <3>1, <3>2, <1>1 DEF GhostsTyped
  <2> QED
    BY <1>1, <2>1, <2>2 DEF Frame
<1>6. edited' \subseteq Ids \X Columns
  BY <1>1, EditEffect DEF Frame, GhostsTyped
<1> QED
  BY <1>2, <1>3, <1>4, <1>5, <1>6 DEF GhostsTyped

\* Any step keeps requests as they should be, and the ids given.
LEMMA RequestsFitStep ==
  ASSUME TypeOK, RequestsFit, IdsInOrder, [Next]_vars
  PROVE  RequestsFit' /\ GivenStay
<1>1. CASE Reads \/ UNCHANGED vars
  <2>1. UNCHANGED <<missions, edited, req>>
    BY <1>1 DEF Reads, getMissionHandler, getMissionChangesHandler, Learn, tables, vars, ghosts
  <2> QED
    BY <2>1, SameStay DEF RequestsFit, GivenSame
<1>2. CASE Edits
  BY <1>2, EditEffect
<1> QED
  BY <1>1, <1>2, Steps, RequestsStep

\* Any step keeps the types, and the tables finite.
LEMMA TypeStep ==
  ASSUME TypeOK, RequestsFit, IdsInOrder, TablesFit, [Next]_vars
  PROVE  TypeOK' /\ TablesFit'
<1>1. RequestsFit'
  BY RequestsFitStep
<1>2. TablesTyped'
  BY MissionsTypeStep, RowsTypeStep, LogTypeStep, LinksTypeStep, OthersTypeStep, GhostsTypeStep DEF TablesTyped
<1>3. TypeOK'
  <2>1. (TablesTyped /\ RequestsFit => TypeOK)'
    BY TypesParted, PTL
  <2> QED
    BY <2>1, <1>1, <1>2
<1>4. TablesFit'
  BY RowsTypeStep, LogTypeStep DEF TablesFit
<1> QED
  BY <1>3, <1>4
-----------------------------------------------------------------------------
(* Ids are given in order and never again. *)

\* The first n ids and the next one.
LEMMA OnePlaceMore ==
  ASSUME NEW n \in 0..MaxMissions, n + 1 \in Ids
  PROVE  n + 1 \in 0..MaxMissions /\ (1..n) \cup {n + 1} = 1..(n + 1)
<1>1. MaxMissions \in Nat
  BY SetFacts
<1> QED
  BY <1>1 DEF Ids

\* Ids stay in order, and nothing is written for one not given.
LEMMA IdsStep ==
  ASSUME TypeOK, RequestsFit, IdsInOrder, TablesFit, [Next]_vars
  PROVE  IdsInOrder'
<1>1. Frame /\ GivenStay
  BY StepsFramed, RequestsFitStep
<1>m. missions \in [Ids -> MissionRows \cup {None}] /\ \A m \in live : m \in Ids /\ missions[m] # None
  BY DEF TypeOK
<1>2. \E n \in 0..MaxMissions : {m \in Ids : missions'[m] # None} = 1..n
  <2>1. PICK n \in 0..MaxMissions : Given = 1..n /\ NewId = n + 1
    BY <1>m, NewIdIsFree
  <2>2. CASE UNCHANGED missions
    BY <2>1, <2>2 DEF Given
  <2>3. ASSUME NEW p \in Procs, CreateCommit(p) PROVE \E k \in 0..MaxMissions : {m \in Ids : missions'[m] # None} = 1..k
    <3>1. req[p].new # None
      BY <2>3, AtPlace, SetFacts DEF CreateCommit
    <3>2. NewId \in Ids /\ missions' = [missions EXCEPT ![NewId] = req[p].new]
      BY <2>3 DEF CreateCommit
    <3> HIDE DEF NewId
    <3>3. {m \in Ids : missions'[m] # None} = Given \cup {NewId}
      BY <3>1, <3>2, <1>m DEF Given
    <3>4. n + 1 \in 0..MaxMissions /\ (1..n) \cup {n + 1} = 1..(n + 1)
      BY <2>1, <3>2, OnePlaceMore
    <3> QED
      BY <3>3, <3>4, <2>1
  <2>4. ASSUME NEW p \in Procs, Delete(p) PROVE UNCHANGED missions
    BY <2>4 DEF Delete
  <2>5. CASE Edits
    BY <2>1, <2>5, EditEffect DEF Given
  <2> QED
    BY <1>1, <2>2, <2>3, <2>4, <2>5 DEF Frame, TouchesMissions
<1>3. ASSUME NEW m \in Ids, missions'[m] = None
      PROVE  /\ \A s \in subs' : s.id # m
             /\ \A c \in log' : c.id # m
             /\ \A c \in Contents : <<m, c>> \notin links'
             /\ \A u \in Clients, c \in Contents : <<m, u, c>> \notin belief'
  <2>1. missions[m] = None
    BY <1>1, <1>3 DEF GivenStay
  <2>2. /\ \A s \in subs : s.id # m
        /\ \A c \in log : c.id # m
        /\ \A c \in Contents : <<m, c>> \notin links
        /\ \A u \in Clients, c \in Contents : <<m, u, c>> \notin belief
    BY <2>1 DEF IdsInOrder
  <2>3. \A p \in Procs : req[p].pc \in {"subscribe", "save", "find", "announce", "statement"} => req[p].id # m
    BY <2>1, AtPlace
  <2>4. \A p \in Procs : req[p].pc \in {"contents", "link", "log", "notify"} => req[p].id # m
    BY <2>1, AtContents
  <2>5. \A s \in subs' : s.id # m
    <3>1. ASSUME NEW p \in Procs, SubscribeCommit(p) PROVE \A s \in subs' : s.id # m
      BY <3>1, <2>2, <2>3 DEF SubscribeCommit
    <3>2. ASSUME NEW p \in Procs, Unsubscribe(p) \/ Delete(p) PROVE subs' \subseteq subs
      BY <3>2 DEF Unsubscribe, Delete, DeleteRows
    <3> QED
      BY <1>1, <2>2, <3>1, <3>2 DEF Frame, TouchesSubs
  <2>6. \A c \in log' : c.id # m
    <3>1. ASSUME NEW p \in Procs, CreateCommit(p) PROVE \A c \in log' : c.id # m
      <4>1. req[p].new # None /\ NewId \in Ids /\ missions' = [missions EXCEPT ![NewId] = req[p].new]
        BY <3>1, AtPlace, SetFacts DEF CreateCommit
      <4>2. NewId # m
        BY <4>1, <1>3, <1>m
      <4>3. \A c \in log' : c \in log \/ c.id = NewId
        <5>1. Log(NewId, "", "create")
          BY <3>1 DEF CreateCommit
        <5> HIDE DEF NewId
        <5>2. \E r : r.id = NewId /\ log' = log \cup {r}
          BY <5>1 DEF Log
        <5> QED
          BY <5>2
      <4> QED
        BY <4>2, <4>3, <2>2
    <3>2. ASSUME NEW p \in Procs, LogChange(p) PROVE \A c \in log' : c.id # m
      <4>1. \A c \in log' : c \in log \/ c.id = req[p].id
        BY <3>2 DEF LogChange, Log
      <4>2. req[p].pc = "log"
        BY <3>2 DEF LogChange
      <4> QED
        BY <4>1, <4>2, <2>2, <2>4
    <3>3. ASSUME NEW p \in Procs, Delete(p) PROVE log' \subseteq log
      BY <3>3 DEF Delete
    <3> QED
      BY <1>1, <2>2, <3>1, <3>2, <3>3 DEF Frame, TouchesLog
  <2>7. \A c \in Contents : <<m, c>> \notin links'
    <3>1. ASSUME NEW p \in Procs, AddMissionResource(p) \/ LinkPoint(p) \/ RemoveContent(p)
          PROVE  links' \subseteq links \cup {<<req[p].id, Current(p)>>} /\ req[p].id # m
      BY <3>1, <2>4 DEF AddMissionResource, LinkPoint, RemoveContent, Linked, Unlinked
    <3> QED
      BY <1>1, <2>2, <3>1 DEF Frame, TouchesLinks
  <2>8. \A u \in Clients, c \in Contents : <<m, u, c>> \notin belief'
    <3>1. ASSUME NEW p \in Procs, Notify(p)
          PROVE  belief' \subseteq belief \cup ({req[p].id} \X ToldOf(p) \X {Current(p)}) /\ req[p].id # m
      BY <3>1, <2>4 DEF Notify
    <3>2. ASSUME NEW k \in live, NEW u \in Clients, NEW contents \in SUBSET Contents, Learn(k, u, contents)
          PROVE  belief' \subseteq belief \cup ({k} \X {u} \X contents) /\ k # m
      BY <3>2, <2>1, <1>m DEF Learn
    <3>3. CASE Reads
      <4>1. PICK k \in live, u \in Clients : \E contents \in SUBSET Contents : Learn(k, u, contents)
        BY <3>3, ContentsTyped DEF Reads, getMissionHandler, getMissionChangesHandler
      <4> QED
        BY <4>1, <3>2, <2>2
    <3> QED
      BY <1>1, <2>2, <3>1, <3>3 DEF Frame, TouchesBelief
  <2> QED
    BY <2>5, <2>6, <2>7, <2>8
<1> QED
  BY <1>2, <1>3 DEF IdsInOrder
-----------------------------------------------------------------------------
(* How a request goes from place to place. *)

ContentPlaces == {"contents", "link", "log", "notify"}

Moved(p) ==
  \/ req'[p] = Idle
  \/ Begins(p) /\ req'[p].pc = "new"
  \/ CreateCommit(p) /\ req'[p].pc \in {"announce", "subscribe"}
  \/ Asks(p) /\ req'[p].pc \in {"statement", "subscribe", "find"} /\ req'[p].op \notin ContentOps
  \/ SubscribeBegin(p) /\ Keeps(p) /\ req'[p].pc = "save"
  \/ InviteFind(p) /\ Keeps(p) /\ req'[p].pc = "save"
  \/ SubscribeCommit(p) /\ Keeps(p) /\ req'[p].pc = "announce"
  \/ AsksContents(p) /\ req'[p].pc = "contents"
  \/ /\ Changing(p) /\ Keeps(p)
     /\ \/ req'[p].pc \in {"link", "log", "notify"} /\ req'[p].todo = req[p].todo
        \/ req'[p].pc = "contents" /\ Len(req[p].todo) > 1 /\ req'[p].todo = Tail(req[p].todo)

\* What is left to do was to be done.
LEMMA TailSet == \A s \in Seq(Contents) : s # <<>> => ToSet(Tail(s)) \subseteq ToSet(s) /\ Head(s) \in ToSet(s)
<1> TAKE s \in Seq(Contents)
<1> HAVE s # <<>>
<1>1. Len(s) \in Nat /\ Len(s) > 0
  OBVIOUS
<1>2. Tail(s) \in Seq(Contents) /\ Len(Tail(s)) = Len(s) - 1
  BY <1>1
<1>3. \A i \in 1..Len(Tail(s)) : Tail(s)[i] = s[i + 1] /\ i + 1 \in 1..Len(s)
  BY <1>1, <1>2
<1>4. Head(s) = s[1] /\ 1 \in 1..Len(s)
  BY <1>1
<1>5. DOMAIN s = 1..Len(s) /\ DOMAIN Tail(s) = 1..Len(Tail(s))
  BY <1>2
<1> QED
  BY <1>3, <1>4, <1>5 DEF ToSet

\* How a statement about contents moves its request.
LEMMA ChangingMoves ==
  ASSUME RequestsFit, NEW p \in Procs, Changing(p)
  PROVE  Moved(p) /\ Elsewhere(p)
<1>1. /\ req \in [Procs -> Request] /\ req[p] \in Request /\ req[p].todo \in Seq(Contents)
      /\ req[p].todo # <<>> /\ Current(p) \in Contents
  <2>1. req[p].pc \in {"contents", "link", "log", "notify"}
    BY DEF Changing, Skip, AddMissionResource, RemoveContent, SavePoint, LinkPoint, PointFails, FailsUnnoticed,
           LogChange, Notify
  <2> QED
    BY <2>1, AtContents DEF RequestsFit
<1>2. \/ NextContent(p) \/ Linked(p) \/ \E pc \in {"log", "notify", "link"} : Goto(p, pc)
  BY DEF Changing, Skip, AddMissionResource, RemoveContent, SavePoint, LinkPoint, PointFails, FailsUnnoticed,
         LogChange, Notify, Unlinked
<1>3. CASE NextContent(p)
  BY <1>1, <1>3, NextEffect DEF Moved, ContentPlaces
<1>4. CASE Linked(p)
  BY <1>1, <1>4, LinkedEffect DEF Moved, ContentPlaces
<1>5. CASE \E pc \in {"log", "notify", "link"} : Goto(p, pc)
  <2>1. PICK pc \in {"log", "notify", "link"} : Goto(p, pc)
    BY <1>5
  <2>2. pc \in Places
    BY DEF Places
  <2> QED
    BY <2>1, <2>2, <1>1, GotoEffect DEF Moved, ContentPlaces
<1> QED
  BY <1>2, <1>3, <1>4, <1>5

\* How a statement about subscriptions moves its request.
LEMMA SubscribingMoves ==
  ASSUME TypeOK, RequestsFit, NEW p \in Procs, Subscribing(p)
  PROVE  Moved(p) /\ Elsewhere(p)
<1>m. req \in [Procs -> Request]
  BY DEF RequestsFit
<1>1. CASE Done(p)
  BY <1>1, <1>m, DoneEffect DEF Moved
<1>2. CASE SubscribeBegin(p) \/ InviteFind(p)
  <2>1. \E rows \in {Found(p), Invitations(req[p].id, req[p].uid)} : \E n \in One(rows) :
           req' = [req EXCEPT ![p].pc = "save", ![p].row = n]
    BY <1>2 DEF SubscribeBegin, InviteFind
  <2>2. \A rows \in {Found(p), Invitations(req[p].id, req[p].uid)} : \A n \in One(rows) : n \in Nat
    <3>1. (\A s \in subs : s.row \in Nat) /\ \A i \in invites : i.row \in Nat
      BY DEF TypeOK
    <3>2. Found(p) \subseteq subs /\ Invitations(req[p].id, req[p].uid) \subseteq invites
      BY DEF Found, Subscriptions, Invitations
    <3> QED
      BY <3>1, <3>2 DEF One
  <2>3. PICK n \in Nat : req' = [req EXCEPT ![p].pc = "save", ![p].row = n]
    BY <2>1, <2>2
  <2> QED
    BY <1>2, <2>3, <1>m, FoundEffect DEF Moved
<1>3. CASE SubscribeCommit(p) /\ ~Done(p)
  <2>1. Goto(p, "announce")
    BY <1>3 DEF SubscribeCommit
  <2>2. "announce" \in Places
    BY DEF Places
  <2> QED
    BY <1>3, <2>1, <2>2, <1>m, GotoEffect DEF Moved
<1>4. Done(p) \/ SubscribeBegin(p) \/ InviteFind(p) \/ (SubscribeCommit(p) /\ ~Done(p))
  BY DEF Subscribing, Refuse, Unsubscribe, InviteSave, Uninvite
<1> QED
  BY <1>1, <1>2, <1>3, <1>4

\* How a request moves from place to place.
LEMMA Moves ==
  ASSUME TypeOK, RequestsFit, IdsInOrder, [Next]_vars, NEW p \in Procs, req'[p] # req[p]
  PROVE  Moved(p) /\ Elsewhere(p)
<1>m. /\ missions \in [Ids -> MissionRows \cup {None}] /\ req \in [Procs -> Request]
      /\ \A m \in live : m \in Ids /\ missions[m] # None
  BY DEF TypeOK, RequestsFit
<1>1. ASSUME NEW q \in Procs, Moved(q) /\ Elsewhere(q) PROVE Moved(p) /\ Elsewhere(p)
  BY <1>1 DEF Elsewhere
<1>2. ASSUME NEW q \in Procs, Announce(q) \/ Abort(q) \/ Delete(q) PROVE Moved(q) /\ Elsewhere(q)
  <2>1. Done(q)
    BY <1>2 DEF Announce, Abort, Delete
  <2> QED
    BY <2>1, <1>m, DoneEffect DEF Moved
<1>3. ASSUME NEW q \in Procs, Begins(q) PROVE Moved(q) /\ Elsewhere(q)
  BY <1>3, <1>m, Began DEF Moved
<1>4. ASSUME NEW q \in Procs, CreateCommit(q) PROVE Moved(q) /\ Elsewhere(q)
  BY <1>4, <1>m, Committed DEF Moved
<1>5. ASSUME NEW q \in Procs, Asks(q) PROVE Moved(q) /\ Elsewhere(q)
  <2>1. PICK m \in live, op \in Ops, c \in Clients \cup {0}, pc \in Places : Asked(op, c, pc) /\ Ask(q, op, m, c, pc)
    BY <1>5 DEF Asks
  <2>2. Elsewhere(q) /\ req'[q].pc = pc /\ req'[q].op = op
    BY <2>1, <1>m, AskEffect
  <2>3. pc \in {"statement", "subscribe", "find"} /\ op \notin ContentOps
    BY <2>1 DEF Asked, ContentOps
  <2> QED
    BY <1>5, <2>2, <2>3 DEF Moved
<1>6. ASSUME NEW q \in Procs, AsksContents(q) PROVE Moved(q) /\ Elsewhere(q)
  <2>1. PICK m \in live, op \in ContentOps, todo \in Seq(Contents) \ {<<>>} : AskContents(q, op, m, todo)
    BY <1>6 DEF AsksContents
  <2>2. Elsewhere(q) /\ req'[q].pc = "contents"
    BY <2>1, <1>m, AskContentsEffect
  <2> QED
    BY <1>6, <2>2 DEF Moved
<1>7. CASE Reads \/ Edits \/ UNCHANGED vars
  BY <1>7, EditEffect DEF Reads, getMissionHandler, getMissionChangesHandler, Learn, vars
<1> QED
  BY Steps, <1>1, <1>2, <1>3, <1>4, <1>5, <1>6, <1>7, SubscribingMoves, ChangingMoves

-----------------------------------------------------------------------------
(* Who is subscribed was admitted. *)

\* What a subscription found, or did not find, is a row it may save.
LEMMA SubscribeBeginEffect ==
  ASSUME TypeOK, RequestsFit, NEW p \in Procs, SubscribeBegin(p)
  PROVE  /\ Elsewhere(p) /\ Keeps(p) /\ req'[p].pc = "save" /\ req'[p].row \in One(Found(p))
<1>1. PICK n \in One(Found(p)) : req' = [req EXCEPT ![p].pc = "save", ![p].row = n]
  BY DEF SubscribeBegin
<1>2. n \in Nat
  <2>1. \A s \in subs : s.row \in Nat
    BY DEF TypeOK
  <2>2. Found(p) \subseteq subs
    BY DEF Found, Subscriptions
  <2> QED
    BY <2>1, <2>2 DEF One
<1>3. req \in [Procs -> Request]
  BY DEF RequestsFit
<1> QED
  BY <1>1, <1>2, <1>3, FoundEffect

\* Invite has looked for the row and goes on to save it.
LEMMA InviteFindEffect ==
  ASSUME TypeOK, RequestsFit, NEW p \in Procs, InviteFind(p)
  PROVE  /\ Elsewhere(p) /\ Keeps(p) /\ req'[p].pc = "save"
<1>1. PICK n \in One(Invitations(req[p].id, req[p].uid)) : req' = [req EXCEPT ![p].pc = "save", ![p].row = n]
  BY DEF InviteFind
<1>2. n \in Nat
  <2>1. \A s \in invites : s.row \in Nat
    BY DEF TypeOK
  <2>2. Invitations(req[p].id, req[p].uid) \subseteq invites
    BY DEF Invitations
  <2> QED
    BY <2>1, <2>2 DEF One
<1>3. req \in [Procs -> Request]
  BY DEF RequestsFit
<1> QED
  BY <1>1, <1>2, <1>3, FoundEffect

\* A request reaches the save of a subscription only if it was admitted.
LEMMA AdmittedStep ==
  ASSUME TypeOK, RequestsFit, IdsInOrder, AdmittedFirst, [Next]_vars
  PROVE  AdmittedFirst'
<1> SUFFICES ASSUME NEW p \in Procs, req'[p].pc = "save", req'[p].op # "invite" PROVE Admitted(p)'
  BY DEF AdmittedFirst
<1>1. CASE req'[p] = req[p]
  BY <1>1 DEF AdmittedFirst, Admitted
<1>2. CASE req'[p] # req[p]
  <2>1. Moved(p)
    BY <1>2, Moves
  <2>2. SubscribeBegin(p) /\ Keeps(p)
    <3>1. ~InviteFind(p) \/ ~Keeps(p)
      BY DEF InviteFind, Keeps
    <3> QED
      BY <2>1, <3>1, IdleFields DEF Moved, ContentPlaces
  <2> QED
    BY <2>2 DEF SubscribeBegin, Admitted, Keeps
<1> QED
  BY <1>1, <1>2

\* Only who was admitted is subscribed.
LEMMA SubscribersStep ==
  ASSUME TypeOK, RequestsFit, IdsInOrder, TablesFit, AdmittedFirst, SubscribersAdmitted, [Next]_vars
  PROVE  SubscribersAdmitted'
<1>1. Frame /\ GivenStay /\ IdsInOrder'
  BY StepsFramed, RequestsFitStep, IdsStep
<1> SUFFICES ASSUME NEW s \in subs', s.id \in live', edited' \cap ({s.id} \X {"kind", "creator"}) = {}
             PROVE  CASE missions'[s.id].kind = "invite only" -> s.uid = missions'[s.id].creator
                      [] missions'[s.id].kind = "password" -> s.uid \in Trusted \cup {missions'[s.id].creator}
                      [] OTHER -> TRUE
  BY DEF SubscribersAdmitted
<1>u. <<s.id, "kind">> \notin edited' /\ <<s.id, "creator">> \notin edited' /\ {"kind", "creator"} \subseteq Columns
  BY DEF Columns
<1>2. CASE s \in subs
  <2>1. s.id \in Ids /\ missions[s.id] # None
    BY <1>2 DEF TypeOK, IdsInOrder
  <2>2. /\ missions'[s.id].kind = missions[s.id].kind /\ missions'[s.id].creator = missions[s.id].creator
        /\ edited \subseteq edited'
    BY <1>1, <1>u, <2>1 DEF GivenStay, Agrees
  <2>3. s.id \in live
    <3>1. ASSUME NEW p \in Procs, CreateCommit(p), s.id \notin live PROVE FALSE
      <4>1. s.id = NewId /\ NewId \in Ids
        BY <3>1 DEF CreateCommit
      <4>2. missions[NewId] = None
        BY <4>1, NewIdIsFree DEF TypeOK
      <4> QED
        BY <4>1, <4>2, <2>1
    <3>2. ASSUME NEW p \in Procs, Delete(p) PROVE s.id \in live
      BY <3>2 DEF Delete
    <3> QED
      BY <1>1, <3>1, <3>2, EditEffect DEF Frame, TouchesMissions
  <2> QED
    BY <1>2, <2>2, <2>3 DEF SubscribersAdmitted
<1>3. CASE s \notin subs
  <2>1. PICK p \in Procs : SubscribeCommit(p)
    BY <1>1, <1>3 DEF Frame, TouchesSubs, Unsubscribe, Delete, DeleteRows
  <2>2. s.id = req[p].id /\ s.uid = req[p].uid /\ UNCHANGED <<missions, edited>>
    BY <2>1, <1>3 DEF SubscribeCommit, ghosts
  <2>3. /\ req[p].new.kind = missions[s.id].kind /\ req[p].new.creator = missions[s.id].creator
        /\ req[p].op = "create" => req[p].uid = req[p].new.creator
    <3>1. Agrees(req[p].id, req[p].new, missions, edited) /\ (req[p].op = "create" => req[p].uid = req[p].new.creator)
      BY <2>1, AtPlace DEF SubscribeCommit
    <3> QED
      BY <2>2, <3>1, <1>u DEF Agrees
  <2>4. Admitted(p)
    BY <2>1 DEF SubscribeCommit, AdmittedFirst
  <2>5. \/ req[p].uid = missions[s.id].creator
        \/ missions[s.id].kind = "open"
        \/ missions[s.id].kind = "password" /\ req[p].uid \in Trusted
    BY <2>2, <2>3, <2>4 DEF Admitted
  <2> QED
    BY <2>2, <2>5
<1> QED
  BY <1>2, <1>3

-----------------------------------------------------------------------------
(* Transactions. *)

\* A request is inside a transaction in the places where it is.
LEMMA TransactionsStep ==
  ASSUME TypeOK, RequestsFit, IdsInOrder, TransactionsKnown, [Next]_vars
  PROVE  TransactionsKnown'
<1>m. missions \in [Ids -> MissionRows \cup {None}] /\ req \in [Procs -> Request]
  BY DEF TypeOK, RequestsFit
<1>t. txn = {p \in Procs : InTransaction(p)}
  BY DEF TransactionsKnown
<1>s. \A q \in Procs : req'[q] = req[q] => (InTransaction(q)' <=> InTransaction(q))
  BY DEF InTransaction
<1>i. \A q \in Procs : req'[q] = Idle => ~InTransaction(q)'
  BY IdleFields DEF InTransaction
<1> SUFFICES txn' = {p \in Procs : InTransaction(p)'}
  BY DEF TransactionsKnown
<1>1. ASSUME NEW p \in Procs, Elsewhere(p), NEW b \in BOOLEAN, InTransaction(p)' <=> b,
             txn' = IF b THEN txn \cup {p} ELSE txn \ {p}
      PROVE  txn' = {q \in Procs : InTransaction(q)'}
  BY <1>1, <1>s, <1>t DEF Elsewhere
<1>2. ASSUME NEW p \in Procs, Elsewhere(p), ~InTransaction(p), ~InTransaction(p)', UNCHANGED txn
      PROVE  txn' = {q \in Procs : InTransaction(q)'}
  BY <1>2, <1>s, <1>t DEF Elsewhere
<1>3. ASSUME NEW p \in Procs, Begins(p) PROVE txn' = {q \in Procs : InTransaction(q)'}
  <2>1. Elsewhere(p) /\ InTransaction(p)' /\ txn' = txn \cup {p}
    BY <1>3, <1>m, Began DEF InTransaction
  <2> QED
    BY <2>1, <1>1
<1>4. ASSUME NEW p \in Procs, CreateCommit(p) PROVE txn' = {q \in Procs : InTransaction(q)'}
  <2>1. Elsewhere(p) /\ ~InTransaction(p)' /\ txn' = txn \ {p}
    BY <1>4, <1>m, Committed DEF InTransaction
  <2> QED
    BY <2>1, <1>1
<1>5. ASSUME NEW p \in Procs, Abort(p) PROVE txn' = {q \in Procs : InTransaction(q)'}
  <2>1. Elsewhere(p) /\ ~InTransaction(p)' /\ txn' = txn \ {p}
    BY <1>5, <1>m, <1>i, DoneEffect DEF Abort
  <2> QED
    BY <2>1, <1>1
<1>6. ASSUME NEW p \in Procs, SubscribeBegin(p) PROVE txn' = {q \in Procs : InTransaction(q)'}
  <2>1. Elsewhere(p) /\ Moved(p) /\ req[p].pc = "subscribe" /\ txn' = txn \cup {p}
    BY <1>6, SubscribingMoves DEF Subscribing, SubscribeBegin
  <2>2. req[p].op \in {"create", "subscribe"}
    BY <2>1, AtPlace
  <2>3. req'[p].pc = "save" /\ req'[p].op = req[p].op
    BY <1>6, <2>1, SubscribeBeginEffect DEF Keeps
  <2>4. InTransaction(p)'
    BY <2>2, <2>3 DEF InTransaction
  <2> QED
    BY <2>1, <2>4, <1>1
<1>7. ASSUME NEW p \in Procs, SubscribeCommit(p) PROVE txn' = {q \in Procs : InTransaction(q)'}
  <2>1. req[p].pc = "save" /\ txn' = txn \ {p}
    BY <1>7 DEF SubscribeCommit
  <2>2. Done(p) \/ Goto(p, "announce")
    BY <1>7 DEF SubscribeCommit
  <2>3. Elsewhere(p) /\ ~InTransaction(p)'
    <3>1. "announce" \in Places
      BY DEF Places
    <3> QED
      BY <2>2, <3>1, <1>m, <1>i, DoneEffect, GotoEffect DEF InTransaction
  <2> QED
    BY <2>1, <2>3, <1>1
<1>8. ASSUME NEW p \in Procs, \/ Announce(p) \/ Asks(p) \/ Delete(p) \/ Refuse(p) \/ Unsubscribe(p) \/ InviteFind(p)
                              \/ InviteSave(p) \/ Uninvite(p) \/ AsksContents(p) \/ Changing(p)
      PROVE  txn' = {q \in Procs : InTransaction(q)'}
  <2>1. UNCHANGED txn
    BY <1>8, ContentsFit, <1>m DEF Announce, Asks, Ask, Delete, Refuse, Unsubscribe, InviteFind, InviteSave, Uninvite,
       AsksContents, AskContents
  <2>2. ~InTransaction(p)
    <3>1. CASE \/ Announce(p) \/ Asks(p) \/ Delete(p) \/ Refuse(p) \/ Unsubscribe(p) \/ InviteFind(p)
               \/ InviteSave(p) \/ Uninvite(p) \/ AsksContents(p)
      BY <3>1, AtPlace DEF Announce, Asks, Ask, Delete, Refuse, Unsubscribe, InviteFind, InviteSave, Uninvite,
         AsksContents, AskContents, Idling, InTransaction
    <3>2. CASE Changing(p)
      BY <3>2 DEF Changing, Skip, AddMissionResource, RemoveContent, SavePoint, LinkPoint, PointFails, FailsUnnoticed,
         LogChange, Notify, InTransaction
    <3> QED
      BY <1>8, <3>1, <3>2
  <2>3. Elsewhere(p)
    BY <1>8, RequestsStep DEF Subscribing
  <2>4. ~InTransaction(p)'
    <3>1. CASE req'[p] = req[p]
      BY <3>1, <2>2, <1>s
    <3>2. CASE req'[p] # req[p]
      <4>1. Moved(p)
        BY <3>2, Moves
      <4>2. ~Begins(p) /\ ~CreateCommit(p) /\ ~SubscribeBegin(p) /\ ~SubscribeCommit(p)
        <5>1. ~CreateCommit(p) /\ ~SubscribeCommit(p)
          BY <2>2 DEF InTransaction, CreateCommit, SubscribeCommit
        <5>2. Begins(p) \/ SubscribeBegin(p) => p \in txn'
          BY <1>m, Began DEF SubscribeBegin
        <5> QED
          BY <5>1, <5>2, <2>1, <2>2, <1>t
      <4> QED
        BY <4>1, <4>2, <1>i DEF Moved, InTransaction, InviteFind, Keeps, ContentPlaces
    <3> QED
      BY <3>1, <3>2
  <2> QED
    BY <2>1, <2>2, <2>3, <2>4, <1>2
<1>9. CASE Reads \/ Edits \/ UNCHANGED vars
  BY <1>9, <1>s, <1>t, EditEffect DEF Reads, InTransaction, getMissionHandler, getMissionChangesHandler, Learn, vars
<1> QED
  BY Steps, <1>3, <1>4, <1>5, <1>6, <1>7, <1>8, <1>9 DEF Subscribing
\* With one transaction at a time, what it found holds until it commits.
LEMMA FoundStep ==
  ASSUME TypeOK, RequestsFit, IdsInOrder, TablesFit, TransactionsKnown, FoundHolds, [Next]_vars
  PROVE  FoundHolds'
<1>m. missions \in [Ids -> MissionRows \cup {None}] /\ req \in [Procs -> Request] /\ live \subseteq Ids
  BY DEF TypeOK, RequestsFit
<1>f. Frame /\ GivenStay /\ TransactionsKnown'
  BY StepsFramed, RequestsFitStep, TransactionsStep
<1>t. txn = {p \in Procs : InTransaction(p)} /\ txn' = {p \in Procs : InTransaction(p)'}
  BY <1>f DEF TransactionsKnown
<1> SUFFICES ASSUME Serializable PROVE FoundHolds'
  BY DEF FoundHolds
<1>h. /\ \A p, q \in txn : p = q
      /\ \A p \in Procs : req[p].pc = "new" => MissionQuery({req[p].new.scope}, req[p].new.name) = {}
      /\ \A p \in Procs : req[p].pc = "save" /\ req[p].op # "invite" => req[p].row \in One(Found(p))
      /\ OneMissionPerName /\ OneSubscription
  BY DEF FoundHolds
<1>o. \A p \in Procs : MayWrite(p) => txn \subseteq {p}
  BY DEF MayWrite
\* Nobody commits while p is in a transaction but p, and nobody else writes.
<1>w. ASSUME NEW p \in Procs, InTransaction(p), req'[p] = req[p]
      PROVE  UNCHANGED subs /\ UNCHANGED missions /\ live' \subseteq live
  <2>1. p \in txn
    BY <1>w, <1>t
  <2>2. ASSUME NEW q \in Procs, CreateCommit(q) PROVE FALSE
    <3>1. q \in txn /\ req'[q].pc # "new" /\ req[q].pc = "new"
      BY <2>2, <1>m, <1>t, Committed DEF InTransaction
    <3> QED
      BY <3>1, <2>1, <1>h, <1>w
  <2>3. ASSUME NEW q \in Procs, SubscribeCommit(q) PROVE FALSE
    <3>1. q \in txn /\ req[q].pc = "save" /\ (Done(q) \/ Goto(q, "announce"))
      BY <2>3, <1>t DEF SubscribeCommit, InTransaction
    <3>2. req'[q].pc # "save"
      <4>1. "announce" \in Places
        BY DEF Places
      <4> QED
        BY <3>1, <4>1, <1>m, DoneEffect, GotoEffect, IdleFields
    <3> QED
      BY <3>1, <3>2, <2>1, <1>h, <1>w
  <2>4. ASSUME NEW q \in Procs, Unsubscribe(q) PROVE FALSE
    <3>1. txn \subseteq {q} /\ req[q].pc = "statement"
      BY <2>4, <1>o, AtPlace DEF Unsubscribe
    <3> QED
      BY <3>1, <2>1, <1>t DEF InTransaction
  <2>5. ASSUME NEW q \in Procs, Delete(q) PROVE FALSE
    <3>1. txn \subseteq {q} /\ req[q].pc = "statement"
      BY <2>5, <1>o, AtPlace DEF Delete
    <3> QED
      BY <3>1, <2>1, <1>t DEF InTransaction
  <2>6. ~Edits
    BY <2>1, EditEffect
  <2> QED
    BY <1>f, <2>2, <2>3, <2>4, <2>5, <2>6 DEF Frame, TouchesMissions, TouchesSubs
<1>n. ASSUME NEW p \in Procs, InTransaction(p)', req'[p] # req[p]
      PROVE  /\ Begins(p) \/ SubscribeBegin(p)
             /\ MayWrite(p) /\ UNCHANGED <<subs, missions, live>>
  <2>1. (Moved(p) /\ ~SubscribeCommit(p)) \/ Begins(p)
    <3>1. Moved(p)
      BY <1>n, Moves
    <3>2. ASSUME SubscribeCommit(p) PROVE FALSE
      <4>1. (Done(p) \/ Goto(p, "announce")) /\ "announce" \in Places
        BY <3>2 DEF SubscribeCommit, Places
      <4> QED
        BY <4>1, <1>n, <1>m, DoneEffect, GotoEffect, IdleFields DEF InTransaction
    <3> QED
      BY <3>1, <3>2
  <2>2. Begins(p) \/ SubscribeBegin(p)
    BY <2>1, <1>n, IdleFields DEF Moved, InTransaction, InviteFind, Keeps, ContentPlaces
  <2> QED
    BY <2>2, <1>m, Began DEF SubscribeBegin, tables
<1>1. \A p, q \in txn' : p = q
  <2>1. ASSUME NEW p \in txn', NEW q \in txn', p \notin txn PROVE p = q
    <3>1. p \in Procs /\ InTransaction(p)' /\ ~InTransaction(p)
      BY <2>1, <1>t
    <3>2. req'[p] # req[p]
      BY <3>1 DEF InTransaction
    <3>3. txn \subseteq {p}
      BY <3>1, <3>2, <1>n, <1>o
    <3>4. CASE q \in txn
      BY <3>3, <3>4
    <3>5. CASE q \notin txn
      <4>1. q \in Procs /\ InTransaction(q)' /\ ~InTransaction(q)
        BY <3>5, <1>t
      <4>2. req'[q] # req[q]
        BY <4>1 DEF InTransaction
      <4>3. Elsewhere(p)
        BY <3>1, <3>2, Moves
      <4> QED
        BY <4>1, <4>2, <4>3 DEF Elsewhere
    <3> QED
      BY <3>4, <3>5
  <2> QED
    BY <2>1, <1>h
<1>2. ASSUME NEW p \in Procs, req'[p].pc = "new" PROVE MissionQuery({req[p].new.scope}, req[p].new.name)' = {}
  <2>1. CASE req'[p] = req[p]
    <3>1. InTransaction(p)
      BY <1>2, <2>1 DEF InTransaction
    <3>2. UNCHANGED missions /\ live' \subseteq live
      BY <2>1, <3>1, <1>w
    <3>3. MissionQuery({req[p].new.scope}, req[p].new.name) = {}
      BY <1>2, <2>1, <1>h
    <3> QED
      BY <2>1, <3>2, <3>3 DEF MissionQuery
  <2>2. CASE req'[p] # req[p]
    <3>1. InTransaction(p)'
      BY <1>2 DEF InTransaction
    <3>2. Begins(p)
      BY <1>2, <2>2, <3>1, <1>n, SubscribeBeginEffect
    <3>3. MissionQuery({req'[p].new.scope}, req'[p].new.name) = {} /\ UNCHANGED <<missions, live>>
      BY <3>2, <1>m, Began DEF tables
    <3> QED
      BY <3>3 DEF MissionQuery
  <2> QED
    BY <2>1, <2>2
<1>3. ASSUME NEW p \in Procs, req'[p].pc = "save", req'[p].op # "invite" PROVE req'[p].row \in One(Found(p))'
  <2>1. InTransaction(p)'
    BY <1>3 DEF InTransaction
  <2>2. CASE req'[p] = req[p]
    <3>1. UNCHANGED subs
      BY <2>1, <2>2, <1>w DEF InTransaction
    <3>2. req[p].row \in One(Found(p))
      BY <1>3, <2>2, <1>h
    <3> QED
      BY <2>2, <3>1, <3>2 DEF One, Found, Subscriptions
  <2>3. CASE req'[p] # req[p]
    <3>1. SubscribeBegin(p) /\ UNCHANGED subs
      BY <2>1, <2>3, <1>3, <1>n, <1>m, Began
    <3>2. Keeps(p) /\ req'[p].row \in One(Found(p))
      BY <3>1, SubscribeBeginEffect
    <3> QED
      BY <3>1, <3>2 DEF One, Found, Subscriptions, Keeps
  <2> QED
    BY <2>2, <2>3
<1>4. OneMissionPerName'
  <2>2. ASSUME NEW p \in Procs, CreateCommit(p) PROVE OneMissionPerName'
    <3>1. /\ missions'[NewId] = req[p].new /\ live' = live \cup {NewId} /\ req[p].pc = "new"
          /\ missions' = [missions EXCEPT ![NewId] = req[p].new] /\ missions[NewId] = None
      BY <2>2, <1>m, Committed
    <3>2. \A k \in live : ~(missions[k].scope = req[p].new.scope /\ missions[k].name = req[p].new.name)
      BY <3>1, <1>h DEF MissionQuery
    <3>3. edited' = edited /\ \A k \in live : missions'[k] = missions[k]
      <4>1. NewId \notin live /\ edited' = edited
        BY <2>2, <3>1 DEF TypeOK, CreateCommit, ghosts
      <4> QED
        BY <3>1, <4>1, <1>m
    <3> HIDE DEF NewId
    <3> QED
      BY <3>1, <3>2, <3>3, <1>h DEF OneMissionPerName
  <2>3. ASSUME NEW p \in Procs, Delete(p) PROVE OneMissionPerName'
    BY <2>3, <1>h DEF OneMissionPerName, Delete
  <2>4. CASE UNCHANGED <<missions, live>> \/ Edits
    <3>1. /\ UNCHANGED live /\ edited \subseteq edited'
          /\ \A m \in live : Agrees(m, missions[m], missions', edited')
      BY <2>4, <1>m, <1>f, EditEffect DEF GivenStay, TypeOK
    <3> SUFFICES ASSUME NEW m \in live, NEW k \in live, edited' \cap ({m, k} \X {"scope", "name"}) = {},
                        missions'[m].scope = missions'[k].scope, missions'[m].name = missions'[k].name
                 PROVE  m = k
      BY <3>1 DEF OneMissionPerName
    <3>2. \A i \in {m, k}, c \in {"scope", "name"} : <<i, c>> \notin edited'
      OBVIOUS
    <3>3. \A i \in {m, k} : missions'[i].scope = missions[i].scope /\ missions'[i].name = missions[i].name
      BY <3>1, <3>2 DEF Agrees, Columns
    <3>4. edited \cap ({m, k} \X {"scope", "name"}) = {}
      BY <3>1
    <3> QED
      BY <3>3, <3>4, <1>h DEF OneMissionPerName
  <2> QED
    BY <1>f, <2>2, <2>3, <2>4 DEF Frame, TouchesMissions
<1>5. OneSubscription'
  <2>1. ASSUME subs' \subseteq subs PROVE OneSubscription'
    BY <2>1, <1>h DEF OneSubscription
  <2>2. ASSUME NEW p \in Procs, SubscribeCommit(p) PROVE OneSubscription'
    <3> DEFINE rows == Subscriptions(req[p].id, req[p].uid)
               n == RowFor(req[p].row, rows)
               row == [id |-> req[p].id, uid |-> req[p].uid, row |-> n,
                       role |-> IF req[p].op = "create" THEN "creator" ELSE "subscriber"]
    <3>1. /\ req[p].pc = "save" /\ req[p].op # "invite"
          /\ \E new : /\ subs' = {s \in subs : s \notin rows \/ s.row # n} \cup {new}
                      /\ new.id = req[p].id /\ new.uid = req[p].uid
      <4>1. subs' = {s \in subs : s \notin rows \/ s.row # n} \cup {row}
        BY <2>2 DEF SubscribeCommit
      <4>2. row.id = req[p].id /\ row.uid = req[p].uid
        OBVIOUS
      <4>3. req[p].pc = "save" /\ req[p].op # "invite"
        BY <2>2 DEF SubscribeCommit
      <4> HIDE DEF row
      <4> QED
        BY <4>1, <4>2, <4>3
    <3> HIDE DEF row
    <3>2. req[p].uid # 0
      BY <3>1, AtPlace, SetFacts
    <3>3. rows = {s \in subs : s.id = req[p].id /\ s.uid = req[p].uid}
      BY <3>2 DEF Subscriptions
    <3>4. req[p].row \in One(rows)
      BY <3>1, <1>h DEF Found
    <3>5. \A s \in rows : s.row = n
      <4> SUFFICES ASSUME NEW s \in rows PROVE s.row = n
        OBVIOUS
      <4>1. \A r \in rows : r = s
        BY <3>3, <1>h DEF OneSubscription
      <4>2. req[p].row = s.row
        BY <3>4, <4>1 DEF One
      <4>3. s.row # 0
        BY <3>3 DEF TypeOK
      <4> QED
        BY <4>2, <4>3 DEF RowFor
    <3> HIDE DEF n, rows
    <3>6. \A s \in subs' : (s \in subs /\ s \notin rows) \/ (s.id = req[p].id /\ s.uid = req[p].uid)
      BY <3>1, <3>5
    <3>7. \A s, t \in subs' : s.id = req[p].id /\ s.uid = req[p].uid /\ t.id = req[p].id /\ t.uid = req[p].uid => s = t
      BY <3>1, <3>3, <3>5
    <3> QED
      BY <3>3, <3>6, <3>7, <1>h DEF OneSubscription
  <2>3. ASSUME NEW p \in Procs, Unsubscribe(p) \/ Delete(p) PROVE subs' \subseteq subs
    BY <2>3 DEF Unsubscribe, Delete, DeleteRows
  <2> QED
    BY <1>f, <2>1, <2>2, <2>3 DEF Frame, TouchesSubs
<1> QED
  BY <1>1, <1>2, <1>3, <1>4, <1>5 DEF FoundHolds
-----------------------------------------------------------------------------
(* What is left of a deleted mission. *)

\* A set with one element more.
LEMMA OneMoreElement ==
  ASSUME NEW X, IsFiniteSet(X), NEW x, NEW Y, Y \subseteq X \cup {x}
  PROVE  Cardinality(X) \in Nat /\ Cardinality(Y) \in Nat /\ Cardinality(Y) <= Cardinality(X) + 1
<1> DEFINE Z == X \cup {x}
<1>1. Cardinality(X) \in Nat
  BY FS_CardinalityType
<1>2. IsFiniteSet(Z) /\ (Cardinality(Z) = Cardinality(X) \/ Cardinality(Z) = Cardinality(X) + 1)
  BY FS_AddElement
<1> HIDE DEF Z
<1>3. Y \subseteq Z
  BY DEF Z
<1>4. Cardinality(Y) <= Cardinality(Z) /\ Cardinality(Y) \in Nat
  BY <1>2, <1>3, FS_Subset, FS_CardinalityType
<1> QED
  BY <1>1, <1>2, <1>4

\* A set with one element less.
LEMMA OneElementLess ==
  ASSUME NEW X, IsFiniteSet(X), NEW x \in X, NEW Y, Y \subseteq X \ {x}
  PROVE  Cardinality(X) \in Nat /\ Cardinality(Y) \in Nat /\ Cardinality(Y) + 1 <= Cardinality(X)
<1> DEFINE Z == X \ {x}
<1>1. Cardinality(X) \in Nat /\ IsFiniteSet(Z) /\ Cardinality(Z) = Cardinality(X) - 1
  BY FS_CardinalityType, FS_RemoveElement
<1> HIDE DEF Z
<1>2. Y \subseteq Z
  BY DEF Z
<1>3. Cardinality(Y) <= Cardinality(Z) /\ Cardinality(Y) \in Nat /\ Cardinality(Z) \in Nat
  BY <1>1, <1>2, FS_Subset, FS_CardinalityType
<1> QED
  BY <1>1, <1>3

\* A part of a finite set.
LEMMA FewerElements ==
  ASSUME NEW X, IsFiniteSet(X), NEW Y, Y \subseteq X
  PROVE  Cardinality(X) \in Nat /\ Cardinality(Y) \in Nat /\ Cardinality(Y) <= Cardinality(X)
BY FS_Subset, FS_CardinalityType

\* The rows due can be counted, for every mission.
LEMMA DuesFiniteAll ==
  /\ RequestsFit => \A m \in Ids : IsFiniteSet(Dues(m)) /\ Pending(m) = Cardinality(Dues(m)) /\ Pending(m) \in Nat
  /\ RequestsFit => \A q \in Procs : Owes(q) \in Nat
BY DuesFinite, OwesIsNat

\* The same in the next state.
LEMMA DuesFiniteNext ==
  /\ (RequestsFit => \A m \in Ids : IsFiniteSet(Dues(m)) /\ Pending(m) = Cardinality(Dues(m)) /\ Pending(m) \in Nat)'
  /\ (RequestsFit => \A q \in Procs : Owes(q) \in Nat)'
BY DuesFiniteAll, PTL

\* A request that owes no more than before adds nothing to what is due.
LEMMA DuesShrink ==
  ASSUME NEW p \in Procs, Elsewhere(p), NEW m \in Ids,
         Owes(p) \in Nat, Owes(p)' \in Nat,
         req'[p].id = m => req[p].id = m /\ Owes(p)' <= Owes(p)
  PROVE  Dues(m)' \subseteq Dues(m)
<1>1. \A q \in Procs \ {p} : Owes(q)' = Owes(q) /\ req'[q] = req[q]
  BY DEF Owes, Elsewhere
<1>2. req'[p].id = m => 1..Owes(p)' \subseteq 1..Owes(p)
  OBVIOUS
<1> QED
  BY <1>1, <1>2 DEF Dues

\* A request that owes less than before takes one row from what is due.
LEMMA DuesLess ==
  ASSUME NEW p \in Procs, Elsewhere(p), NEW m \in Ids, req[p].id = m,
         Owes(p) \in Nat, Owes(p)' \in Nat, Owes(p) # 0,
         req'[p].id = m => Owes(p)' < Owes(p)
  PROVE  <<p, Owes(p)>> \in Dues(m) /\ Dues(m)' \subseteq Dues(m) \ {<<p, Owes(p)>>}
<1>1. \A q \in Procs \ {p} : Owes(q)' = Owes(q) /\ req'[q] = req[q]
  BY DEF Owes, Elsewhere
<1>2. req'[p].id = m => 1..Owes(p)' \subseteq (1..Owes(p)) \ {Owes(p)}
  OBVIOUS
<1>3. Owes(p) \in 1..Owes(p)
  OBVIOUS
<1> QED
  BY <1>1, <1>2, <1>3 DEF Dues

\* What is owed at a place.
OwedBy(r) == CASE r.pc \in {"subscribe", "find", "save"} -> 1
               [] r.op \in ContentOps -> Len(r.todo) - (IF r.pc = "notify" THEN 1 ELSE 0)
               [] OTHER -> 0

\* What a request owes depends on nothing but the request.
LEMMA OwesIsOwed == \A p \in Procs : Owes(p) = OwedBy(req[p]) /\ Owes(p)' = OwedBy(req'[p])
BY DEF Owes, OwedBy

\* Nothing taken away.
LEMMA Zero == \A n \in Nat : n - 0 = n
OBVIOUS

\* What a request for contents owes in each of its places.
LEMMA OwedAt ==
  ASSUME NEW r \in Request, r.op \in ContentOps, r.pc \in ContentPlaces
  PROVE  /\ r.pc = "notify" => OwedBy(r) = Len(r.todo) - 1
         /\ r.pc # "notify" => OwedBy(r) = Len(r.todo)
         /\ Len(r.todo) \in Nat /\ (Len(r.todo) > 1 => Len(Tail(r.todo)) = Len(r.todo) - 1)
<1>1. r.todo \in Seq(Contents)
  BY DEF Request
<1>2. Len(r.todo) \in Nat
  BY <1>1
<1>3. Len(r.todo) - 0 = Len(r.todo)
  BY <1>2, Zero
<1>4. Len(r.todo) > 1 => Len(Tail(r.todo)) = Len(r.todo) - 1
  BY <1>1, <1>2
<1> QED
  BY <1>2, <1>3, <1>4 DEF OwedBy, ContentPlaces

\* Adding and removing contents never owes more than before, and less after a change was written.
LEMMA ContentOwes ==
  ASSUME RequestsFit, NEW p \in Procs, Changing(p), req'[p] # Idle
  PROVE  Keeps(p) /\ Owes(p)' <= Owes(p) /\ (LogChange(p) => Owes(p)' < Owes(p))
<1>1. /\ req \in [Procs -> Request] /\ req[p] \in Request /\ req[p].op \in ContentOps /\ req[p].pc \in ContentPlaces
      /\ req[p].todo # <<>> /\ Current(p) \in Contents
  <2>1. req[p].pc \in {"contents", "link", "log", "notify"}
    BY DEF Changing, Skip, AddMissionResource, RemoveContent, SavePoint, LinkPoint, PointFails, FailsUnnoticed,
           LogChange, Notify
  <2> QED
    BY <2>1, AtContents DEF RequestsFit, ContentPlaces
<1>2. \/ NextContent(p) /\ ~LogChange(p)
      \/ (Linked(p) \/ Goto(p, "log") \/ Goto(p, "link")) /\ req[p].pc \in {"contents", "link"} /\ ~LogChange(p)
      \/ Goto(p, "notify") /\ req[p].pc = "log"
  <2>1. req[p].pc = "log" \/ ~LogChange(p)
    BY DEF LogChange
  <2>2. CASE Skip(p) \/ PointFails(p) \/ Notify(p)
    BY <2>1, <2>2 DEF Skip, PointFails, Notify
  <2>3. CASE AddMissionResource(p) \/ RemoveContent(p) \/ LinkPoint(p)
    BY <2>1, <2>3 DEF AddMissionResource, RemoveContent, LinkPoint, Unlinked
  <2>4. CASE SavePoint(p, req[p].new.scope)
    BY <2>1, <2>4 DEF SavePoint
  <2>5. CASE FailsUnnoticed(p)
    BY <2>1, <2>5 DEF FailsUnnoticed
  <2>6. CASE LogChange(p)
    BY <2>6 DEF LogChange
  <2> QED
    BY <2>2, <2>3, <2>4, <2>5, <2>6 DEF Changing
<1>3. Owes(p) = OwedBy(req[p]) /\ Owes(p)' = OwedBy(req'[p])
  BY OwesIsOwed
<1>4. /\ req[p].pc = "notify" => OwedBy(req[p]) = Len(req[p].todo) - 1
      /\ req[p].pc # "notify" => OwedBy(req[p]) = Len(req[p].todo)
      /\ Len(req[p].todo) \in Nat /\ (Len(req[p].todo) > 1 => Len(Tail(req[p].todo)) = Len(req[p].todo) - 1)
  BY <1>1, OwedAt
<1>5. ASSUME Keeps(p), Elsewhere(p), req'[p].pc \in ContentPlaces
      PROVE  /\ req'[p].pc = "notify" => OwedBy(req'[p]) = Len(req'[p].todo) - 1
             /\ req'[p].pc # "notify" => OwedBy(req'[p]) = Len(req'[p].todo)
  <2>1. req'[p] \in Request /\ req'[p].op \in ContentOps
    BY <1>1, <1>5 DEF Keeps, Elsewhere
  <2> QED
    BY <2>1, <1>5, OwedAt
<1>6. CASE NextContent(p) /\ ~LogChange(p)
  <2>1. /\ Elsewhere(p) /\ Keeps(p) /\ req'[p].pc = "contents" /\ Len(req[p].todo) > 1
        /\ req'[p].todo = Tail(req[p].todo)
    BY <1>1, <1>6, NextEffect
  <2>2. OwedBy(req'[p]) = Len(req[p].todo) - 1
    BY <2>1, <1>5, <1>4 DEF ContentPlaces
  <2>3. OwedBy(req[p]) = Len(req[p].todo) - 1 \/ OwedBy(req[p]) = Len(req[p].todo)
    BY <1>4
  <2>4. OwedBy(req'[p]) <= OwedBy(req[p])
    <3>1. Len(req[p].todo) \in Nat
      BY <1>4
    <3> QED
      BY <2>2, <2>3, <3>1
  <2> QED
    BY <2>1, <2>4, <1>3, <1>6
<1>7. CASE (Linked(p) \/ Goto(p, "log") \/ Goto(p, "link")) /\ req[p].pc \in {"contents", "link"} /\ ~LogChange(p)
  <2>1. /\ Elsewhere(p) /\ Keeps(p) /\ req'[p].pc \in {"log", "link"} /\ req'[p].todo = req[p].todo
    <3>1. "log" \in Places /\ "link" \in Places
      BY DEF Places
    <3> QED
      BY <3>1, <1>1, <1>7, LinkedEffect, GotoEffect
  <2>2. OwedBy(req'[p]) = Len(req[p].todo) /\ OwedBy(req[p]) = Len(req[p].todo)
    BY <2>1, <1>4, <1>5, <1>7 DEF ContentPlaces
  <2>3. OwedBy(req'[p]) <= OwedBy(req[p])
    <3>1. Len(req[p].todo) \in Nat
      BY <1>4
    <3> QED
      BY <2>2, <3>1
  <2> QED
    BY <2>1, <2>3, <1>3, <1>7
<1>8. CASE Goto(p, "notify") /\ req[p].pc = "log"
  <2>1. /\ Elsewhere(p) /\ Keeps(p) /\ req'[p].pc = "notify" /\ req'[p].todo = req[p].todo
    <3>1. "notify" \in Places
      BY DEF Places
    <3> QED
      BY <3>1, <1>1, <1>8, GotoEffect
  <2>2. OwedBy(req'[p]) = Len(req[p].todo) - 1 /\ OwedBy(req[p]) = Len(req[p].todo)
    BY <2>1, <1>4, <1>5, <1>8 DEF ContentPlaces
  <2>3. OwedBy(req'[p]) < OwedBy(req[p]) /\ OwedBy(req'[p]) <= OwedBy(req[p])
    <3>1. Len(req[p].todo) \in Nat
      BY <1>4
    <3> QED
      BY <2>2, <3>1
  <2> QED
    BY <2>1, <2>3, <1>3
<1> QED
  BY <1>2, <1>6, <1>7, <1>8

\* What a step does to what is owed for a deleted mission, when it writes no row.
LEMMA QuietDues ==
  ASSUME TypeOK, RequestsFit, IdsInOrder, [Next]_vars, NEW m \in Ids, m \notin live', missions'[m] # None,
         m \notin live
  PROVE  Dues(m)' \subseteq Dues(m)
<1>m. /\ missions \in [Ids -> MissionRows \cup {None}] /\ req \in [Procs -> Request] /\ live \subseteq Ids
      /\ RequestsFit'
  BY RequestsFitStep DEF TypeOK, RequestsFit
<1>o. \A p \in Procs : Owes(p) \in Nat /\ Owes(p)' \in Nat
  BY <1>m, DuesFiniteAll, DuesFiniteNext
<1>z. 0 \notin Ids
  BY SetFacts
<1>s. ASSUME req' = req PROVE Dues(m)' \subseteq Dues(m)
  BY <1>s DEF Dues, Owes
<1>1. ASSUME NEW p \in Procs, Elsewhere(p), req'[p].id = m => req[p].id = m /\ Owes(p)' <= Owes(p)
      PROVE  Dues(m)' \subseteq Dues(m)
  BY <1>1, <1>o, DuesShrink
<1>2. ASSUME NEW p \in Procs, Begins(p) PROVE Dues(m)' \subseteq Dues(m)
  BY <1>1, <1>2, <1>m, <1>z, Began
<1>3. ASSUME NEW p \in Procs, CreateCommit(p) PROVE Dues(m)' \subseteq Dues(m)
  BY <1>1, <1>3, <1>m, Committed
<1>4. ASSUME NEW p \in Procs, Announce(p) \/ Abort(p) \/ Delete(p) PROVE Dues(m)' \subseteq Dues(m)
  <2>1. Elsewhere(p) /\ req'[p] = Idle
    BY <1>4, <1>m, DoneEffect DEF Announce, Abort, Delete
  <2> QED
    BY <2>1, <1>1, <1>z, IdleFields
<1>5. ASSUME NEW p \in Procs, Asks(p) PROVE Dues(m)' \subseteq Dues(m)
  <2>1. PICK k \in live, op \in Ops, c \in Clients \cup {0}, pc \in Places : Asked(op, c, pc) /\ Ask(p, op, k, c, pc)
    BY <1>5 DEF Asks
  <2>2. Elsewhere(p) /\ req'[p].id = k
    BY <2>1, <1>m, AskEffect
  <2>3. UNCHANGED live
    BY <2>1 DEF Ask, tables
  <2> QED
    BY <2>2, <2>3, <1>1
<1>6. ASSUME NEW p \in Procs, AsksContents(p) PROVE Dues(m)' \subseteq Dues(m)
  <2>1. PICK k \in live, op \in ContentOps, todo \in Seq(Contents) \ {<<>>} : AskContents(p, op, k, todo)
    BY <1>6 DEF AsksContents
  <2>2. Elsewhere(p) /\ req'[p].id = k
    BY <2>1, <1>m, AskContentsEffect
  <2>3. UNCHANGED live
    BY <2>1 DEF AskContents, tables
  <2> QED
    BY <2>2, <2>3, <1>1
<1>7. ASSUME NEW p \in Procs, Changing(p) PROVE Dues(m)' \subseteq Dues(m)
  <2>1. Elsewhere(p)
    BY <1>7, ChangingMoves
  <2>2. CASE req'[p] = Idle
    BY <2>1, <2>2, <1>1, <1>z, IdleFields
  <2>3. CASE req'[p] # Idle
    BY <2>1, <2>3, <1>7, <1>1, ContentOwes DEF Keeps
  <2> QED
    BY <2>2, <2>3
<1>8. ASSUME NEW p \in Procs, Subscribing(p) PROVE Dues(m)' \subseteq Dues(m)
  <2>1. Elsewhere(p)
    BY <1>8, SubscribingMoves
  <2>2. CASE req'[p] = Idle
    BY <2>1, <2>2, <1>1, <1>z, IdleFields
  <2>3. CASE req'[p] # Idle
    <3>1. SubscribeBegin(p) \/ InviteFind(p) \/ (SubscribeCommit(p) /\ Goto(p, "announce"))
      BY <1>8, <2>3, <1>m, DoneEffect DEF Subscribing, Refuse, Unsubscribe, InviteSave, Uninvite, SubscribeCommit
    <3>2. req[p].pc \in {"subscribe", "find", "save"}
      BY <3>1 DEF SubscribeBegin, InviteFind, SubscribeCommit
    <3>3. Keeps(p) /\ req'[p].pc \in {"save", "announce"} /\ req[p].op \notin ContentOps
      <4>1. "announce" \in Places /\ req[p].op \notin ContentOps
        BY <3>2, AtPlace DEF Places
      <4>2. CASE SubscribeBegin(p)
        BY <4>1, <4>2, SubscribeBeginEffect
      <4>3. CASE InviteFind(p)
        BY <4>1, <4>3, InviteFindEffect
      <4>4. CASE Goto(p, "announce")
        BY <4>1, <4>4, <1>m, GotoEffect
      <4> QED
        BY <3>1, <4>2, <4>3, <4>4
    <3>4. Owes(p) = 1
      BY <3>2, <3>3 DEF Owes
    <3>5. Owes(p)' = 1 \/ Owes(p)' = 0
      BY <3>3 DEF Owes, Keeps
    <3> QED
      BY <2>1, <3>3, <3>4, <3>5, <1>1 DEF Keeps
  <2> QED
    BY <2>2, <2>3
<1>9. CASE Reads \/ Edits \/ UNCHANGED vars
  BY <1>9, <1>s, EditEffect DEF Reads, getMissionHandler, getMissionChangesHandler, Learn, vars
<1> QED
  BY Steps, <1>2, <1>3, <1>4, <1>5, <1>6, <1>7, <1>8, <1>9

\* A row is owed before it is written.
Writes(p) == SubscribeCommit(p) \/ InviteSave(p) \/ LogChange(p)

\* Who writes a row for a mission had it due.
LEMMA WriteDues ==
  ASSUME TypeOK, RequestsFit, IdsInOrder, [Next]_vars, NEW p \in Procs, Writes(p), NEW m \in Ids, req[p].id = m
  PROVE  \E d \in Dues(m) : Dues(m)' \subseteq Dues(m) \ {d}
<1>m. req \in [Procs -> Request] /\ RequestsFit'
  BY RequestsFitStep DEF RequestsFit
<1>o. Owes(p) \in Nat /\ Owes(p)' \in Nat
  BY <1>m, DuesFiniteAll, DuesFiniteNext
<1>1. ASSUME Elsewhere(p), Owes(p) # 0, req'[p].id = m => Owes(p)' < Owes(p)
      PROVE  \E d \in Dues(m) : Dues(m)' \subseteq Dues(m) \ {d}
  BY <1>1, <1>o, DuesLess
<1>i. req'[p] = Idle => req'[p].id # m
  BY SetFacts, IdleFields
<1>2. CASE LogChange(p)
  <2>1. Changing(p) /\ req[p].pc = "log"
    BY <1>2 DEF Changing, LogChange
  <2>2. Elsewhere(p)
    BY <2>1, ChangingMoves
  <2>3. req'[p].id = m => Owes(p)' < Owes(p)
    BY <1>2, <1>i, <2>1, ContentOwes
  <2>4. Owes(p) # 0
    <3>1. /\ req[p] \in Request /\ req[p].op \in ContentOps /\ req[p].pc \in ContentPlaces
          /\ req[p].todo \in Seq(Contents) /\ req[p].todo # <<>>
      BY <2>1, AtContents DEF ContentPlaces
    <3>2. Owes(p) = Len(req[p].todo)
      BY <3>1, <2>1, OwedAt, OwesIsOwed
    <3> QED
      BY <3>1, <3>2
  <2> QED
    BY <2>2, <2>3, <2>4, <1>1
<1>3. CASE SubscribeCommit(p) \/ InviteSave(p)
  <2>1. Elsewhere(p) /\ req[p].pc = "save" /\ (Done(p) \/ Goto(p, "announce"))
    BY <1>3, SubscribingMoves DEF Subscribing, SubscribeCommit, InviteSave
  <2>2. req[p].op \notin ContentOps
    BY <2>1, AtPlace
  <2>3. Owes(p) = 1
    BY <2>1, <2>2 DEF Owes
  <2>4. req'[p].id = m => Owes(p)' = 0
    <3>1. ASSUME Goto(p, "announce") PROVE Owes(p)' = 0
      <4>1. "announce" \in Places
        BY DEF Places
      <4>2. Keeps(p) /\ req'[p].pc = "announce"
        BY <4>1, <3>1, <1>m, GotoEffect
      <4> QED
        BY <4>2, <2>2 DEF Owes, Keeps
    <3> QED
      BY <2>1, <3>1, <1>i, <1>m, DoneEffect
  <2> QED
    BY <2>1, <2>3, <2>4, <1>1
<1> QED
  BY <1>2, <1>3 DEF Writes

\* Log enters one change.
LEMMA LogAdds ==
  ASSUME NEW k, NEW key, NEW type, Log(k, key, type)
  PROVE  \E r : r.id = k /\ r.key = key /\ r.type = type /\ log' = log \cup {r}
<1> DEFINE r == [id |-> k, key |-> key, type |-> type, at |-> changes']
<1>1. log' = log \cup {r}
  BY DEF Log
<1>2. r.id = k /\ r.key = key /\ r.type = type
  OBVIOUS
<1> HIDE DEF r
<1> QED
  BY <1>1, <1>2

\* A subscription is one row.
LEMMA CommitAddsOne ==
  ASSUME NEW p \in Procs, SubscribeCommit(p)
  PROVE  \E s : s.id = req[p].id /\ s.uid = req[p].uid /\ subs' \subseteq subs \cup {s}
<1> DEFINE n == RowFor(req[p].row, Subscriptions(req[p].id, req[p].uid))
           s == [id |-> req[p].id, uid |-> req[p].uid, row |-> n,
                 role |-> IF req[p].op = "create" THEN "creator" ELSE "subscriber"]
<1>1. subs' \subseteq subs \cup {s}
  BY DEF SubscribeCommit
<1>2. s.id = req[p].id /\ s.uid = req[p].uid
  OBVIOUS
<1> HIDE DEF s
<1> QED
  BY <1>1, <1>2

\* An invitation is one row.
LEMMA InviteAddsOne ==
  ASSUME NEW p \in Procs, InviteSave(p)
  PROVE  \E i : i.id = req[p].id /\ invites' = invites \cup {i}
<1> DEFINE n == RowFor(req[p].row, Invitations(req[p].id, req[p].uid))
           i == [id |-> req[p].id, uid |-> req[p].uid, row |-> n]
<1>1. invites' = invites \cup {i}
  BY DEF InviteSave
<1>2. i.id = req[p].id
  OBVIOUS
<1> HIDE DEF i
<1> QED
  BY <1>1, <1>2

\* The rows of a mission in each of the tables.
SubsOf(m) == {s \in subs : s.id = m}
InvitesOf(m) == {i \in invites : i.id = m}

\* The rows of a mission, table by table.
LEMMA RowsCounted ==
  TablesFit => \A m \in Ids :
    /\ Rows(m) = Cardinality(SubsOf(m)) + Cardinality(InvitesOf(m)) + Cardinality(Changes(m))
    /\ IsFiniteSet(SubsOf(m)) /\ IsFiniteSet(InvitesOf(m)) /\ IsFiniteSet(Changes(m))
<1> SUFFICES ASSUME TablesFit, NEW m \in Ids
             PROVE  /\ Rows(m) = Cardinality(SubsOf(m)) + Cardinality(InvitesOf(m)) + Cardinality(Changes(m))
                    /\ IsFiniteSet(SubsOf(m)) /\ IsFiniteSet(InvitesOf(m)) /\ IsFiniteSet(Changes(m))
  OBVIOUS
<1>1. SubsOf(m) \subseteq subs /\ InvitesOf(m) \subseteq invites /\ Changes(m) \subseteq log
  BY DEF SubsOf, InvitesOf, Changes
<1>2. IsFiniteSet(SubsOf(m)) /\ IsFiniteSet(InvitesOf(m)) /\ IsFiniteSet(Changes(m))
  BY <1>1, FS_Subset DEF TablesFit
<1>3. Subscriptions(m, 0) = SubsOf(m)
  BY DEF Subscriptions, SubsOf
<1> QED
  BY <1>2, <1>3 DEF Rows, InvitesOf

\* The same in the next state.
LEMMA RowsCountedNext ==
  (TablesFit => \A m \in Ids :
    /\ Rows(m) = Cardinality(SubsOf(m)) + Cardinality(InvitesOf(m)) + Cardinality(Changes(m))
    /\ IsFiniteSet(SubsOf(m)) /\ IsFiniteSet(InvitesOf(m)) /\ IsFiniteSet(Changes(m)))'
BY RowsCounted, PTL

\* A row that is written and was due leaves the sum as it was.
LEMMA SumFalls ==
  \A a, b, c, d \in Nat : \A a1, b1, c1, d1 \in Nat : \A o \in Nat :
    /\ a + b + c + d <= o
    /\ \/ a1 <= a /\ b1 <= b /\ c1 <= c /\ d1 <= d
       \/ a1 <= a + 1 /\ b1 <= b /\ c1 <= c /\ d1 + 1 <= d
       \/ a1 <= a /\ b1 <= b + 1 /\ c1 <= c /\ d1 + 1 <= d
       \/ a1 <= a /\ b1 <= b /\ c1 <= c + 1 /\ d1 + 1 <= d
    => a1 + b1 + c1 + d1 <= o
OBVIOUS

\* Rows left of a deleted mission, and rows still due, stay within what was due.
LEMMA LeftoversStep ==
  ASSUME TypeOK, RequestsFit, IdsInOrder, TablesFit, LeftoversBounded, [Next]_vars
  PROVE  LeftoversBounded'
<1>m. /\ missions \in [Ids -> MissionRows \cup {None}] /\ req \in [Procs -> Request] /\ live \subseteq Ids
      /\ owing \in [Ids -> Nat] /\ \A k \in live : missions[k] # None
  BY DEF TypeOK, RequestsFit
<1>f. Frame /\ RequestsFit' /\ GivenStay /\ TablesFit'
  BY StepsFramed, RequestsFitStep, TypeStep
<1> SUFFICES ASSUME NEW m \in Ids, m \notin live', missions'[m] # None
             PROVE  Rows(m)' + Pending(m)' <= owing'[m]
  BY DEF LeftoversBounded
<1>d. /\ IsFiniteSet(Dues(m)) /\ Pending(m) = Cardinality(Dues(m)) /\ Pending(m) \in Nat
      /\ IsFiniteSet(Dues(m)') /\ Pending(m)' = Cardinality(Dues(m)') /\ Pending(m)' \in Nat
      /\ \A p \in Procs : Owes(p) \in Nat /\ Owes(p)' \in Nat
  BY <1>f, DuesFiniteAll, DuesFiniteNext
<1>r. /\ Rows(m) = Cardinality(SubsOf(m)) + Cardinality(InvitesOf(m)) + Cardinality(Changes(m))
      /\ IsFiniteSet(SubsOf(m)) /\ IsFiniteSet(InvitesOf(m)) /\ IsFiniteSet(Changes(m))
      /\ Rows(m)' = Cardinality(SubsOf(m)') + Cardinality(InvitesOf(m)') + Cardinality(Changes(m)')
      /\ IsFiniteSet(SubsOf(m)') /\ IsFiniteSet(InvitesOf(m)') /\ IsFiniteSet(Changes(m)')
  BY <1>f, RowsCounted, RowsCountedNext
<1>n. /\ Cardinality(SubsOf(m)) \in Nat /\ Cardinality(InvitesOf(m)) \in Nat /\ Cardinality(Changes(m)) \in Nat
      /\ Cardinality(SubsOf(m)') \in Nat /\ Cardinality(InvitesOf(m)') \in Nat /\ Cardinality(Changes(m)') \in Nat
  BY <1>r, FS_CardinalityType
<1>1. ASSUME NEW p \in Procs, Delete(p), req[p].id = m PROVE Rows(m)' + Pending(m)' <= owing'[m]
  <2>1. SubsOf(m)' = {} /\ InvitesOf(m)' = {} /\ Changes(m)' = {}
    BY <1>1 DEF Delete, DeleteRows, SubsOf, InvitesOf, Changes
  <2>2. Rows(m)' = 0
    BY <2>1, <1>r, FS_EmptySet
  <2>3. owing'[m] = Pending(m)
    BY <1>1, <1>m DEF Delete
  <2>4. Elsewhere(p) /\ req'[p].id # m
    BY <1>1, <1>m, DoneEffect, IdleFields, SetFacts DEF Delete
  <2>5. Dues(m)' \subseteq Dues(m)
    BY <2>4, <1>d, DuesShrink
  <2>6. Pending(m)' <= Pending(m)
    BY <2>5, <1>d, FewerElements
  <2> QED
    BY <2>2, <2>3, <2>6, <1>d
<1>2. CASE ~ \E p \in Procs : Delete(p) /\ req[p].id = m
  <2>1. m \notin live
    <3>1. ASSUME NEW p \in Procs, CreateCommit(p) \/ Delete(p), m \in live PROVE FALSE
      BY <3>1, <1>2 DEF CreateCommit, Delete
    <3> QED
      BY <3>1, <1>f, EditEffect DEF Frame, TouchesMissions
  <2>2. owing'[m] = owing[m]
    <3>1. ASSUME NEW p \in Procs, Delete(p) PROVE owing'[m] = owing[m]
      BY <3>1, <1>2, <1>m DEF Delete
    <3> QED
      BY <3>1, <1>f DEF Frame
  <2>3. missions[m] # None
    <3>1. ASSUME NEW p \in Procs, CreateCommit(p) PROVE missions'[m] = missions[m]
      <4>1. m # NewId /\ missions' = [missions EXCEPT ![NewId] = req[p].new]
        BY <3>1 DEF CreateCommit
      <4> HIDE DEF NewId
      <4> QED
        BY <4>1, <1>m
    <3>2. ASSUME NEW p \in Procs, Delete(p) PROVE missions'[m] = missions[m]
      BY <3>2 DEF Delete
    <3> QED
      BY <3>1, <3>2, <1>f, EditEffect DEF Frame, TouchesMissions
  <2>4. Rows(m) + Pending(m) <= owing[m]
    BY <2>1, <2>3 DEF LeftoversBounded
  <2>5. \/ SubsOf(m)' \subseteq SubsOf(m)
        \/ \E p \in Procs : SubscribeCommit(p) /\ req[p].id = m /\ \E s : SubsOf(m)' \subseteq SubsOf(m) \cup {s}
    <3>1. ASSUME NEW p \in Procs, SubscribeCommit(p)
          PROVE  \E s : s.id = req[p].id /\ subs' \subseteq subs \cup {s}
      BY <3>1, CommitAddsOne
    <3>2. ASSUME NEW p \in Procs, Unsubscribe(p) \/ Delete(p) PROVE subs' \subseteq subs
      BY <3>2 DEF Unsubscribe, Delete, DeleteRows
    <3> QED
      BY <3>1, <3>2, <1>f DEF Frame, TouchesSubs, SubsOf
  <2>6. \/ InvitesOf(m)' \subseteq InvitesOf(m)
        \/ \E p \in Procs : InviteSave(p) /\ req[p].id = m /\ \E i : InvitesOf(m)' \subseteq InvitesOf(m) \cup {i}
    <3>1. ASSUME NEW p \in Procs, InviteSave(p)
          PROVE  \E i : i.id = req[p].id /\ invites' = invites \cup {i}
      BY <3>1, InviteAddsOne
    <3>2. ASSUME NEW p \in Procs, Uninvite(p) \/ Delete(p) PROVE invites' \subseteq invites
      BY <3>2 DEF Uninvite, Delete, DeleteRows
    <3> QED
      BY <3>1, <3>2, <1>f DEF Frame, TouchesInvites, InvitesOf
  <2>7. \/ Changes(m)' \subseteq Changes(m)
        \/ \E p \in Procs : LogChange(p) /\ req[p].id = m /\ \E c : Changes(m)' \subseteq Changes(m) \cup {c}
    <3>1. ASSUME NEW p \in Procs, LogChange(p)
          PROVE  \E c : c.id = req[p].id /\ log' = log \cup {c}
      BY <3>1, LogAdds DEF LogChange
    <3>2. ASSUME NEW p \in Procs, CreateCommit(p) PROVE Changes(m)' \subseteq Changes(m)
      <4>1. NewId \in live' /\ \E c : c.id = NewId /\ log' = log \cup {c}
        BY <3>2, LogAdds DEF CreateCommit
      <4> HIDE DEF NewId
      <4> QED
        BY <4>1 DEF Changes
    <3>3. ASSUME NEW p \in Procs, Delete(p) PROVE log' \subseteq log
      BY <3>3 DEF Delete
    <3> QED
      BY <3>1, <3>2, <3>3, <1>f DEF Frame, TouchesLog, Changes
  <2>8. CASE ~ \E p \in Procs : Writes(p) /\ req[p].id = m
    <3>1. SubsOf(m)' \subseteq SubsOf(m) /\ InvitesOf(m)' \subseteq InvitesOf(m) /\ Changes(m)' \subseteq Changes(m)
      BY <2>5, <2>6, <2>7, <2>8 DEF Writes
    <3>2. Dues(m)' \subseteq Dues(m)
      BY <2>1, QuietDues
    <3>3. /\ Cardinality(SubsOf(m)') <= Cardinality(SubsOf(m)) /\ Cardinality(InvitesOf(m)') <= Cardinality(InvitesOf(m))
          /\ Cardinality(Changes(m)') <= Cardinality(Changes(m)) /\ Pending(m)' <= Pending(m)
      BY <3>1, <3>2, <1>r, <1>d, FewerElements
    <3>4. owing[m] \in Nat
      BY <1>m
    <3> QED
      BY <3>3, <3>4, <2>2, <2>4, <1>n, <1>r, <1>d, SumFalls
  <2>9. ASSUME NEW p \in Procs, Writes(p), req[p].id = m PROVE Rows(m)' + Pending(m)' <= owing'[m]
    <3>1. PICK d \in Dues(m) : Dues(m)' \subseteq Dues(m) \ {d}
      BY <2>9, WriteDues
    <3>2. Pending(m)' + 1 <= Pending(m)
      BY <3>1, <1>d, OneElementLess
    <3>3. \/ UNCHANGED <<invites, log>> /\ \E s : SubsOf(m)' \subseteq SubsOf(m) \cup {s}
          \/ UNCHANGED <<subs, log>> /\ \E i : InvitesOf(m)' \subseteq InvitesOf(m) \cup {i}
          \/ UNCHANGED <<subs, invites>> /\ \E c : Changes(m)' \subseteq Changes(m) \cup {c}
      <4>1. CASE SubscribeCommit(p)
        BY <4>1, CommitAddsOne DEF SubscribeCommit, SubsOf
      <4>2. CASE InviteSave(p)
        BY <4>2, InviteAddsOne DEF InviteSave, InvitesOf
      <4>3. CASE LogChange(p)
        BY <4>3, LogAdds DEF LogChange, Changes
      <4> QED
        BY <2>9, <4>1, <4>2, <4>3 DEF Writes
    <3>4. \/ /\ Cardinality(SubsOf(m)') <= Cardinality(SubsOf(m)) + 1
             /\ Cardinality(InvitesOf(m)') <= Cardinality(InvitesOf(m)) /\ Cardinality(Changes(m)') <= Cardinality(Changes(m))
          \/ /\ Cardinality(InvitesOf(m)') <= Cardinality(InvitesOf(m)) + 1
             /\ Cardinality(SubsOf(m)') <= Cardinality(SubsOf(m)) /\ Cardinality(Changes(m)') <= Cardinality(Changes(m))
          \/ /\ Cardinality(Changes(m)') <= Cardinality(Changes(m)) + 1
             /\ Cardinality(SubsOf(m)') <= Cardinality(SubsOf(m)) /\ Cardinality(InvitesOf(m)') <= Cardinality(InvitesOf(m))
      <4>1. UNCHANGED subs => SubsOf(m)' \subseteq SubsOf(m)
        BY DEF SubsOf
      <4>2. UNCHANGED invites => InvitesOf(m)' \subseteq InvitesOf(m)
        BY DEF InvitesOf
      <4>3. UNCHANGED log => Changes(m)' \subseteq Changes(m)
        BY DEF Changes
      <4> QED
        BY <3>3, <4>1, <4>2, <4>3, <1>r, OneMoreElement, FewerElements
    <3>5. owing[m] \in Nat
      BY <1>m
    <3> QED
      BY <3>2, <3>4, <3>5, <2>2, <2>4, <1>n, <1>r, <1>d, SumFalls
  <2> QED
    BY <2>8, <2>9
<1> QED
  BY <1>1, <1>2
-----------------------------------------------------------------------------
(* Who works on a content. *)

\* A request for contents moves by one of its own statements.
LEMMA FromContents ==
  ASSUME TypeOK, RequestsFit, IdsInOrder, [Next]_vars, NEW p \in Procs, req[p].pc \in ContentPlaces, req'[p] # req[p]
  PROVE  Changing(p)
<1>m. req \in [Procs -> Request] /\ req[p].op \in ContentOps
  BY AtContents DEF RequestsFit, ContentPlaces
<1>1. ASSUME NEW q \in Procs, Elsewhere(q) PROVE p = q
  BY <1>1 DEF Elsewhere
<1>2. ASSUME NEW q \in Procs, \/ Begins(q) \/ CreateCommit(q) \/ Announce(q) \/ Abort(q) \/ Asks(q) \/ Delete(q)
                              \/ Subscribing(q) \/ AsksContents(q) \/ Changing(q)
      PROVE  p = q
  BY <1>1, <1>2, RequestsStep
<1>3. ~Begins(p) /\ ~CreateCommit(p) /\ ~Announce(p) /\ ~Abort(p) /\ ~Asks(p) /\ ~AsksContents(p)
  BY DEF Begins, CreateBegin, CreateCommit, Announce, Abort, Asks, Ask, Idling, AsksContents, AskContents, ContentPlaces
<1>4. ~Delete(p)
  BY <1>m DEF Delete, ContentOps
<1>5. ~Subscribing(p)
  <2>1. ~Unsubscribe(p) /\ ~InviteFind(p) /\ ~InviteSave(p) /\ ~Uninvite(p)
    BY <1>m DEF Unsubscribe, InviteFind, InviteSave, Uninvite, ContentOps
  <2>2. ~Refuse(p) /\ ~SubscribeBegin(p) /\ ~SubscribeCommit(p)
    BY DEF Refuse, SubscribeBegin, SubscribeCommit, ContentPlaces
  <2> QED
    BY <2>1, <2>2 DEF Subscribing
<1>6. CASE Reads \/ Edits \/ UNCHANGED vars
  BY <1>6, EditEffect DEF Reads, getMissionHandler, getMissionChangesHandler, Learn, vars
<1> QED
  BY Steps, <1>2, <1>3, <1>4, <1>5, <1>6

\* A request that comes to a content another is busy with is seen to race.
LEMMA BusyStep ==
  ASSUME TypeOK, RequestsFit, IdsInOrder, [Next]_vars, NEW m \in Ids, NEW c \in Contents,
         NEW p \in Procs, p \in Busy(m, c)', p \notin Busy(m, c)
  PROVE  Elsewhere(p) /\ (Busy(m, c) # {} => <<m, c>> \in raced')
<1>m. /\ missions \in [Ids -> MissionRows \cup {None}] /\ req \in [Procs -> Request] /\ live \subseteq Ids
      /\ req[p] \in Request
  BY DEF TypeOK, RequestsFit
<1>b. req'[p].id = m /\ req'[p].op \in ContentOps /\ c \in ToSet(req'[p].todo)
  BY DEF Busy
<1>n. ~(req[p].id = m /\ req[p].op \in ContentOps /\ c \in ToSet(req[p].todo))
  BY DEF Busy
<1>1. Moved(p) /\ Elsewhere(p)
  <2>1. req'[p] # req[p]
    BY <1>b, <1>n
  <2> QED
    BY <2>1, Moves
<1>2. CASE AsksContents(p)
  <2>1. PICK k \in live, op \in ContentOps, todo \in Seq(Contents) \ {<<>>} : AskContents(p, op, k, todo)
    BY <1>2 DEF AsksContents
  <2>2. req'[p].id = k /\ req'[p].todo = todo
    BY <2>1, <1>m, AskContentsEffect
  <2>3. raced' = raced \cup ({m} \X {d \in ToSet(todo) : Busy(m, d) # {}})
    BY <2>1, <2>2, <1>b DEF AskContents
  <2> QED
    BY <2>2, <2>3, <1>b, <1>1
<1>3. CASE ~AsksContents(p)
  <2>1. req'[p] # Idle
    BY <1>b, IdleFields DEF ContentOps
  <2>2. ~Begins(p) /\ ~CreateCommit(p)
    BY <1>b, <1>m, Began, Committed DEF ContentOps
  <2>3. (~SubscribeBegin(p) /\ ~InviteFind(p) /\ ~SubscribeCommit(p)) \/ ~Keeps(p)
    <3>1. req[p].op \in ContentOps => req[p].pc \notin {"subscribe", "find", "save"}
      BY AtContents
    <3> QED
      BY <3>1, <1>b DEF SubscribeBegin, InviteFind, SubscribeCommit, Keeps
  <2>4. /\ Changing(p) /\ Keeps(p)
        /\ req'[p].todo = req[p].todo \/ (Len(req[p].todo) > 1 /\ req'[p].todo = Tail(req[p].todo))
    BY <1>1, <1>3, <1>b, <2>1, <2>2, <2>3 DEF Moved
  <2>5. req[p].todo \in Seq(Contents) /\ req[p].todo # <<>>
    BY <2>4, <1>b, AtContents DEF Keeps
  <2>6. c \in ToSet(req[p].todo)
    BY <2>4, <2>5, <1>b, TailSet
  <2> QED
    BY <2>4, <2>6, <1>b, <1>n DEF Keeps
<1> QED
  BY <1>2, <1>3

\* What raced or broke stays so.
LEMMA GhostsGrow == ASSUME [Next]_vars PROVE raced \subseteq raced' /\ broken \subseteq broken'
<1>1. Frame
  BY StepsFramed
<1>2. ASSUME NEW p \in Procs, AsksContents(p) PROVE raced \subseteq raced'
  BY <1>2 DEF AsksContents, AskContents
<1>3. ASSUME NEW p \in Procs, Abort(p) \/ PointFails(p) \/ FailsUnnoticed(p) PROVE broken \subseteq broken'
  BY <1>3 DEF Abort, PointFails, FailsUnnoticed, Breaks, ghosts
<1> QED
  BY <1>1, <1>2, <1>3 DEF Frame, Fails

\* Two requests on a content are noticed when the second comes.
LEMMA OneAtWorkStep ==
  ASSUME TypeOK, RequestsFit, IdsInOrder, OneAtWork, [Next]_vars
  PROVE  OneAtWork'
<1> SUFFICES ASSUME NEW m \in Ids, NEW c \in Contents, <<m, c>> \notin raced',
                    NEW p \in Busy(m, c)', NEW q \in Busy(m, c)'
             PROVE  p = q
  BY DEF OneAtWork
<1>1. <<m, c>> \notin raced /\ p \in Procs /\ q \in Procs
  BY GhostsGrow DEF Busy
<1>2. CASE p \in Busy(m, c) /\ q \in Busy(m, c)
  BY <1>1, <1>2 DEF OneAtWork
<1>3. ASSUME NEW r \in Procs, NEW s \in Procs, r \in Busy(m, c)', s \in Busy(m, c)', r \notin Busy(m, c) PROVE r = s
  <2>1. Elsewhere(r) /\ Busy(m, c) = {}
    BY <1>3, BusyStep
  <2>2. s \notin Busy(m, c)
    BY <2>1
  <2> QED
    BY <1>3, <2>1, <2>2 DEF Elsewhere, Busy
<1> QED
  BY <1>1, <1>2, <1>3
-----------------------------------------------------------------------------
(* Link, change and message of a content come one after the other. *)

AtWork(p, m, c) == Changing(p) /\ req[p].id = m /\ Current(p) = c

\* Requests that are not at work on a content stay where they are with it.
LEMMA AtSame ==
  ASSUME TypeOK, RequestsFit, IdsInOrder, [Next]_vars, NEW m \in Ids, NEW c \in Contents, NEW p \in Procs,
         ~AtWork(p, m, c), NEW pcs \in {{"log"}, {"log", "notify"}}
  PROVE  (At(p, pcs, m, c)' <=> At(p, pcs, m, c)) /\ (At(p, pcs, m, c) => ChangeType(p)' = ChangeType(p))
<1>1. CASE req'[p] = req[p]
  BY <1>1 DEF At, Busy, Current, ChangeType
<1>2. CASE req'[p] # req[p]
  <2>1. ~At(p, pcs, m, c)
    <3>1. ASSUME At(p, pcs, m, c) PROVE FALSE
      <4>1. req[p].pc \in ContentPlaces /\ req[p].id = m /\ Current(p) = c
        BY <3>1 DEF At, Busy, ContentPlaces
      <4>2. Changing(p)
        BY <4>1, <1>2, FromContents
      <4> QED
        BY <4>1, <4>2 DEF AtWork
    <3> QED
      BY <3>1
  <2>2. ~At(p, pcs, m, c)'
    <3>1. ASSUME At(p, pcs, m, c)' PROVE FALSE
      <4>1. req'[p].pc \in {"log", "notify"} /\ req'[p].id = m /\ Head(req'[p].todo) = c
        BY <3>1 DEF At, Busy, Current
      <4>2. Moved(p)
        BY <1>2, Moves
      <4>3. Changing(p) /\ Keeps(p) /\ req'[p].todo = req[p].todo
        BY <4>1, <4>2, IdleFields DEF Moved
      <4> QED
        BY <4>1, <4>3 DEF AtWork, Keeps, Current
    <3> QED
      BY <3>1
  <2> QED
    BY <2>1, <2>2
<1> QED
  BY <1>1, <1>2

\* Without one at work on it, a content stays linked or not.
LEMMA LinkSame ==
  ASSUME [Next]_vars, NEW m \in Ids, NEW c \in Contents, \A p \in Procs : ~AtWork(p, m, c)
  PROVE  <<m, c>> \in links' <=> <<m, c>> \in links
<1>1. ASSUME NEW p \in Procs, AddMissionResource(p) \/ RemoveContent(p) \/ LinkPoint(p)
      PROVE  <<m, c>> \in links' <=> <<m, c>> \in links
  <2>1. <<req[p].id, Current(p)>> # <<m, c>>
    BY <1>1 DEF AtWork, Changing
  <2>2. links' = links \cup {<<req[p].id, Current(p)>>} \/ links' = links \ {<<req[p].id, Current(p)>>}
    BY <1>1 DEF AddMissionResource, RemoveContent, LinkPoint, Linked, Unlinked
  <2> QED
    BY <2>1, <2>2
<1> QED
  BY <1>1, StepsFramed DEF Frame, TouchesLinks

KeyRows(m, c) == {r \in log : r.id = m /\ r.key = c}

\* The log says of a content what its newest change says.
LEMMA LoggedByKey ==
  \A m \in Ids, c \in Contents :
    /\ Logged(m, c) <=> \E r \in KeyRows(m, c) : r.type = "add" /\ \A d \in KeyRows(m, c) : d.at <= r.at
    /\ Logged(m, c)' <=> \E r \in KeyRows(m, c)' : r.type = "add" /\ \A d \in KeyRows(m, c)' : d.at <= r.at
BY DEF Logged, KeyRows, Changes

\* Without one at work on it, the log says of a content what it said.
LEMMA LoggedSame ==
  ASSUME [Next]_vars, NEW m \in Ids, NEW c \in Contents, \A p \in Procs : ~AtWork(p, m, c), m \in live'
  PROVE  Logged(m, c)' <=> Logged(m, c)
<1>1. KeyRows(m, c)' = KeyRows(m, c)
  <2>1. CASE UNCHANGED log
    BY <2>1 DEF KeyRows
  <2>2. ASSUME NEW p \in Procs, CreateCommit(p) PROVE KeyRows(m, c)' = KeyRows(m, c)
    <3>1. Log(NewId, "", "create")
      BY <2>2 DEF CreateCommit
    <3> DEFINE r == [id |-> NewId, key |-> "", type |-> "create", at |-> changes']
    <3>2. log' = log \cup {r}
      BY <3>1 DEF Log
    <3>3. r.key = "" /\ c # ""
      BY SetFacts
    <3> HIDE DEF r
    <3> QED
      BY <3>2, <3>3 DEF KeyRows
  <2>3. ASSUME NEW p \in Procs, LogChange(p) PROVE KeyRows(m, c)' = KeyRows(m, c)
    <3>1. ~(req[p].id = m /\ Current(p) = c)
      BY <2>3 DEF AtWork, Changing
    <3>2. \E r : r.id = req[p].id /\ r.key = Current(p) /\ log' = log \cup {r}
      BY <2>3, LogAdds DEF LogChange
    <3> QED
      BY <3>1, <3>2 DEF KeyRows
  <2>4. ASSUME NEW p \in Procs, Delete(p) PROVE KeyRows(m, c)' = KeyRows(m, c)
    BY <2>4 DEF Delete, KeyRows, Changes
  <2> QED
    BY <2>1, <2>2, <2>3, <2>4, StepsFramed DEF Frame, TouchesLog
<1> QED
  BY <1>1, LoggedByKey

\* Without one at work on it, clients believe of a content what they did.
LEMMA BeliefSame ==
  ASSUME [Next]_vars, NEW m \in Ids, NEW c \in Contents, \A p \in Procs : ~AtWork(p, m, c), NEW u \in Clients, ~Reads
  PROVE  /\ <<m, u, c>> \in belief' <=> <<m, u, c>> \in belief
         /\ <<m, u>> \in follows' => <<m, u>> \in follows
<1>1. ASSUME NEW p \in Procs, Notify(p)
      PROVE  /\ <<m, u, c>> \in belief' <=> <<m, u, c>> \in belief
             /\ <<m, u>> \in follows' => <<m, u>> \in follows
  <2>1. ~(req[p].id = m /\ Current(p) = c)
    BY <1>1 DEF AtWork, Changing
  <2>p. PICK lost \in SUBSET ToldOf(p) :
          LET of == {req[p].id} \X (ToldOf(p) \ lost) \X {Current(p)}
          IN  (belief' = belief \cup of \/ belief' = belief \ of) /\ follows' \subseteq follows
    BY <1>1 DEF Notify
  <2> DEFINE of == {req[p].id} \X (ToldOf(p) \ lost) \X {Current(p)}
  <2>2. <<m, u, c>> \notin of
    BY <2>1
  <2>3. (belief' = belief \cup of \/ belief' = belief \ of) /\ follows' \subseteq follows
    BY <2>p
  <2> QED
    BY <2>2, <2>3
<1> QED
  BY <1>1, StepsFramed DEF Frame, TouchesBelief

\* Nobody works on the content.
LEMMA OtherStep ==
  ASSUME TypeOK, RequestsFit, IdsInOrder, [Next]_vars, NEW m \in Ids, NEW c \in Contents,
         \A p \in Procs : ~AtWork(p, m, c), m \in live', ~Reads,
         LinkFirst(m, c), ChangeNext(m, c), MessageLast(m, c)
  PROVE  (LinkFirst(m, c) /\ ChangeNext(m, c) /\ MessageLast(m, c))'
<1>1. <<m, c>> \in links' <=> <<m, c>> \in links
  BY LinkSame
<1>2. Logged(m, c)' <=> Logged(m, c)
  BY LoggedSame
<1>3. \A u \in Clients : /\ <<m, u, c>> \in belief' <=> <<m, u, c>> \in belief
                         /\ <<m, u>> \in follows' => <<m, u>> \in follows
  BY BeliefSame
<1>4. \A p \in Procs : /\ At(p, {"log"}, m, c)' <=> At(p, {"log"}, m, c)
                       /\ At(p, {"log", "notify"}, m, c)' <=> At(p, {"log", "notify"}, m, c)
                       /\ At(p, {"log", "notify"}, m, c) => ChangeType(p)' = ChangeType(p)
  BY AtSame
<1>5. LinkFirst(m, c)'
  BY <1>1, <1>4 DEF LinkFirst
<1>6. ChangeNext(m, c)'
  BY <1>1, <1>2, <1>4 DEF ChangeNext
<1>7. MessageLast(m, c)'
  BY <1>1, <1>3, <1>4 DEF MessageLast
<1> QED
  BY <1>5, <1>6, <1>7

\* A query returns all rows there are, when they are few enough.
LEMMA FewBefore ==
  ASSUME NEW rows, IsFiniteSet(rows), NEW limit \in Nat, Cardinality(rows) <= limit,
         NEW r \in rows, NEW before, before \subseteq rows \ {r}
  PROVE  Cardinality(before) < limit
<1>1. Cardinality(rows) \in Nat /\ Cardinality(before) \in Nat /\ Cardinality(before) + 1 <= Cardinality(rows)
  BY OneElementLess
<1> QED
  BY <1>1

\* A number is not before itself.
LEMMA NotBefore == \A n \in Nat : ~(n < n) /\ ~(n > n)
OBVIOUS

\* Below its limit the query finds all subscribers.
LEMMA SubscribersAll ==
  ASSUME TypeOK, TablesFit, NEW m \in Ids, Cardinality(Subscriptions(m, 0)) <= SubLimit
  PROVE  GetSubscribers(m) = {s.uid : s \in Subscriptions(m, 0)}
<1> DEFINE rows == Subscriptions(m, 0)
<1>1. IsFiniteSet(rows)
  <2>1. rows \subseteq subs
    BY DEF Subscriptions
  <2> QED
    BY <2>1, FS_Subset DEF TablesFit
<1>2. SubLimit \in Nat
  BY MissionsAssumption DEF MissionsAssumption
<1>3. \A r \in rows : ~(r.uid < r.uid)
  <2>1. \A s \in subs : s.uid \in Nat
    BY SetFacts DEF TypeOK
  <2> QED
    BY <2>1, NotBefore DEF Subscriptions
<1>4. Cardinality(rows) <= SubLimit
  OBVIOUS
<1>5. \A r \in rows : Cardinality({t \in rows : t.uid < r.uid}) < SubLimit
  <2> SUFFICES ASSUME NEW r \in rows PROVE Cardinality({t \in rows : t.uid < r.uid}) < SubLimit
    OBVIOUS
  <2> DEFINE before == {t \in rows : t.uid < r.uid}
  <2>1. before \subseteq rows \ {r}
    BY <1>3
  <2> HIDE DEF before, rows
  <2>2. Cardinality(before) < SubLimit
    BY <2>1, <1>1, <1>2, <1>4, FewBefore
  <2> QED
    BY <2>2 DEF before
<1>6. \A r, t \in rows : [s \in subs |-> s.uid][t] < [s \in subs |-> s.uid][r] <=> t.uid < r.uid
  BY DEF Subscriptions
<1>7. Get(rows, [s \in subs |-> s.uid], SubLimit) = rows
  <2>1. \A r \in rows : {t \in rows : [s \in subs |-> s.uid][t] < [s \in subs |-> s.uid][r]} = {t \in rows : t.uid < r.uid}
    BY <1>6
  <2> HIDE DEF rows
  <2> QED
    BY <2>1, <1>5 DEF Get
<1> QED
  BY <1>7 DEF GetSubscribers

\* Below its limit the query finds all changes.
LEMMA ChangesAll ==
  ASSUME TypeOK, TablesFit, NEW m \in Ids, Cardinality(Changes(m)) <= ChangeLimit
  PROVE  ChangesOf(m) = Changes(m)
<1> DEFINE rows == Changes(m)
<1>1. IsFiniteSet(rows)
  <2>1. rows \subseteq log
    BY DEF Changes
  <2> QED
    BY <2>1, FS_Subset DEF TablesFit
<1>2. ChangeLimit \in Nat
  BY MissionsAssumption DEF MissionsAssumption
<1>n. \A s \in log : s.at \in Nat
  <2>1. log \subseteq ChangeRows(changes)
    BY TypesParted DEF TablesTyped, LogTyped
  <2>2. 1..changes \subseteq Nat
    OBVIOUS
  <2> QED
    BY <2>1, <2>2 DEF ChangeRows
<1>3. \A r \in rows : ~(r.at > r.at)
  BY <1>n, NotBefore DEF Changes
<1>4. Cardinality(rows) <= ChangeLimit
  OBVIOUS
<1>5. \A r \in rows : Cardinality({t \in rows : t.at > r.at}) < ChangeLimit
  <2> SUFFICES ASSUME NEW r \in rows PROVE Cardinality({t \in rows : t.at > r.at}) < ChangeLimit
    OBVIOUS
  <2> DEFINE before == {t \in rows : t.at > r.at}
  <2>1. before \subseteq rows \ {r}
    BY <1>3
  <2> HIDE DEF before, rows
  <2>2. Cardinality(before) < ChangeLimit
    BY <2>1, <1>1, <1>2, <1>4, FewBefore
  <2> QED
    BY <2>2 DEF before
<1>6. \A r, t \in rows : [c \in log |-> -c.at][t] < [c \in log |-> -c.at][r] <=> t.at > r.at
  <2> SUFFICES ASSUME NEW r \in rows, NEW t \in rows
               PROVE  [c \in log |-> -c.at][t] < [c \in log |-> -c.at][r] <=> t.at > r.at
    OBVIOUS
  <2>1. r \in log /\ t \in log
    BY DEF Changes
  <2>2. [c \in log |-> -c.at][t] = -t.at /\ [c \in log |-> -c.at][r] = -r.at
    BY <2>1
  <2>3. r.at \in Nat /\ t.at \in Nat
    BY <1>n, <2>1
  <2>4. -t.at < -r.at <=> t.at > r.at
    BY <2>3
  <2> QED
    BY <2>2, <2>4
<1>7. Get(rows, [c \in log |-> -c.at], ChangeLimit) = rows
  <2>1. \A r \in rows : {t \in rows : [c \in log |-> -c.at][t] < [c \in log |-> -c.at][r]} = {t \in rows : t.at > r.at}
    BY <1>6
  <2> HIDE DEF rows
  <2> QED
    BY <2>1, <1>5 DEF Get
<1> QED
  BY <1>7 DEF ChangesOf

\* The squashed changes are the contents that the log says are there.
LEMMA SquashedIsLogged ==
  ASSUME TypeOK, TablesFit, NEW m \in Ids, Cardinality(Changes(m)) <= ChangeLimit, NEW c \in Contents
  PROVE  /\ Logged(m, c) <=> \E r \in GetChanges(m, TRUE) : r.key = c /\ r.type = "add"
         /\ Logged(m, c) <=> c \in {r.key : r \in GetChanges(m, TRUE)} \ {""}
<1>1. ChangesOf(m) = Changes(m)
  BY ChangesAll
<1>2. GetChanges(m, TRUE) =
        {r \in Changes(m) : r.type # "remove" /\ \A d \in Changes(m) : d.key = r.key => d.at <= r.at}
  BY <1>1 DEF GetChanges
<1>3. \A r \in Changes(m) : r.type \in {"create", "add", "remove"} /\ (r.type = "create" => r.key = "")
  <2>1. Changes(m) \subseteq ChangeRows(changes) /\ Changes(m) \subseteq log
    BY TypesParted DEF TablesTyped, LogTyped, Changes
  <2> QED
    BY <2>1 DEF ChangeRows, TablesFit
<1>4. c # ""
  BY SetFacts
<1>5. Logged(m, c) <=> \E r \in GetChanges(m, TRUE) : r.key = c /\ r.type = "add"
  BY <1>2 DEF Logged
<1>6. \A r \in GetChanges(m, TRUE) : r.key = c => r.type = "add"
  BY <1>2, <1>3, <1>4
<1> QED
  BY <1>4, <1>5, <1>6

\* A client reads what a mission contains, or its changes.
LEMMA ReadStep ==
  ASSUME TypeOK, TablesFit, Reads, NEW m \in Ids, NEW c \in Contents,
         LinkFirst(m, c), ChangeNext(m, c), MessageLast(m, c)
  PROVE  (LinkFirst(m, c) /\ ChangeNext(m, c) /\ MessageLast(m, c))'
<1>1. PICK k \in live, v \in Clients : getMissionHandler(k, v) \/ getMissionChangesHandler(k, v)
  BY DEF Reads
<1> DEFINE contents == IF getMissionHandler(k, v) THEN {x \in Contents : <<k, x>> \in links}
                       ELSE {r.key : r \in GetChanges(k, TRUE)} \ {""}
<1>2. /\ Learn(k, v, contents) /\ k \in Ids
      /\ ~getMissionHandler(k, v) => Cardinality(Changes(k)) <= ChangeLimit
  BY <1>1 DEF getMissionHandler, getMissionChangesHandler, TypeOK
<1>3. contents = {x \in Contents : <<k, x>> \in links}
      \/ (contents = {r.key : r \in GetChanges(k, TRUE)} \ {""} /\ Cardinality(Changes(k)) <= ChangeLimit)
  BY <1>2
<1> HIDE DEF contents
<1>4. /\ UNCHANGED <<req, links, log>> /\ follows' = follows \cup {<<k, v>>}
      /\ belief' = {x \in belief : <<x[1], x[2]>> # <<k, v>>} \cup ({k} \X {v} \X contents)
  BY <1>2 DEF Learn, tables
<1>5. \A p \in Procs : /\ At(p, {"log"}, m, c)' <=> At(p, {"log"}, m, c)
                       /\ At(p, {"log", "notify"}, m, c)' <=> At(p, {"log", "notify"}, m, c)
                       /\ ChangeType(p)' = ChangeType(p)
  BY <1>4 DEF At, Busy, Current, ChangeType
<1>6. Logged(m, c)' <=> Logged(m, c)
  BY <1>4 DEF Logged, Changes
<1>7. LinkFirst(m, c)' /\ ChangeNext(m, c)'
  BY <1>4, <1>5, <1>6 DEF LinkFirst, ChangeNext
<1>8. ASSUME NEW u \in Clients, <<m, u>> \in follows', \A p \in Procs : ~At(p, {"log", "notify"}, m, c)'
      PROVE  <<m, c>> \in links' <=> <<m, u, c>> \in belief'
  <2>1. \A p \in Procs : ~At(p, {"log", "notify"}, m, c) /\ ~At(p, {"log"}, m, c)
    BY <1>5, <1>8 DEF At
  <2>2. CASE <<m, u>> = <<k, v>>
    <3>1. <<m, u, c>> \in belief' <=> c \in contents
      BY <2>2, <1>4
    <3>2. <<m, c>> \in links <=> Logged(m, c)
      BY <2>1 DEF ChangeNext
    <3>3. c \in contents <=> <<m, c>> \in links
      <4>1. CASE contents = {x \in Contents : <<k, x>> \in links}
        BY <4>1, <2>2
      <4>2. CASE contents = {r.key : r \in GetChanges(k, TRUE)} \ {""} /\ Cardinality(Changes(k)) <= ChangeLimit
        <5>1. Logged(m, c) <=> c \in {r.key : r \in GetChanges(m, TRUE)} \ {""}
          BY <4>2, <2>2, SquashedIsLogged
        <5> QED
          BY <5>1, <4>2, <3>2, <2>2
      <4> QED
        BY <1>3, <4>1, <4>2
    <3> QED
      BY <3>1, <3>3, <1>4
  <2>3. CASE <<m, u>> # <<k, v>>
    <3>1. <<m, u>> \in follows /\ (<<m, u, c>> \in belief' <=> <<m, u, c>> \in belief)
      BY <2>3, <1>4, <1>8
    <3> QED
      BY <3>1, <2>1, <1>4 DEF MessageLast
  <2> QED
    BY <2>2, <2>3
<1>9. MessageLast(m, c)'
  BY <1>8 DEF MessageLast
<1> QED
  BY <1>7, <1>9

\* A mission is created.
LEMMA NewMissionStep ==
  ASSUME TypeOK, RequestsFit, IdsInOrder, [Next]_vars, NEW m \in Ids, NEW c \in Contents, m \notin live, m \in live'
  PROVE  (LinkFirst(m, c) /\ ChangeNext(m, c) /\ MessageLast(m, c))'
<1>m. missions \in [Ids -> MissionRows \cup {None}] /\ req \in [Procs -> Request]
  BY DEF TypeOK, RequestsFit
<1>1. PICK q \in Procs : CreateCommit(q)
  BY StepsFramed, EditEffect DEF Frame, TouchesMissions, Delete
<1>2. /\ m = NewId /\ missions[m] = None /\ Elsewhere(q) /\ req'[q].op = "create"
      /\ UNCHANGED <<links, belief>>
  BY <1>1, <1>m, Committed DEF CreateCommit
<1>3. /\ \A d \in log : d.id # m
      /\ <<m, c>> \notin links
      /\ \A u \in Clients : <<m, u, c>> \notin belief
  BY <1>2 DEF IdsInOrder
<1>4. \A p \in Procs : ~At(p, {"log", "notify"}, m, c)'
  <2> SUFFICES ASSUME NEW p \in Procs, At(p, {"log", "notify"}, m, c)' PROVE FALSE
    OBVIOUS
  <2>1. req'[p].id = m /\ req'[p].op \in ContentOps
    BY DEF At, Busy
  <2>2. req'[p] = req[p]
    BY <2>1, <1>2 DEF Elsewhere, ContentOps
  <2> QED
    BY <2>1, <2>2, <1>2, AtContents
<1>5. ~Logged(m, c)'
  <2>1. Log(NewId, "", "create")
    BY <1>1 DEF CreateCommit
  <2>2. \E r : r.key = "" /\ log' = log \cup {r}
    BY <2>1, LogAdds
  <2>3. c # ""
    BY SetFacts
  <2> QED
    BY <2>2, <2>3, <1>3 DEF Logged, Changes
<1> QED
  BY <1>2, <1>3, <1>4, <1>5 DEF LinkFirst, ChangeNext, MessageLast

\* A request works on the content.
LEMMA WorkStep ==
  ASSUME TypeOK, RequestsFit, IdsInOrder, TablesFit, OneAtWork, [Next]_vars, NEW m \in Ids, NEW c \in Contents,
         NEW p \in Procs, AtWork(p, m, c), <<m, c>> \notin raced, <<m, c>> \notin broken',
         LinkFirst(m, c), ChangeNext(m, c), MessageLast(m, c)
  PROVE  (LinkFirst(m, c) /\ ChangeNext(m, c) /\ MessageLast(m, c))'
<1>w. Changing(p) /\ req[p].id = m /\ Current(p) = c /\ Elsewhere(p)
  BY ChangingMoves DEF AtWork
<1>r. /\ req \in [Procs -> Request] /\ req[p] \in Request /\ req[p].op \in ContentOps
      /\ req[p].todo \in Seq(Contents) /\ req[p].todo # <<>> /\ c \in ToSet(req[p].todo)
      /\ req[p].pc = "link" => req[p].op = "point"
  <2>1. req[p].pc \in {"contents", "link", "log", "notify"}
    BY <1>w DEF Changing, Skip, AddMissionResource, RemoveContent, SavePoint, LinkPoint, PointFails, FailsUnnoticed,
           LogChange, Notify
  <2> QED
    BY <2>1, <1>w, AtContents, TailSet DEF RequestsFit, Current
<1>b. p \in Busy(m, c)
  BY <1>w, <1>r DEF Busy
<1>q. ASSUME NEW q \in Procs, q # p, NEW pcs PROVE ~At(q, pcs, m, c) /\ ~At(q, pcs, m, c)'
  <2>1. q \notin Busy(m, c)
    BY <1>q, <1>b DEF OneAtWork
  <2>2. req'[q] = req[q]
    BY <1>q, <1>w DEF Elsewhere
  <2> QED
    BY <2>1, <2>2 DEF At, Busy, Current
<1>k. ASSUME Keeps(p), req'[p].todo = req[p].todo
      PROVE  p \in Busy(m, c)' /\ Current(p)' = c /\ ChangeType(p)' = ChangeType(p)
  BY <1>k, <1>w, <1>r DEF Keeps, Busy, Current, ChangeType
<1>f. ~PointFails(p) /\ ~FailsUnnoticed(p)
  BY <1>w DEF PointFails, FailsUnnoticed, Breaks
<1>n. ASSUME NextContent(p) PROVE \A r \in Procs : ~At(r, {"log", "notify"}, m, c)' /\ ~At(r, {"log"}, m, c)'
  <2>1. req'[p].pc \in {"idle", "contents"}
    BY <1>n, <1>r, NextEffect, IdleFields
  <2> QED
    BY <2>1, <1>q DEF At
<1>s. ASSUME UNCHANGED <<links, log, belief, follows>>, req[p].pc = "contents",
             \A r \in Procs : ~At(r, {"log", "notify"}, m, c)' /\ ~At(r, {"log"}, m, c)'
      PROVE  (LinkFirst(m, c) /\ ChangeNext(m, c) /\ MessageLast(m, c))'
  <2>1. \A r \in Procs : ~At(r, {"log", "notify"}, m, c) /\ ~At(r, {"log"}, m, c)
    BY <1>s, <1>q DEF At
  <2>2. Logged(m, c)' <=> Logged(m, c)
    BY <1>s DEF Logged, Changes
  <2> QED
    BY <1>s, <2>1, <2>2 DEF LinkFirst, ChangeNext, MessageLast
<1>1. CASE Skip(p)
  <2>1. NextContent(p) /\ req[p].pc = "contents" /\ UNCHANGED <<links, log, belief, follows>>
    BY <1>1 DEF Skip, tables, ghosts
  <2> QED
    BY <2>1, <1>n, <1>s
<1>2. CASE SavePoint(p, req[p].new.scope)
  <2>1. (NextContent(p) \/ Goto(p, "link")) /\ req[p].pc = "contents" /\ UNCHANGED <<links, log, belief, follows>>
    BY <1>2 DEF SavePoint, ghosts
  <2>2. ASSUME Goto(p, "link")
        PROVE  \A r \in Procs : ~At(r, {"log", "notify"}, m, c)' /\ ~At(r, {"log"}, m, c)'
    <3>1. "link" \in Places
      BY DEF Places
    <3>2. req'[p].pc = "link"
      BY <3>1, <2>2, <1>r, GotoEffect
    <3> QED
      BY <3>2, <1>q DEF At
  <2> QED
    BY <2>1, <2>2, <1>n, <1>s
<1>3. CASE AddMissionResource(p) \/ LinkPoint(p) \/ RemoveContent(p)
  <2>1. /\ Keeps(p) /\ req'[p].todo = req[p].todo /\ req'[p].pc = "log"
        /\ <<m, c>> \in links' <=> ChangeType(p) = "add"
    <3>1. CASE AddMissionResource(p) \/ LinkPoint(p)
      <4>1. Linked(p) /\ req[p].op \in {"put", "point"}
        BY <3>1, <1>r DEF AddMissionResource, LinkPoint
      <4>2. Current(p) \in Contents
        BY <1>w
      <4>3. ChangeType(p) = "add"
        BY <4>1 DEF ChangeType
      <4> QED
        BY <4>1, <4>2, <4>3, <1>r, <1>w, LinkedEffect
    <3>2. CASE RemoveContent(p)
      <4>1. /\ Goto(p, "log") /\ links' = links \ {<<m, c>>} /\ req[p].op \in {"remove", "drop"} /\ "log" \in Places
        BY <3>2, <1>w DEF RemoveContent, Unlinked, Places
      <4>2. ChangeType(p) = "remove"
        BY <4>1 DEF ChangeType
      <4> QED
        BY <4>1, <4>2, <1>r, GotoEffect
    <3> QED
      BY <1>3, <3>1, <3>2
  <2>2. p \in Busy(m, c)' /\ Current(p)' = c /\ ChangeType(p)' = ChangeType(p)
    BY <2>1, <1>k
  <2>3. At(p, {"log"}, m, c)' /\ At(p, {"log", "notify"}, m, c)'
    BY <2>1, <2>2 DEF At
  <2>4. LinkFirst(m, c)'
    BY <2>1, <2>2, <1>q DEF LinkFirst
  <2> QED
    BY <2>3, <2>4 DEF ChangeNext, MessageLast
<1>4. CASE LogChange(p)
  <2>1. /\ Goto(p, "notify") /\ req[p].pc = "log" /\ Log(m, c, ChangeType(p)) /\ UNCHANGED links
        /\ "notify" \in Places
    BY <1>4, <1>w DEF LogChange, Places
  <2>2. Keeps(p) /\ req'[p].todo = req[p].todo /\ req'[p].pc = "notify"
    BY <2>1, <1>r, GotoEffect
  <2>3. p \in Busy(m, c)' /\ Current(p)' = c /\ ChangeType(p)' = ChangeType(p)
    BY <2>2, <1>k
  <2>4. At(p, {"log", "notify"}, m, c) /\ At(p, {"log", "notify"}, m, c)' /\ ~At(p, {"log"}, m, c)'
    BY <2>1, <2>2, <2>3, <1>b, <1>w DEF At
  <2>5. <<m, c>> \in links' <=> ChangeType(p) = "add"
    BY <2>1, <2>4 DEF LinkFirst
  <2>6. LinkFirst(m, c)'
    BY <2>3, <2>5, <1>q DEF LinkFirst
  <2>7. Logged(m, c)' <=> ChangeType(p) = "add"
    <3>1. ChangeType(p) \in {"create", "add", "remove"} /\ ChangeType(p) # "create"
      BY DEF ChangeType
    <3>2. LogTyped
      BY TypesParted DEF TablesTyped
    <3>t. PICK t \in {"create", "add", "remove"} : t = ChangeType(p)
      BY <3>1
    <3>a. (t = "create" => c = "") /\ Log(m, c, t) /\ c \in Contents \cup {""}
      BY <2>1, <3>1, <3>t
    <3>b. /\ LogTyped' /\ IsFiniteSet(log)' /\ changes' = changes + 1
          /\ (\A d, e \in log : d.at = e.at => d = e)' /\ (\A d \in log : d.type = "create" => d.key = "")'
          /\ \E r \in log' : Newest(r, m, c, t)
      BY <3>a, <3>2, LogWrites
    <3>3. /\ \A d, e \in log' : d.at = e.at => d = e
          /\ \E r \in log' : /\ r.id = m /\ r.key = c /\ r.type = ChangeType(p)
                             /\ \A d \in log' : d.at <= r.at
      BY <3>b, <3>t DEF Newest
    <3>4. PICK r \in log' : r.id = m /\ r.key = c /\ r.type = ChangeType(p) /\ \A d \in log' : d.at <= r.at
      BY <3>3
    <3>5. \A d \in log' : d.at \in Nat
      <4>1. LogTyped'
        BY <3>b
      <4>2. changes' \in Nat /\ 1..changes' \subseteq Nat
        BY <4>1 DEF LogTyped
      <4> QED
        BY <4>1, <4>2 DEF LogTyped, ChangeRows
    <3>6. \A d \in log' : r.at <= d.at => d = r
      <4> SUFFICES ASSUME NEW d \in log', r.at <= d.at PROVE d = r
        OBVIOUS
      <4>1. d.at <= r.at /\ d.at \in Nat /\ r.at \in Nat
        BY <3>4, <3>5
      <4>2. d.at = r.at
        BY <4>1
      <4> QED
        BY <4>2, <3>3
    <3> QED
      BY <3>4, <3>6 DEF Logged, Changes
  <2>8. ChangeNext(m, c)'
    BY <2>5, <2>7 DEF ChangeNext
  <2>9. MessageLast(m, c)'
    BY <2>4 DEF MessageLast
  <2> QED
    BY <2>6, <2>8, <2>9
<1>5. CASE Notify(p)
  <2>1. NextContent(p) /\ req[p].pc = "notify" /\ UNCHANGED <<links, log>>
    BY <1>5 DEF Notify, tables
  <2>2. \A r \in Procs : ~At(r, {"log", "notify"}, m, c)' /\ ~At(r, {"log"}, m, c)'
    BY <2>1, <1>n
  <2>3. At(p, {"log", "notify"}, m, c) /\ \A r \in Procs : ~At(r, {"log"}, m, c)
    BY <2>1, <1>b, <1>w, <1>q DEF At
  <2>4. (<<m, c>> \in links <=> ChangeType(p) = "add") /\ (<<m, c>> \in links <=> Logged(m, c))
    BY <2>3 DEF LinkFirst, ChangeNext
  <2>5. Logged(m, c)' <=> Logged(m, c)
    BY <2>1 DEF Logged, Changes
  <2>6. ASSUME NEW u \in Clients, <<m, u>> \in follows' PROVE <<m, u, c>> \in belief' <=> ChangeType(p) = "add"
    <3> DEFINE rows == Subscriptions(m, 0)
    <3>p. PICK lost \in SUBSET ToldOf(p) :
            /\ follows' = follows \ ({m} \X (lost \cup IF Cardinality(rows) > SubLimit THEN Clients
                                                      ELSE Clients \ {s.uid : s \in rows}))
            /\ belief' = IF ChangeType(p) = "add" THEN belief \cup ({m} \X (ToldOf(p) \ lost) \X {c})
                         ELSE belief \ ({m} \X (ToldOf(p) \ lost) \X {c})
      BY <1>5, <1>w DEF Notify
    <3> DEFINE of == {m} \X (ToldOf(p) \ lost) \X {c}
    <3>1. belief' = IF ChangeType(p) = "add" THEN belief \cup of ELSE belief \ of
      BY <3>p
    <3>2. u \in {s.uid : s \in rows} /\ ~(Cardinality(rows) > SubLimit) /\ u \notin lost
      BY <2>6, <3>p
    <3>3. Cardinality(rows) <= SubLimit
      <4>1. IsFiniteSet(rows)
        <5>1. rows \subseteq subs
          BY DEF Subscriptions
        <5> QED
          BY <5>1, FS_Subset DEF TablesFit
      <4>2. Cardinality(rows) \in Nat /\ SubLimit \in Nat
        BY <4>1, FS_CardinalityType, MissionsAssumption DEF MissionsAssumption
      <4> QED
        BY <4>2, <3>2
    <3>4. u \in ToldOf(p)
      BY <3>2, <3>3, <1>w, SubscribersAll DEF ToldOf
    <3>5. <<m, u, c>> \in of
      BY <3>2, <3>4
    <3> QED
      BY <3>1, <3>5
  <2> QED
    BY <2>1, <2>2, <2>4, <2>5, <2>6 DEF LinkFirst, ChangeNext, MessageLast
<1> QED
  BY <1>w, <1>f, <1>1, <1>2, <1>3, <1>4, <1>5 DEF Changing

\* Link, change and message stay in order.
LEMMA InOrderStep ==
  ASSUME TypeOK, RequestsFit, IdsInOrder, TablesFit, OneAtWork, InOrder, [Next]_vars
  PROVE  InOrder'
<1> SUFFICES ASSUME NEW m \in Ids, NEW c \in Contents, m \in live', <<m, c>> \notin raced', <<m, c>> \notin broken'
             PROVE  (LinkFirst(m, c) /\ ChangeNext(m, c) /\ MessageLast(m, c))'
  BY DEF InOrder, Tracked
<1>1. <<m, c>> \notin raced /\ <<m, c>> \notin broken
  BY GhostsGrow
<1>2. CASE m \notin live
  BY <1>2, NewMissionStep
<1>3. CASE m \in live
  <2>1. LinkFirst(m, c) /\ ChangeNext(m, c) /\ MessageLast(m, c)
    BY <1>1, <1>3 DEF InOrder, Tracked
  <2>2. CASE Reads
    BY <2>1, <2>2, ReadStep
  <2>3. CASE \E p \in Procs : AtWork(p, m, c)
    BY <2>1, <2>3, <1>1, WorkStep
  <2>4. CASE ~Reads /\ ~ \E p \in Procs : AtWork(p, m, c)
    BY <2>1, <2>4, OtherStep
  <2> QED
    BY <2>2, <2>3, <2>4
<1> QED
  BY <1>2, <1>3
-----------------------------------------------------------------------------
(* The theorems. *)

\* The empty database.
LEMMA InitFits == Init => IInv
<1> SUFFICES ASSUME Init PROVE IInv
  OBVIOUS
<1>0. /\ missions = [m \in Ids |-> None] /\ live = {} /\ subs = {} /\ invites = {} /\ links = {}
      /\ pointOf = [p \in Points |-> ""] /\ log = {} /\ changes = 0 /\ announced = {} /\ belief = {}
      /\ req = [p \in Procs |-> Idle] /\ txn = {}
      /\ raced = {} /\ broken = {} /\ follows = Ids \X Clients /\ owing = [m \in Ids |-> 0]
      /\ edited = {} /\ faults = 0
  BY DEF Init
<1>1. RequestsFit /\ \A p \in Procs : req[p] = Idle
  BY <1>0, IdleFits DEF RequestsFit
<1>2. TypeOK
  <2>1. MissionsTyped /\ RowsTyped /\ LinksTyped /\ OthersTyped
    BY <1>0 DEF MissionsTyped, RowsTyped, LinksTyped, OthersTyped
  <2>2. LogTyped
    BY <1>0 DEF LogTyped
  <2>3. GhostsTyped
    <3>1. MaxFaults \in Nat
      BY MissionsAssumption DEF MissionsAssumption
    <3>0. faults = 0
      BY <1>0
    <3>2. faults \in 0..MaxFaults
      BY <3>0, <3>1
    <3> QED
      BY <3>2, <1>0 DEF GhostsTyped
  <2> QED
    BY <2>1, <2>2, <2>3, <1>1, TypesParted DEF TablesTyped
<1>3. IdsInOrder
  <2>1. {m \in Ids : missions[m] # None} = {}
    BY <1>0
  <2>2. 0 \in 0..MaxMissions /\ 1..0 = {}
    <3>1. MaxMissions \in Nat
      BY SetFacts
    <3> QED
      BY <3>1
  <2>3. \E n \in 0..MaxMissions : {m \in Ids : missions[m] # None} = 1..n
    BY <2>1, <2>2
  <2> QED
    BY <2>3, <1>0 DEF IdsInOrder
<1>4. TablesFit
  BY <1>0, FS_EmptySet DEF TablesFit
<1>5. AdmittedFirst /\ SubscribersAdmitted
  BY <1>0, <1>1, IdleFields DEF AdmittedFirst, SubscribersAdmitted
<1>6. TransactionsKnown
  BY <1>0, <1>1, IdleFields DEF TransactionsKnown, InTransaction
<1>7. FoundHolds
  BY <1>0, <1>1, IdleFields DEF FoundHolds, OneMissionPerName, OneSubscription
<1>8. LeftoversBounded
  BY <1>0 DEF LeftoversBounded
<1>9. \A m \in Ids, c \in Contents : Busy(m, c) = {}
  BY <1>1, IdleFields DEF Busy, ContentOps
<1>10. OneAtWork
  BY <1>9 DEF OneAtWork
<1>11. InOrder
  BY <1>0 DEF InOrder, Tracked
<1> QED
  BY <1>1, <1>2, <1>3, <1>4, <1>5, <1>6, <1>7, <1>8, <1>10, <1>11 DEF IInv

\* Every step keeps the invariant.
LEMMA StepsKeep == IInv /\ [Next]_vars => IInv'
<1> SUFFICES ASSUME IInv, [Next]_vars PROVE IInv'
  OBVIOUS
<1>0. /\ TypeOK /\ RequestsFit /\ IdsInOrder /\ TablesFit /\ AdmittedFirst /\ SubscribersAdmitted
      /\ TransactionsKnown /\ FoundHolds /\ LeftoversBounded /\ OneAtWork /\ InOrder
  BY DEF IInv
<1>1. TypeOK' /\ TablesFit' /\ RequestsFit' /\ IdsInOrder'
  BY <1>0, TypeStep, RequestsFitStep, IdsStep
<1>2. AdmittedFirst' /\ SubscribersAdmitted'
  BY <1>0, AdmittedStep, SubscribersStep
<1>3. TransactionsKnown' /\ FoundHolds'
  BY <1>0, TransactionsStep, FoundStep
<1>4. LeftoversBounded'
  BY <1>0, LeftoversStep
<1>5. OneAtWork' /\ InOrder'
  BY <1>0, OneAtWorkStep, InOrderStep
<1> QED
  BY <1>1, <1>2, <1>3, <1>4, <1>5 DEF IInv

\* What the handlers and the message loop keep of missions, whatever the
\* order of their statements.
THEOREM Invariance == Spec => []IInv
BY InitFits, StepsKeep, PTL DEF Spec

\* A mission's name in its scope, and a client's subscription to a mission,
\* stay unique where writing transactions are serialized (SQLite): a creation
\* and a subscription look and write in one transaction.  A mission whose
\* columns a metadata request wrote is excepted, and only for those columns.
THEOREM RowsStaySound == ASSUME Serializable PROVE Spec => []RowsAreSound
<1>1. Serializable => (IInv => RowsAreSound)
  BY DEF IInv, FoundHolds, RowsAreSound
<1>2. IInv => RowsAreSound
  BY <1>1
<1> QED
  BY <1>2, Invariance, PTL

\* Without serialized transactions (MySQL) too, nobody is subscribed who was
\* not admitted by what the mission is.
THEOREM SubscribersStayAdmitted == Spec => [](TypeOK /\ SubscribersAdmitted)
<1>1. IInv => TypeOK /\ SubscribersAdmitted
  BY DEF IInv
<1> QED
  BY <1>1, Invariance, PTL

\* What DeleteMission leaves of a mission is no more than what the requests
\* that had read it could still write.
THEOREM LeftoversStayBounded == Spec => []LeftoversBounded
<1>1. IInv => LeftoversBounded
  BY DEF IInv
<1> QED
  BY <1>1, Invariance, PTL

\* The squashed change log shows what the mission contains, of contents that
\* no two requests handled at once and no statement failed for.
THEOREM ChangesShowContents == Spec => []SquashedShowsContents
<1>1. IInv => SquashedShowsContents
  <2> SUFFICES ASSUME IInv, NEW m \in live, NEW c \in Contents, Settled(m, c), Cardinality(Changes(m)) <= ChangeLimit
               PROVE  <<m, c>> \in links <=> \E r \in GetChanges(m, TRUE) : r.key = c /\ r.type = "add"
    BY DEF SquashedShowsContents
  <2>1. TypeOK /\ TablesFit /\ InOrder /\ m \in Ids
    BY DEF IInv, TypeOK
  <2>2. Tracked(m, c) /\ \A p \in Procs : ~At(p, {"log"}, m, c)
    BY DEF Settled, Tracked, At
  <2>3. <<m, c>> \in links <=> Logged(m, c)
    BY <2>1, <2>2 DEF InOrder, ChangeNext
  <2> QED
    BY <2>1, <2>3, SquashedIsLogged
<1> QED
  BY <1>1, Invariance, PTL

\* A client that read a mission, stayed subscribed since and lost no message
\* of a change knows what the mission contains.
THEOREM FollowersKnow == Spec => []SubscribersFollow
<1>1. IInv => SubscribersFollow
  <2> SUFFICES ASSUME IInv, NEW m \in live, NEW u \in Clients, NEW c \in Contents, Settled(m, c), <<m, u>> \in follows
               PROVE  <<m, c>> \in links <=> <<m, u, c>> \in belief
    BY DEF SubscribersFollow
  <2>1. InOrder /\ m \in Ids
    BY DEF IInv, TypeOK
  <2>2. Tracked(m, c) /\ \A p \in Procs : ~At(p, {"log", "notify"}, m, c)
    BY DEF Settled, Tracked, At
  <2> QED
    BY <2>1, <2>2 DEF InOrder, MessageLast
<1> QED
  BY <1>1, Invariance, PTL
=============================================================================
