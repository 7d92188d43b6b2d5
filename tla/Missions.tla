------------------------------ MODULE Missions ------------------------------
(***************************************************************************)
(* Missions: who subscribes to them, what they contain, and the log of     *)
(* changes their subscribers follow.                                       *)
(*                                                                         *)
(* Every HTTP handler reads its mission first and works on that copy in    *)
(* later statements, while other handlers and the message loop change the  *)
(* same tables.  A request is a process here, and every statement (or      *)
(* transaction) it makes to the database a step.                           *)
(*                                                                         *)
(* SQLite runs one writing transaction at a time; MySQL lets a check and   *)
(* the write after it be separated, no index makes the pair unique.        *)
(***************************************************************************)
EXTENDS Integers, Sequences, FiniteSets, SequencesExt

CONSTANTS Users, Scopes,
          Scope,       \* the scope of each user
          ReadScopes,  \* the other scopes each may read
          Clients,     \* client uids, as numbers: rows are ordered by them
          Trusted,     \* clients who know the passwords
          Names, Kinds,    \* names and kinds of missions
          Hashes, Points,  \* contents: resources and map points
          Stored,      \* the resource rows, as pairs of scope and hash
          ResourceId,  \* their ids
          Handlers,    \* requests at work at the same time
          Loop,        \* the message loop of the server
          Kept,        \* operations the run looks at
          Serializable,    \* SQLite
          SubLimit,    \* rows a subscription query returns (100)
          ChangeLimit, \* rows a change query returns (100)
          MaxMissions, MaxLog, MaxFaults   \* bounds

Contents == Hashes \cup Points
Ids == 1..MaxMissions
Procs == Handlers \cup {Loop}

ASSUME MissionsAssumption ==
  /\ Scope \in [Users -> Scopes] /\ ReadScopes \in [Users -> SUBSET Scopes]
  /\ Clients \subseteq Nat \ {0} /\ Trusted \subseteq Clients
  /\ Kinds \subseteq {"open", "password", "invite only"}
  /\ Stored \subseteq Scopes \X Hashes /\ ResourceId \in [Stored -> Nat \ {0}] /\ Loop \notin Handlers /\ IsFiniteSet(Handlers) /\ "" \notin Contents
  /\ Serializable \in BOOLEAN /\ {SubLimit, ChangeLimit, MaxMissions} \subseteq Nat \ {0}
  /\ {MaxLog, MaxFaults} \subseteq Nat

VARIABLES
  missions,   \* the missions table: a function of the ids ever given
  live,       \* the ids not deleted
  subs,       \* subscriptions; row tells apart two of one client
  invites,    \* invitations
  links,      \* mission_resources and mission_points
  pointOf,    \* the scope of each point row, one row to a uid
  log,        \* the changes table
  changes,    \* changes made so far: created_at, the order of the table
  announced,  \* missions whose creation went to app.ch
  belief,     \* contents of missions each client believes in, from what it
              \* read and was sent
  req,        \* what each request is doing
  txn,        \* requests inside a transaction
  raced,      \* contents two requests on a mission worked on at once
  broken,     \* contents of a mission a statement about which failed
  follows,    \* clients sent every change, or subscribed at it, since they read
              \* the mission
  edited,     \* columns of missions written by way of a resource
  owing,      \* rows requests could still write when a mission was deleted
  faults      \* statements that failed

tables == <<missions, live, subs, invites, links, pointOf, log, changes>>
ghosts == <<raced, broken, follows, owing, edited>>
vars == <<tables, announced, belief, req, txn, ghosts, faults>>

Columns == {"scope", "name", "kind", "creator"}
MissionRows == [scope : Scopes, name : Names, kind : Kinds, creator : Clients \cup {0}]
None == [scope |-> "", name |-> "", kind |-> "", creator |-> 0]

\* A request: the mission it read (or makes), with what it contained if the
\* read was a full one, the row it found, and the contents it has still to do.
Idle == [pc |-> "idle", op |-> "", id |-> 0, new |-> None, uid |-> 0, row |-> 0,
         seen |-> {}, todo |-> <<>>]

ContentOps == {"put", "remove", "point", "drop"}
Ops == ContentOps \cup {"create", "delete", "subscribe", "unsubscribe", "invite", "uninvite"}

TypeOK ==
  /\ missions \in [Ids -> MissionRows \cup {None}] /\ live \subseteq {m \in Ids : missions[m] # None}
  /\ subs \subseteq [id : Ids, uid : Clients, row : Nat \ {0}, role : {"creator", "subscriber"}]
  /\ invites \subseteq [id : Ids, uid : Clients, row : Nat \ {0}]
  /\ links \subseteq Ids \X Contents
  /\ pointOf \in [Points -> Scopes \cup {""}]
  /\ log \subseteq [id : Ids, key : Contents \cup {""}, type : {"create", "add", "remove"}, at : 1..changes]
  /\ changes \in Nat
  /\ announced \subseteq Ids /\ txn \subseteq Procs
  /\ belief \subseteq Ids \X Clients \X Contents
  /\ \A p \in Procs :
        /\ req[p].pc \in {"idle", "new", "subscribe", "save", "contents", "find", "link", "statement",
                          "log", "notify", "announce"}
        /\ req[p].op \in Ops \cup {""} /\ req[p].id \in Ids \cup {0}
        /\ req[p].uid \in Clients \cup {0} /\ req[p].todo \in Seq(Contents)
        /\ req[p].seen \subseteq Contents /\ req[p].new \in MissionRows \cup {None}
        /\ req[p].row \in Nat
  /\ raced \subseteq Ids \X Contents /\ broken \subseteq Ids \X Contents
  /\ follows \subseteq Ids \X Clients /\ edited \subseteq Ids \X Columns /\ owing \in [Ids -> Nat] /\ faults \in 0..MaxFaults

Init ==
  /\ missions = [m \in Ids |-> None] /\ live = {} /\ subs = {} /\ invites = {} /\ links = {}
  /\ pointOf = [p \in Points |-> ""] /\ log = {} /\ changes = 0 /\ announced = {}
  /\ belief = {}
  /\ req = [p \in Procs |-> Idle] /\ txn = {}
  /\ raced = {} /\ broken = {} /\ follows = Ids \X Clients /\ owing = [m \in Ids |-> 0]
  /\ edited = {} /\ faults = 0

-----------------------------------------------------------------------------
(* The queries. *)

\* Missions of one name in a set of scopes; One() returns any of them.
MissionQuery(scopes, name) ==
  {m \in live : missions[m].name = name /\ missions[m].scope \in scopes}

Subscriptions(m, uid) == {s \in subs : s.id = m /\ (uid = 0 \/ s.uid = uid)}
Invitations(m, uid) == {i \in invites : i.id = m /\ i.uid = uid}

\* The rows get() returns, in the order of a column, and those one() may.
Get(rows, column, limit) == {r \in rows : Cardinality({t \in rows : column[t] < column[r]}) < limit}
One(rows) == IF rows = {} THEN {0} ELSE {r.row : r \in rows}

\* Ordered by client_uid.
GetSubscribers(m) == {s.uid : s \in Get(Subscriptions(m, 0), [s \in subs |-> s.uid], SubLimit)}

\* Save of a row found, or of a new one.
FreeRow(rows) == CHOOSE n \in 1..(Cardinality(rows) + 1) : \A r \in rows : r.row # n
RowFor(found, rows) == IF found = 0 THEN FreeRow(rows) ELSE found

Changes(m) == {c \in log : c.id = m}

\* Newest first.
ChangesOf(m) == Get(Changes(m), [c \in log |-> -c.at], ChangeLimit)

\* Mutant: of the changes of a content the oldest is kept.
GetChangesOldest(m, squashed) ==
  {c \in ChangesOf(m) : squashed =>
    c.type # "remove" /\ \A d \in ChangesOf(m) : d.key = c.key => d.at >= c.at}

\* Squashed, the last change of each content, removals left out.
GetChanges(m, squashed) ==
  {c \in ChangesOf(m) : squashed =>
    c.type # "remove" /\ \A d \in ChangesOf(m) : d.key = c.key => d.at <= c.at}

MayWrite(p) == Serializable => txn \subseteq {p}

\* A statement fails: the database is locked, or gone.
Fault(p) == faults < MaxFaults /\ faults' = faults + 1

Done(p) == req' = [req EXCEPT ![p] = Idle]
Goto(p, pc) == req' = [req EXCEPT ![p].pc = pc]

\* Rows a request may still write for its mission.
Owes(p) == CASE req[p].pc \in {"subscribe", "find", "save"} -> 1
             [] req[p].op \in ContentOps -> Len(req[p].todo) - (IF req[p].pc = "notify" THEN 1 ELSE 0)
             [] OTHER -> 0

Rows(m) == Cardinality(Subscriptions(m, 0)) + Cardinality({i \in invites : i.id = m}) + Cardinality(Changes(m))

Pending(m) == Cardinality(UNION {{p} \X (1..Owes(p)) : p \in {q \in Procs : req[q].id = m}})

Busy(m, c) == {p \in Procs : req[p].id = m /\ req[p].op \in ContentOps /\ c \in ToSet(req[p].todo)}

-----------------------------------------------------------------------------
(* Creating and deleting. *)

Idling(p, op) == req[p].pc = "idle" /\ op \in Kept

\* Mutant: ids of deleted missions are given again.
NewIdReused == CHOOSE m \in Ids \ live : \A k \in Ids \ live : m <= k

\* A change enters the table.
Log(m, key, type) ==
  /\ Cardinality(log) < MaxLog /\ changes' = changes + 1
  /\ log' = log \cup {[id |-> m, key |-> key, type |-> type, at |-> changes']}

NewId == Cardinality({m \in Ids : missions[m] # None}) + 1

NameTaken(u, n) == MissionQuery({Scope[u]}, n) # {}

\* The transaction of CreateMission looks for the name first.
CreateBegin(p, u, n, k, c) ==
  /\ Idling(p, "create") /\ MayWrite(p) /\ ~NameTaken(u, n)
  /\ txn' = txn \cup {p}
  /\ req' = [req EXCEPT ![p] = [Idle EXCEPT !.pc = "new", !.op = "create", !.uid = c,
                !.new = [scope |-> Scope[u], name |-> n, kind |-> k, creator |-> c]]]
  /\ UNCHANGED <<tables, announced, belief, ghosts, faults>>

AfterCreate(p) == IF req[p].uid = 0 THEN "announce" ELSE "subscribe"

\* It writes the mission and its first change.
CreateCommit(p) ==
  /\ req[p].pc = "new" /\ live # Ids /\ NewId \in Ids
  /\ missions' = [missions EXCEPT ![NewId] = req[p].new] /\ live' = live \cup {NewId}
  /\ Log(NewId, "", "create")
  /\ txn' = txn \ {p}
  /\ req' = [req EXCEPT ![p].id = NewId, ![p].pc = AfterCreate(p)]
  /\ UNCHANGED <<subs, invites, links, pointOf, announced, belief, ghosts, faults>>

Announce(p) ==
  /\ req[p].pc = "announce" /\ Done(p)
  /\ announced' = IF req[p].new.kind = "invite only" THEN announced ELSE announced \cup {req[p].id}
  /\ UNCHANGED <<tables, belief, txn, ghosts, faults>>

\* A transaction that fails leaves nothing; the handler answers with the error.
Abort(p) ==
  /\ req[p].pc \in {"new", "save"} /\ Fault(p) /\ Done(p) /\ txn' = txn \ {p}
  /\ UNCHANGED <<tables, announced, belief, ghosts>>

\* The mission a user names: any of those the user may read.
Readable(u, n) == MissionQuery({Scope[u]} \cup ReadScopes[u], n)

Ask(p, op, m, uid, pc) ==
  /\ Idling(p, op)
  /\ req' = [req EXCEPT ![p] = [Idle EXCEPT !.pc = pc, !.op = op, !.id = m, !.new = missions[m], !.uid = uid]]
  /\ UNCHANGED <<tables, announced, belief, txn, ghosts, faults>>

\* Mutant: the subscriptions stay.
DeleteRowsButSubs(m) == invites' = {i \in invites : i.id # m} /\ UNCHANGED subs

DeleteRows(m) == /\ invites' = {i \in invites : i.id # m}
                 /\ subs' = {s \in subs : s.id # m}

\* What a mission contained stays linked to its id.
Delete(p) ==
  /\ req[p].op = "delete" /\ MayWrite(p) /\ Done(p)
  /\ live' = live \ {req[p].id} /\ DeleteRows(req[p].id)
  /\ log' = log \ Changes(req[p].id)
  /\ owing' = [owing EXCEPT ![req[p].id] = Pending(req[p].id)]
  /\ UNCHANGED <<missions, links, pointOf, changes, announced, belief, txn, raced, broken, follows, edited, faults>>

-----------------------------------------------------------------------------
(* Subscriptions and invitations. *)

\* What Subscribe tests on the copy that was read.
Admitted(p) == \/ req[p].op = "create"
               \/ req[p].new.kind = "open"
               \/ req[p].new.kind = "password" /\ req[p].uid \in Trusted

Refuse(p) ==
  /\ req[p].pc = "subscribe" /\ ~Admitted(p) /\ Done(p)
  /\ UNCHANGED <<tables, announced, belief, txn, ghosts, faults>>

Found(p) == Subscriptions(req[p].id, req[p].uid)

SubscribeBegin(p) ==
  /\ req[p].pc = "subscribe" /\ Admitted(p) /\ MayWrite(p)
  /\ txn' = txn \cup {p}
  /\ \E n \in One(Found(p)) :
        req' = [req EXCEPT ![p].pc = "save", ![p].row = n]
  /\ UNCHANGED <<tables, announced, belief, ghosts, faults>>

SubscribeCommit(p) ==
  /\ req[p].pc = "save" /\ req[p].op # "invite"
  /\ LET rows == Subscriptions(req[p].id, req[p].uid)
         n == RowFor(req[p].row, rows)
     IN subs' = {s \in subs : s \notin rows \/ s.row # n} \cup
          {[id |-> req[p].id, uid |-> req[p].uid, row |-> n,
            role |-> IF req[p].op = "create" THEN "creator" ELSE "subscriber"]}
  /\ txn' = txn \ {p}
  /\ IF req[p].op = "create" THEN Goto(p, "announce") ELSE Done(p)
  /\ UNCHANGED <<missions, live, invites, links, pointOf, log, changes, announced, belief, ghosts, faults>>

\* Without a uid the condition is dropped: everybody's subscription goes.
Unsubscribe(p) ==
  /\ req[p].op = "unsubscribe" /\ MayWrite(p) /\ Done(p)
  /\ subs' = subs \ Subscriptions(req[p].id, req[p].uid)
  /\ UNCHANGED <<missions, live, invites, links, pointOf, log, changes, announced, belief, txn, ghosts, faults>>

\* Invite has no transaction: it finds, then saves.
InviteFind(p) ==
  /\ req[p].op = "invite" /\ req[p].pc = "find"
  /\ \E n \in One(Invitations(req[p].id, req[p].uid)) :
        req' = [req EXCEPT ![p].pc = "save", ![p].row = n]
  /\ UNCHANGED <<tables, announced, belief, txn, ghosts, faults>>

InviteSave(p) ==
  /\ req[p].op = "invite" /\ req[p].pc = "save" /\ MayWrite(p) /\ Done(p)
  /\ LET rows == Invitations(req[p].id, req[p].uid)
     IN invites' = invites \cup {[id |-> req[p].id, uid |-> req[p].uid, row |-> RowFor(req[p].row, rows)]}
  /\ UNCHANGED <<missions, live, subs, links, pointOf, log, changes, announced, belief, txn, ghosts, faults>>

Uninvite(p) ==
  /\ req[p].op = "uninvite" /\ MayWrite(p) /\ Done(p)
  /\ invites' = invites \ Invitations(req[p].id, req[p].uid)
  /\ UNCHANGED <<missions, live, subs, links, pointOf, log, changes, announced, belief, txn, ghosts, faults>>

-----------------------------------------------------------------------------
(* Contents: resources of a request, points of the message loop. *)

\* A request for contents; PUT reads the mission without what it contains.
AskContents(p, op, m, todo) ==
  /\ Idling(p, op)
  /\ req' = [req EXCEPT ![p] = [Idle EXCEPT !.pc = "contents", !.op = op, !.id = m, !.new = missions[m],
                !.seen = IF op = "put" THEN {} ELSE {c \in Contents : <<m, c>> \in links},
                !.todo = todo]]
  /\ raced' = raced \cup ({m} \X {c \in ToSet(todo) : Busy(m, c) # {}})
  /\ UNCHANGED <<tables, announced, belief, txn, broken, follows, owing, edited, faults>>

Current(p) == Head(req[p].todo)

NextContent(p) ==
  req' = [req EXCEPT ![p] = IF Len(req[p].todo) = 1 THEN Idle
                            ELSE [req[p] EXCEPT !.pc = "contents", !.todo = Tail(req[p].todo)]]

\* Nothing to add, or nothing to remove.
Nothing(p) == CASE req[p].op = "put" -> \/ Current(p) \in req[p].seen
                                       \/ <<req[p].new.scope, Current(p)>> \notin Stored
                [] req[p].op = "point" -> FALSE
                [] OTHER -> Current(p) \notin req[p].seen

Skip(p) ==
  /\ req[p].pc = "contents" /\ Nothing(p) /\ NextContent(p)
  /\ UNCHANGED <<tables, announced, belief, txn, ghosts, faults>>

Linked(p) == /\ links' = links \cup {<<req[p].id, Current(p)>>}
             /\ req' = [req EXCEPT ![p].pc = "log", ![p].seen = req[p].seen \cup {Current(p)}]
Unlinked(p) == links' = links \ {<<req[p].id, Current(p)>>} /\ Goto(p, "log")

AddMissionResource(p) ==
  /\ req[p].pc = "contents" /\ req[p].op = "put" /\ MayWrite(p)
  /\ ~Nothing(p) /\ Linked(p)
  /\ UNCHANGED <<missions, live, subs, invites, pointOf, log, changes, announced, belief, txn, ghosts, faults>>

RemoveContent(p) ==
  /\ req[p].pc = "contents" /\ req[p].op \in {"remove", "drop"} /\ MayWrite(p)
  /\ ~Nothing(p) /\ Unlinked(p)
  /\ UNCHANGED <<missions, live, subs, invites, pointOf, log, changes, announced, belief, txn, ghosts, faults>>

\* The row of the uid is found whatever its scope, and overwritten; s is the
\* scope of the message.  A point the mission had is written and nothing more.
SavePoint(p, s) ==
  /\ req[p].pc = "contents" /\ req[p].op = "point" /\ MayWrite(p)
  /\ pointOf' = [pointOf EXCEPT ![Current(p)] = s]
  /\ IF Current(p) \in req[p].seen THEN NextContent(p) ELSE Goto(p, "link")
  /\ UNCHANGED <<missions, live, subs, invites, links, log, changes, announced, belief, txn, ghosts, faults>>

LinkPoint(p) ==
  /\ req[p].pc = "link" /\ MayWrite(p) /\ Linked(p)
  /\ UNCHANGED <<missions, live, subs, invites, pointOf, log, changes, announced, belief, txn, ghosts, faults>>

Breaks(p) == Fault(p) /\ broken' = broken \cup {<<req[p].id, Current(p)>>}

\* AddMissionPoint gives up when a row cannot be written.
PointFails(p) ==
  /\ req[p].op = "point" /\ req[p].pc \in {"contents", "link"}
  /\ Breaks(p) /\ NextContent(p)
  /\ UNCHANGED <<tables, announced, belief, txn, raced, follows, owing, edited>>

\* The others go on when the link, and all do when the change, was not written.
FailsUnnoticed(p) ==
  /\ \/ req[p].pc = "contents" /\ req[p].op # "point" /\ ~Nothing(p) /\ Goto(p, "log")
     \/ req[p].pc = "log" /\ Goto(p, "notify")
  /\ Breaks(p)
  /\ UNCHANGED <<tables, announced, belief, txn, raced, follows, owing, edited>>

ChangeType(p) == IF req[p].op \in {"put", "point"} THEN "add" ELSE "remove"

LogChange(p) ==
  /\ req[p].pc = "log" /\ MayWrite(p)
  /\ Log(req[p].id, Current(p), ChangeType(p))
  /\ Goto(p, "notify")
  /\ UNCHANGED <<missions, live, subs, invites, links, pointOf, announced, belief, txn, ghosts, faults>>

\* Mutant: the loop tells nobody of a point removed.
ToldOfAdditions(p) == IF req[p].op = "drop" THEN {} ELSE GetSubscribers(req[p].id)

ToldOf(p) == GetSubscribers(req[p].id)

\* Every subscriber is sent the change; lost are those who have no connection,
\* or whose connection has a full queue.
Notify(p) ==
  /\ req[p].pc = "notify"
  /\ \E lost \in SUBSET ToldOf(p) :
       LET of == {req[p].id} \X (ToldOf(p) \ lost) \X {Current(p)}
           rows == Subscriptions(req[p].id, 0)
       IN /\ belief' = IF ChangeType(p) = "add" THEN belief \cup of ELSE belief \ of
          /\ follows' = follows \ ({req[p].id} \X (lost \cup IF Cardinality(rows) > SubLimit THEN Clients
                                                            ELSE Clients \ {s.uid : s \in rows}))
  /\ NextContent(p)
  /\ UNCHANGED <<tables, announced, txn, raced, broken, owing, edited, faults>>

-----------------------------------------------------------------------------
(* The handlers. *)

\* A client takes what it read for what the mission contains.
Learn(m, u, contents) ==
  /\ belief' = {x \in belief : <<x[1], x[2]>> # <<m, u>>} \cup ({m} \X {u} \X contents)
  /\ follows' = follows \cup {<<m, u>>}
  /\ UNCHANGED <<tables, announced, req, txn, raced, broken, owing, edited, faults>>

getMissionHandler(m, c) ==
  "get" \in Kept /\ Learn(m, c, {x \in Contents : <<m, x>> \in links})

getMissionChangesHandler(m, c) ==
  /\ "changes" \in Kept /\ Cardinality(Changes(m)) <= ChangeLimit
  /\ Learn(m, c, {r.key : r \in GetChanges(m, TRUE)} \ {""})

\* The metadata of a resource: its id is looked for among the missions, and
\* the column of that mission, whichever the request names, is written.
getMetadataPutHandler(u) == \E r \in Stored : LET m == ResourceId[r] IN
  /\ "metadata" \in Kept /\ r[1] \in {Scope[u]} \cup ReadScopes[u] /\ m \in live /\ (Serializable => txn = {})
  /\ \E column \in Columns, row \in MissionRows :
       /\ \A c \in Columns \ {column} : row[c] = missions[m][c]
       /\ missions' = [missions EXCEPT ![m] = row] /\ edited' = edited \cup {<<m, column>>}
  /\ UNCHANGED <<live, subs, invites, links, pointOf, log, changes, announced, belief, req, txn>>
  /\ UNCHANGED <<raced, broken, follows, owing, faults>>

getMissionPutHandler(p, u) ==
  \E n \in Names, k \in Kinds, c \in Clients \cup {0} : CreateBegin(p, u, n, k, c)
getMissionDeleteHandler(p, m) == Ask(p, "delete", m, 0, "statement")
getMissionSubscriptionPutHandler(p, m, c) == Ask(p, "subscribe", m, c, "subscribe")
getMissionSubscriptionDeleteHandler(p, m) ==
  \E c \in Clients \cup {0} : Ask(p, "unsubscribe", m, c, "statement")
getInvitePutHandler(p, m, c) == Ask(p, "invite", m, c, "find")
getInviteDeleteHandler(p, m, c) == Ask(p, "uninvite", m, c, "statement")
getMissionContentPutHandler(p, m) ==
  \E h, k \in Hashes : AskContents(p, "put", m, <<h>>) \/ AskContents(p, "put", m, <<h, k>>)
getMissionContentDeleteHandler(p, m) ==
  \E x \in Points, h \in Hashes : \E todo \in {<<x>>, <<h>>, <<x, h>>} : AskContents(p, "remove", m, todo)

Handling(p, m) ==
  \/ getMissionDeleteHandler(p, m) \/ getMissionSubscriptionDeleteHandler(p, m)
  \/ getMissionContentPutHandler(p, m) \/ getMissionContentDeleteHandler(p, m)
  \/ \E c \in Clients : \/ getMissionSubscriptionPutHandler(p, m, c)
                       \/ getInvitePutHandler(p, m, c) \/ getInviteDeleteHandler(p, m, c)
                       \/ getMissionHandler(m, c) \/ getMissionChangesHandler(m, c)

\* The loop looks in the scope of the message only.
processMissionPoint(s) ==
  \E n \in Names : \E m \in MissionQuery({s}, n) : \E c \in Points, op \in {"point", "drop"} :
    AskContents(Loop, op, m, <<c>>)

Subscribing(p) == \/ Refuse(p) \/ SubscribeBegin(p) \/ SubscribeCommit(p) \/ Unsubscribe(p)
                  \/ InviteFind(p) \/ InviteSave(p) \/ Uninvite(p)

Changing(p) == \/ Skip(p) \/ AddMissionResource(p) \/ RemoveContent(p)
               \/ SavePoint(p, req[p].new.scope) \/ LinkPoint(p)
               \/ PointFails(p) \/ FailsUnnoticed(p) \/ LogChange(p) \/ Notify(p)

Next == \/ \E p \in Handlers, u \in Users :
             \/ getMissionPutHandler(p, u)
             \/ \E n \in Names : \E m \in Readable(u, n) : Handling(p, m)
        \/ \E p \in Handlers : CreateCommit(p) \/ Announce(p) \/ Delete(p) \/ Subscribing(p)
        \/ \E p \in Procs : Changing(p) \/ Abort(p)
        \/ \E s \in Scopes : processMissionPoint(s)
        \/ \E u \in Users : getMetadataPutHandler(u)

Spec == Init /\ [][Next]_vars

-----------------------------------------------------------------------------
(* Properties. *)

\* CreateMission refuses a name its scope has: two requests that create one at
\* the same time, or a deletion between, leave one mission of the name, as long
\* as no metadata request has renamed or moved one (marti_api.go:452).
OneMissionPerName == \A m, k \in live :
  /\ missions[m].scope = missions[k].scope /\ missions[m].name = missions[k].name
  /\ edited \cap ({m, k} \X {"scope", "name"}) = {}
  => m = k

\* Subscribing again, or from two requests at once, leaves one subscription of
\* a client, so a client is not sent a change twice nor takes two of the
\* places of the query that finds the subscribers.
OneSubscription == \A s, t \in subs : s.id = t.id /\ s.uid = t.uid => s = t

\* Whatever is deleted, and created again under its name, while a request is
\* between its reads and writes: an invite-only mission has no subscriber but
\* its creator and a mission with a password none who does not know it, unless
\* a metadata request wrote its kind, password or creator.
SubscribersAdmitted == \A s \in subs : s.id \in live /\ edited \cap ({s.id} \X {"kind", "creator"}) = {} =>
  CASE missions[s.id].kind = "invite only" -> s.uid = missions[s.id].creator
    [] missions[s.id].kind = "password" -> s.uid \in Trusted \cup {missions[s.id].creator}
    [] OTHER -> TRUE

\* What the tables say of missions and subscribers, for which they have no
\* unique index and no foreign key.
RowsAreSound == TypeOK /\ OneMissionPerName /\ OneSubscription /\ SubscribersAdmitted

\* What is left of a deleted mission was written by the requests that had read
\* it when it was deleted, one row for each.
LeftoversBounded == \A m \in Ids \ live : Rows(m) + Pending(m) <= owing[m] \/ missions[m] = None

Settled(m, c) == <<m, c>> \notin raced \cup broken /\ Busy(m, c) = {}

\* The squashed change log of a mission lists what the mission contains, for
\* every content no two requests handled at once and no statement failed for,
\* as long as the log fits in one query.
SquashedShowsContents == \A m \in live, c \in Contents :
  Settled(m, c) /\ Cardinality(Changes(m)) <= ChangeLimit =>
    (<<m, c>> \in links <=> \E r \in GetChanges(m, TRUE) : r.key = c /\ r.type = "add")

\* A client that read a mission, or its squashed changes, was subscribed at
\* every change since, among no more than a query returns, and lost none of
\* the messages (main.go:421, client_handler.go:537), knows what the mission
\* contains: no change falls between its read and its subscription.
SubscribersFollow == \A m \in live, u \in Clients, c \in Contents :
  Settled(m, c) /\ <<m, u>> \in follows => (<<m, c>> \in links <=> <<m, u, c>> \in belief)
=============================================================================
