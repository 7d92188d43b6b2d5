--------------------------- MODULE AccountsProofs ---------------------------
(***************************************************************************)
(* Devices and certificates, for any logins, passwords, uids and requests, *)
(* and any times.                                                          *)
(***************************************************************************)
EXTENDS Accounts, FiniteSetTheorems, TLAPS
-----------------------------------------------------------------------------
\* The row b is the row a, or a later one.
Follows(b, a) == b = a \/ b.ver > a.ver

\* The rows of l that may yet be shown.
Ahead(l) == {devices[l]} \cup {d \in {cache[l].value} : cache[l].ts # Never}
                         \cup {d \in {cache[l].coming} : cache[l].by # ""}

\* What is left of a program.
Rest(op) ==
  CASE op = "connect" -> {<<"valid", "valid", "touch", "keep", "get", "connected">>,
                          <<"valid", "touch", "keep", "get", "connected">>, <<"touch", "keep", "get", "connected">>,
                          <<"keep", "get", "connected">>, <<"get", "connected">>, <<"connected">>}
    [] op = "api" -> {<<"valid", "get", "answer">>, <<"get", "answer">>, <<"answer">>}
    [] op = "sign" -> {<<"auth", "valid", "forget", "enter">>, <<"valid", "forget", "enter">>, <<"forget", "enter">>,
                       <<"enter">>}
    [] op = "login" -> {<<"login", "issue">>, <<"issue">>}
    [] op = "put" -> {<<"token", "read", "save">>, <<"read", "save">>, <<"save">>}
    [] op = "post" -> {<<"token", "create">>, <<"create">>}
    [] OTHER -> {<<>>}

Programs == {"connect", "api", "sign", "login", "put", "post"}

Views == [{"valid", "get", "auth"} -> [dev : Rows, at : 0..Never]]

\* The requests that may be under way.
Request == {r \in [op : Programs, todo : UNION {Rest(op) : op \in Programs}, login : Logins, pw : Passwords \cup {""},
                   uid : Uids \cup {""}, sn : Serials \cup {0}, target : Logins \cup {""}, saw : Views,
                   row : Device \cup {NoDevice}, rowSeen : 0..MaxTime, raced : BOOLEAN, left : BOOLEAN] :
  /\ r.todo \in Rest(r.op)
  /\ r.op \in {"connect", "sign"} => r.uid \in Uids
  /\ r.op \in {"sign", "post"} => r.pw \in Passwords
  /\ r.op \in {"put", "post"} => r.target \in Logins
  /\ r.todo = <<"save">> => r.row \in Device}

RequestsFit == req \in [Requests -> Request \cup {Idle}]

Entries == [ts : 0..Never, value : Rows, by : Requests \cup {""}, at : 0..MaxTime, coming : Rows]

TablesFit ==
  /\ now \in 0..MaxTime /\ devices \in [Logins -> Device \cup {NoDevice}] /\ seen \in [Logins -> 0..MaxTime]
  /\ ended \in [Logins -> [0..MaxVer -> 0..Never]] /\ tokens \in [Logins -> 0..Never] /\ faults \in 0..MaxFaults
  /\ cache \in [Logins -> Entries]
  /\ certs \in [Serials -> Cert \cup {NoCert}] /\ issued \in [Serials -> [login : Logins, uid : Uids] \cup {NotIssued}]

\* Who holds the lock of an entry is a request of that login that loads it.
LocksHeld == \A l \in Logins : cache[l].by # "" => req[cache[l].by].login = l /\ Loads(cache[l].by)

\* The edits under way have versions left.
Writers(t) == {p \in Requests : req[p].op \in {"put", "post"} /\ req[p].target = t}
RoomToWrite == \A t \in Logins : devices[t].ver + Cardinality(Writers(t)) <= MaxVer

\* The first part: what the variables are.
Shape == TablesFit /\ RequestsFit /\ LocksHeld /\ RoomToWrite

\* Times are times of the past, and no statement has taken too long.
PastTimes == \A l \in Logins :
  /\ cache[l].ts # Never => cache[l].ts <= now
  /\ cache[l].by # "" => cache[l].at <= now /\ now <= cache[l].at + MaxLoad
PastViews == \A p \in Requests : \A s \in DOMAIN req[p].saw : req[p].saw[s].at \in 0..now \cup {Never}

\* No version of a row has ended before it was written, and one that was read
\* had not ended then.
NotEndedYet == \A l \in Logins : \A v \in 0..MaxVer : v >= devices[l].ver => ended[l][v] = Never
ReadInTime == \A l \in Logins :
  /\ cache[l].ts # Never /\ cache[l].value # Empty => ended[l][cache[l].value.ver] + MaxLoad >= cache[l].ts
  /\ cache[l].by # "" /\ cache[l].coming # Empty => ended[l][cache[l].coming.ver] >= cache[l].at

\* The second part: how old a row may be.
Ages == PastTimes /\ PastViews /\ NotEndedYet /\ ReadInTime /\ StaleAtMost

\* Who has, or is about to get, a certificate has a row, and nobody is shown
\* the time before it.
Owner(p, l) == /\ req[p].login = l
               /\ \/ req[p].op \in {"connect", "api"}
                  \/ Step(p) \in {"forget", "enter"} \/ (req[p].op = "sign" /\ Step(p) = "valid")
Owned(l) == (\E s \in Serials : issued[s].login = l) \/ (\E p \in Requests : Owner(p, l))
OwnersAreKnown == \A l \in Logins : Owned(l) => NoDevice \notin Ahead(l)

\* A connection that was found valid goes by that row or a later one.
RowsInOrder == \A l \in Logins : \A d \in Ahead(l) \ {Empty} : Follows(devices[l], d)
ValidWereGood == \A p \in Requests : ~req[p].saw["valid"].dev.disabled
NoStepBack == \A p \in Requests :
  LET v == req[p].saw["valid"].dev
  IN req[p].op = "connect" /\ v \notin {NoDevice, Empty} =>
       \A d \in Ahead(req[p].login) \ {Empty} : Follows(d, v)

\* The third part: who is let in.
Admissions == /\ OwnersAreKnown /\ RowsInOrder /\ ValidWereGood /\ NoStepBack
              /\ FailureIsNoPassword /\ AdmittedWereGood

\* The fourth part: who is about to enter a certificate of a device and has
\* deleted the others finds none but extra ones.
RoomForCert == \A p \in Requests : Step(p) = "enter" /\ ~req[p].left =>
  \A s \in Serials : /\ certs[s].login = req[p].login /\ certs[s].uid = req[p].uid /\ req[p].uid \in ProperUids
                     => certs[s].extra
OnePerUid == \A r, s \in Serials : /\ certs[r].uid \in ProperUids /\ ~certs[r].extra /\ ~certs[s].extra
                                   /\ certs[r].login = certs[s].login /\ certs[r].uid = certs[s].uid
                                   => r = s
Certificates == RoomForCert /\ OnePerUid

\* The fifth part: no connection is of the future, and an edit that nobody
\* came before writes what it read.
SeenByNow == (\A l \in Logins : seen[l] <= now) /\ \A p \in Requests : req[p].rowSeen <= now
EditsKnow == \A p \in Requests : Step(p) = "save" =>
  /\ devices[req[p].target] # NoDevice
  /\ req[p].raced \/ (req[p].rowSeen = seen[req[p].target] /\ req[p].row.pw = devices[req[p].target].pw)
Edits == SeenByNow /\ EditsKnow

IInv == Shape /\ Ages /\ Admissions /\ Certificates /\ Edits
-----------------------------------------------------------------------------
(* Programs. *)

\* The steps that each program has, and which of them are its last.
LEMMA Places ==
  ASSUME NEW op \in Programs, NEW t \in Rest(op)
  PROVE  /\ t # <<>>
         /\ op = "connect" => Head(t) \in {"valid", "touch", "keep", "get", "connected"}
         /\ op = "api" => Head(t) \in {"valid", "get", "answer"}
         /\ op = "sign" => Head(t) \in {"auth", "valid", "forget", "enter"}
         /\ op = "login" => Head(t) \in {"login", "issue"}
         /\ op = "put" => Head(t) \in {"token", "read", "save"}
         /\ op = "post" => Head(t) \in {"token", "create"}
         /\ Head(t) = "save" => t = <<"save">>
         /\ Len(t) = 1 <=> Head(t) \in {"connected", "answer", "enter", "issue", "save", "create"}
<1>1. CASE op = "connect"  BY <1>1 DEF Rest, Programs
<1>2. CASE op = "api"  BY <1>2 DEF Rest, Programs
<1>3. CASE op = "sign"  BY <1>3 DEF Rest, Programs
<1>4. CASE op = "login"  BY <1>4 DEF Rest, Programs
<1>5. CASE op = "put"  BY <1>5 DEF Rest, Programs
<1>6. CASE op = "post"  BY <1>6 DEF Rest, Programs
<1> QED  BY <1>1, <1>2, <1>3, <1>4, <1>5, <1>6 DEF Programs

\* The rests of the programs.
LEMMA Tails ==
  /\ Tail(<<"valid", "valid", "touch", "keep", "get", "connected">>) = <<"valid", "touch", "keep", "get", "connected">>
  /\ Tail(<<"valid", "touch", "keep", "get", "connected">>) = <<"touch", "keep", "get", "connected">>
  /\ Tail(<<"touch", "keep", "get", "connected">>) = <<"keep", "get", "connected">>
  /\ Tail(<<"keep", "get", "connected">>) = <<"get", "connected">>
  /\ Tail(<<"get", "connected">>) = <<"connected">>
  /\ Tail(<<"valid", "get", "answer">>) = <<"get", "answer">>
  /\ Tail(<<"get", "answer">>) = <<"answer">>
  /\ Tail(<<"auth", "valid", "forget", "enter">>) = <<"valid", "forget", "enter">>
  /\ Tail(<<"valid", "forget", "enter">>) = <<"forget", "enter">>
  /\ Tail(<<"forget", "enter">>) = <<"enter">>
  /\ Tail(<<"login", "issue">>) = <<"issue">>
  /\ Tail(<<"token", "read", "save">>) = <<"read", "save">>
  /\ Tail(<<"read", "save">>) = <<"save">>
  /\ Tail(<<"token", "create">>) = <<"create">>
OBVIOUS

\* The step that follows a step.
LEMMA NextPlace ==
  ASSUME NEW op \in Programs, NEW t \in Rest(op), Len(t) # 1
  PROVE  /\ Tail(t) \in Rest(op)
         /\ Head(t) = "valid" /\ op = "connect" => Head(Tail(t)) \in {"valid", "touch"}
         /\ Head(t) = "valid" /\ op = "api" => Head(Tail(t)) = "get"
         /\ Head(t) = "valid" /\ op = "sign" => Head(Tail(t)) = "forget"
         /\ Head(t) = "auth" => Head(Tail(t)) = "valid"
         /\ Head(t) = "touch" => Head(Tail(t)) = "keep"
         /\ Head(t) = "keep" => Head(Tail(t)) = "get"
         /\ Head(t) = "get" => Head(Tail(t)) \in {"connected", "answer"}
         /\ Head(Tail(t)) = "connected" => Head(t) = "get"
         /\ Head(t) = "forget" <=> Head(Tail(t)) = "enter"
         /\ Head(t) = "token" => Head(Tail(t)) \in {"read", "create"}
         /\ Head(t) = "read" <=> Head(Tail(t)) = "save"
         /\ Head(t) = "login" => Head(Tail(t)) = "issue"
<1>1. CASE op = "connect"
  <2>1. CASE t = <<"valid", "valid", "touch", "keep", "get", "connected">>  BY <1>1, <2>1, Tails DEF Rest
  <2>2. CASE t = <<"valid", "touch", "keep", "get", "connected">>  BY <1>1, <2>2, Tails DEF Rest
  <2>3. CASE t = <<"touch", "keep", "get", "connected">>  BY <1>1, <2>3, Tails DEF Rest
  <2>4. CASE t = <<"keep", "get", "connected">>  BY <1>1, <2>4, Tails DEF Rest
  <2>5. CASE t = <<"get", "connected">>  BY <1>1, <2>5, Tails DEF Rest
  <2>6. t \in Rest(op) /\ t # <<"connected">>  BY <1>1
  <2> QED  BY <1>1, <2>1, <2>2, <2>3, <2>4, <2>5, <2>6 DEF Rest
<1>2. CASE op = "api"
  <2>1. CASE t = <<"valid", "get", "answer">>  BY <1>2, <2>1, Tails DEF Rest
  <2>2. CASE t = <<"get", "answer">>  BY <1>2, <2>2, Tails DEF Rest
  <2>3. t \in Rest(op) /\ t # <<"answer">>  BY <1>2
  <2> QED  BY <1>2, <2>1, <2>2, <2>3 DEF Rest
<1>3. CASE op = "sign"
  <2>1. CASE t = <<"auth", "valid", "forget", "enter">>  BY <1>3, <2>1, Tails DEF Rest
  <2>2. CASE t = <<"valid", "forget", "enter">>  BY <1>3, <2>2, Tails DEF Rest
  <2>3. CASE t = <<"forget", "enter">>  BY <1>3, <2>3, Tails DEF Rest
  <2>4. t \in Rest(op) /\ t # <<"enter">>  BY <1>3
  <2> QED  BY <1>3, <2>1, <2>2, <2>3, <2>4 DEF Rest
<1>4. CASE op = "login"
  <2>1. CASE t = <<"login", "issue">>  BY <1>4, <2>1, Tails DEF Rest
  <2>2. t \in Rest(op) /\ t # <<"issue">>  BY <1>4
  <2> QED  BY <1>4, <2>1, <2>2 DEF Rest
<1>5. CASE op = "put"
  <2>1. CASE t = <<"token", "read", "save">>  BY <1>5, <2>1, Tails DEF Rest
  <2>2. CASE t = <<"read", "save">>  BY <1>5, <2>2, Tails DEF Rest
  <2>3. t \in Rest(op) /\ t # <<"save">>  BY <1>5
  <2> QED  BY <1>5, <2>1, <2>2, <2>3 DEF Rest
<1>6. CASE op = "post"
  <2>1. CASE t = <<"token", "create">>  BY <1>6, <2>1, Tails DEF Rest
  <2>2. t \in Rest(op) /\ t # <<"create">>  BY <1>6
  <2> QED  BY <1>6, <2>1, <2>2 DEF Rest
<1> QED  BY <1>1, <1>2, <1>3, <1>4, <1>5, <1>6 DEF Programs

\* The first step of each program.
LEMMA Beginnings ==
  ASSUME NEW op \in Programs
  PROVE  /\ Program(op) \in Rest(op)
         /\ Head(Program(op)) \in {"valid", "auth", "login", "token"}
         /\ op \in {"connect", "api"} => Head(Program(op)) = "valid"
         /\ op = "sign" => Head(Program(op)) = "auth"
BY DEF Program, Rest, Programs
-----------------------------------------------------------------------------
(* Requests. *)

\* A request that is marked is still one.
LEMMA Raced ==
  ASSUME NEW r \in Request
  PROVE  [r EXCEPT !.raced = TRUE] \in Request
BY DEF Request

\* A request goes on to its next step; what an edit writes has been read.
LEMMA Shorter ==
  ASSUME NEW r \in Request, Len(r.todo) # 1, Head(r.todo) # "read"
  PROVE  [r EXCEPT !.todo = Tail(@)] \in Request
<1>1. r.op \in Programs /\ r.todo \in Rest(r.op)  BY DEF Request
<1>2. Tail(r.todo) \in Rest(r.op)  BY <1>1, NextPlace
<1>3. Head(Tail(r.todo)) # "save"  BY <1>1, NextPlace, Places
<1>4. Tail(r.todo) # <<"save">>
  <2>1. Head(<<"save">>) = "save"  OBVIOUS
  <2> QED  BY <1>3, <2>1, Zenon
<1>5. Tail(r.todo) \in UNION {Rest(op) : op \in Programs}  BY <1>1, <1>2
<1> QED  BY <1>2, <1>4, <1>5 DEF Request

\* A request is shown a row.
LEMMA WithView ==
  ASSUME NEW r \in Request, NEW k \in {"valid", "get", "auth"}, NEW d \in Rows, NEW a \in 0..Never
  PROVE  [r EXCEPT !.saw[k] = [dev |-> d, at |-> a]] \in Request
BY DEF Request, Views

\* A request reads the row it will write.
LEMMA WithRow ==
  ASSUME NEW r \in Request, Head(r.todo) = "read", NEW d \in Device, NEW t \in 0..MaxTime
  PROVE  [[r EXCEPT !.todo = Tail(@)] EXCEPT !.row = d, !.rowSeen = t] \in Request
<1>1. r.op \in Programs /\ r.todo \in Rest(r.op)  BY DEF Request
<1>2. Len(r.todo) # 1  BY <1>1, Places
<1>3. Tail(r.todo) \in Rest(r.op)  BY <1>1, <1>2, NextPlace
<1>5. Tail(r.todo) \in UNION {Rest(op) : op \in Programs}  BY <1>1, <1>3
<1> QED  BY <1>3, <1>5 DEF Request

\* The numbers are numbers, and Never comes after them.
LEMMA Constants ==
         /\ TTL \in Nat /\ MaxLoad \in Nat /\ TokenAge \in Nat /\ MaxTime \in Nat /\ MaxVer \in Nat /\ MaxCerts \in Nat
         /\ MaxFaults \in Nat /\ Never \in Nat /\ Never \in 0..Never /\ Never \notin 0..MaxTime
         /\ 0..MaxTime \subseteq 0..Never
<1>1. {TTL, MaxLoad, TokenAge, MaxTime, MaxVer, MaxCerts, MaxFaults} \subseteq Nat
  BY AccountsAssumption DEF AccountsAssumption
<1>2. MaxTime \in Nat  BY <1>1
<1>3. Never \in Nat /\ MaxTime < Never  BY <1>2 DEF Never
<1>4. Never \in 0..Never /\ Never \notin 0..MaxTime  BY <1>2, <1>3
<1>5. 0..MaxTime \subseteq 0..Never  BY <1>2, <1>3
<1> QED  BY <1>1, <1>3, <1>4, <1>5

\* What a request has been shown at first.
LEMMA NoViews == Nothing \in Views /\ DOMAIN Nothing = {"valid", "get", "auth"}
BY Constants DEF Nothing, Views, Rows

\* The fields of a request that is not there.
LEMMA IdleFields ==
  /\ Idle.todo = <<>> /\ Idle.op = "" /\ Idle.login = "" /\ Idle.target = "" /\ Idle.saw = Nothing
BY DEF Idle

\* A request that is at a step has a program with that step.
LEMMA StepFacts ==
  ASSUME RequestsFit, NEW p \in Requests, Step(p) # "idle"
  PROVE  /\ req[p] \in Request /\ req[p].op \in Programs /\ req[p].todo \in Rest(req[p].op) /\ req[p].login \in Logins
         /\ Step(p) = Head(req[p].todo)
         /\ Step(p) \in {"touch", "keep", "connected"} => req[p].op = "connect"
         /\ Step(p) = "get" => req[p].op \in {"connect", "api"}
         /\ Step(p) = "answer" => req[p].op = "api"
         /\ Step(p) \in {"auth", "forget", "enter"} => req[p].op = "sign"
         /\ Step(p) \in {"login", "issue"} => req[p].op = "login"
         /\ Step(p) \in {"read", "save"} => req[p].op = "put"
         /\ Step(p) = "token" => req[p].op \in {"put", "post"}
         /\ Step(p) = "create" => req[p].op = "post"
         /\ Step(p) = "valid" => req[p].op \in {"connect", "api", "sign"}
<1>1. req[p] # Idle  BY IdleFields DEF Step
<1>2. req[p] \in Request  BY <1>1 DEF RequestsFit
<1>3. req[p].op \in Programs /\ req[p].todo \in Rest(req[p].op) /\ req[p].login \in Logins  BY <1>2 DEF Request
<1>4. Step(p) = Head(req[p].todo)  BY DEF Step
<1> QED  BY <1>2, <1>3, <1>4, Places DEF Programs

\* A request that is not idle is at a step.
LEMMA UnderWay ==
  ASSUME RequestsFit, NEW p \in Requests, req[p] # Idle
  PROVE  req[p] \in Request /\ Step(p) # "idle"
<1>1. req[p] \in Request  BY DEF RequestsFit
<1>2. req[p].op \in Programs /\ req[p].todo \in Rest(req[p].op)  BY <1>1 DEF Request
<1>3. req[p].todo # <<>>  BY <1>2, Places
<1>4. Head(req[p].todo) # "idle"  BY <1>2, Places DEF Programs
<1> QED  BY <1>1, <1>3, <1>4 DEF Step

\* One that is idle is at none.
LEMMA AtRest ==
  ASSUME NEW p \in Requests, req[p] = Idle
  PROVE  /\ Step(p) = "idle" /\ req[p].op = "" /\ req[p].login = "" /\ req[p].target = "" /\ req[p].saw = Nothing
BY IdleFields DEF Step
-----------------------------------------------------------------------------
(* What becomes of a request. *)

\* A step may mark an edit under way as raced, and nothing else of it.
Keeps(q) == req'[q] = req[q] \/ (Step(q) = "save" /\ req'[q] = [req[q] EXCEPT !.raced = TRUE])

Rests(q) == req'[q] = Idle

\* A request arrives; those with a certificate have one that was issued.
Starts(q) ==
  /\ req[q] = Idle /\ req'[q] \in Request /\ req'[q].todo = Program(req'[q].op) /\ req'[q].saw = Nothing
  /\ req'[q].rowSeen = 0
  /\ req'[q].op \in {"connect", "api"} => \E s \in Serials : issued[s] # NotIssued /\ issued[s].login = req'[q].login

\* A request that is not over goes to its next step.
Onward(q) ==
  /\ req[q] \in Request /\ Len(req[q].todo) # 1 /\ req'[q] \in Request /\ req'[q].todo = Tail(req[q].todo)
  /\ req'[q].op = req[q].op /\ req'[q].login = req[q].login /\ req'[q].pw = req[q].pw /\ req'[q].uid = req[q].uid
  /\ req'[q].target = req[q].target
  /\ req'[q].rowSeen = req[q].rowSeen \/ \E l \in Logins : req'[q].rowSeen = seen[l]
Proceeds(q) == Onward(q) /\ ~Loads(q) /\ req'[q].saw = req[q].saw

\* It is shown a row that the cache has, or that it has loaded.
Given(q) == IF Entry(q).by = "" THEN Entry(q).value ELSE Entry(q).coming
Sees(q) ==
  /\ Onward(q) /\ Loads(q)
  /\ (Entry(q).by = "" /\ ~Stale(q)) \/ Entry(q).by = q
  /\ Passes(q, Given(q))
  /\ \A l \in Logins : l = req[q].login => Ahead(l)' \subseteq {devices[l], Given(q)}
  /\ req'[q].saw = [req[q].saw EXCEPT ![Kind(Step(q))] = [dev |-> Given(q), at |-> now]]

Becomes(q) == Keeps(q) \/ Rests(q) \/ Starts(q) \/ Proceeds(q) \/ Sees(q)

\* A step that continues ends the request, or takes it to the next step.
LEMMA ContinueMoves ==
  ASSUME RequestsFit, NEW p \in Requests, Step(p) # "idle", Step(p) # "read", ~Loads(p), req'[p] = Following(p)
  PROVE  Rests(p) \/ Proceeds(p)
<1>1. req[p] \in Request /\ Step(p) = Head(req[p].todo)  BY StepFacts
<1>2. CASE Len(req[p].todo) = 1  BY <1>2 DEF Following, Rests
<1>3. CASE Len(req[p].todo) # 1
  <2>1. req'[p] = [req[p] EXCEPT !.todo = Tail(@)]  BY <1>3 DEF Following
  <2>2. req'[p] \in Request  BY <2>1, <1>1, <1>3, Shorter
  <2>3. req[p] \in [op : Programs, todo : UNION {Rest(op) : op \in Programs}, login : Logins, pw : Passwords \cup {""},
                   uid : Uids \cup {""}, sn : Serials \cup {0}, target : Logins \cup {""}, saw : Views,
                   row : Device \cup {NoDevice}, rowSeen : 0..MaxTime, raced : BOOLEAN, left : BOOLEAN]  BY <1>1 DEF Request
  <2> QED  BY <1>1, <1>3, <2>1, <2>2, <2>3 DEF Proceeds, Onward
<1> QED  BY <1>2, <1>3

\* A row that is shown is refused, and the request over, or it goes on.
LEMMA ShownMoves ==
  ASSUME TablesFit, RequestsFit, NEW p \in Requests, Loads(p), Shown(p, Given(p)),
         (Entry(p).by = "" /\ ~Stale(p)) \/ Entry(p).by = p,
         \A l \in Logins : l = req[p].login => Ahead(l)' \subseteq {devices[l], Given(p)}
  PROVE  Rests(p) \/ Sees(p)
<1> DEFINE k == Kind(Step(p))
           v == [dev |-> Given(p), at |-> now]
<1>1. req[p] \in Request /\ Step(p) = Head(req[p].todo) /\ req[p].op \in Programs /\ req[p].todo \in Rest(req[p].op)
      /\ req[p].login \in Logins
  <2> Step(p) # "idle"  BY DEF Loads
  <2> QED  BY StepFacts
<1>2. req'[p] = IF ~Passes(p, Given(p)) THEN Idle ELSE [Following(p) EXCEPT !.saw[k] = v]
  <2> req' = [req EXCEPT ![p] = IF ~Passes(p, Given(p)) THEN Idle ELSE [Following(p) EXCEPT !.saw[k] = v]]  BY DEF Shown
  <2> QED  BY DEF RequestsFit
<1>3. CASE ~Passes(p, Given(p))  BY <1>2, <1>3 DEF Rests
<1>4. CASE Passes(p, Given(p))
  <2>1. Step(p) \in {"valid", "get", "auth", "login", "token"}  BY DEF Loads
  <2>2. Len(req[p].todo) # 1
    <3>1. Head(req[p].todo) \notin {"connected", "answer", "enter", "issue", "save", "create"}  BY <1>1, <2>1
    <3>2. Len(req[p].todo) = 1 <=> Head(req[p].todo) \in {"connected", "answer", "enter", "issue", "save", "create"}
      BY <1>1, Places
    <3> QED  BY <3>1, <3>2
  <2>3. Following(p) = [req[p] EXCEPT !.todo = Tail(@)]  BY <2>2 DEF Following
  <2>4. Following(p) \in Request  BY <1>1, <2>1, <2>2, <2>3, Shorter
  <2>5. req'[p] = [Following(p) EXCEPT !.saw[k] = v]  BY <1>2, <1>4
  <2>6. k \in {"valid", "get", "auth"}  BY <2>1 DEF Kind
  <2>7. Given(p) \in Rows
    <3> cache[req[p].login] \in Entries  BY <1>1 DEF TablesFit
    <3> QED  BY DEF Given, Entry, Entries
  <2>8. now \in 0..Never  BY Constants DEF TablesFit
  <2>9. req'[p] \in Request
    <3> HIDE DEF k
    <3>1. [Following(p) EXCEPT !.saw[k] = [dev |-> Given(p), at |-> now]] \in Request
      BY <2>4, <2>6, <2>7, <2>8, WithView
    <3> QED  BY <3>1, <2>5
  <2>10. req[p] \in [op : Programs, todo : UNION {Rest(op) : op \in Programs}, login : Logins, pw : Passwords \cup {""},
                   uid : Uids \cup {""}, sn : Serials \cup {0}, target : Logins \cup {""}, saw : Views,
                   row : Device \cup {NoDevice}, rowSeen : 0..MaxTime, raced : BOOLEAN, left : BOOLEAN]  BY <1>1 DEF Request
  <2>11. /\ req'[p].todo = Tail(req[p].todo) /\ req'[p].op = req[p].op /\ req'[p].login = req[p].login
         /\ req'[p].pw = req[p].pw /\ req'[p].uid = req[p].uid /\ req'[p].target = req[p].target
         /\ req'[p].saw = [req[p].saw EXCEPT ![k] = v] /\ req'[p].rowSeen = req[p].rowSeen
    <3> DEFINE f == Following(p)
    <3>1. /\ f.todo = Tail(req[p].todo) /\ f.op = req[p].op /\ f.login = req[p].login
          /\ f.pw = req[p].pw /\ f.uid = req[p].uid /\ f.target = req[p].target
          /\ f.saw = req[p].saw /\ f.rowSeen = req[p].rowSeen
      BY <2>3, <2>10
    <3>2. f \in Request /\ req'[p] = [f EXCEPT !.saw[k] = v]  BY <2>4, <2>5
    <3> HIDE DEF f, k, v
    <3>3. /\ req'[p].todo = f.todo /\ req'[p].op = f.op /\ req'[p].login = f.login
          /\ req'[p].pw = f.pw /\ req'[p].uid = f.uid /\ req'[p].target = f.target
          /\ req'[p].saw = [f.saw EXCEPT ![k] = v] /\ req'[p].rowSeen = f.rowSeen
      BY <3>2 DEF Request
    <3> QED  BY <3>1, <3>3
  <2>12. Onward(p)  BY <1>1, <2>2, <2>9, <2>11 DEF Onward
  <2> QED  BY <1>4, <2>11, <2>12 DEF Sees
<1> QED  BY <1>3, <1>4

\* What a request is made of.
Draft == {r \in [op : Programs, todo : {<<>>}, login : Logins, pw : Passwords \cup {""},
                 uid : Uids \cup {""}, sn : Serials \cup {0}, target : Logins \cup {""}, saw : {Nothing},
                 row : {NoDevice}, rowSeen : {0}, raced : {FALSE}, left : {FALSE}] :
  /\ r.op \in {"connect", "sign"} => r.uid \in Uids
  /\ r.op \in {"sign", "post"} => r.pw \in Passwords
  /\ r.op \in {"put", "post"} => r.target \in Logins}

\* A request starts with its program.
LEMMA BeginMoves ==
  ASSUME RequestsFit, NEW p \in Requests, NEW r \in Draft, Begin(p, r),
         r.op \in {"connect", "api"} => \E s \in Serials : issued[s] # NotIssued /\ issued[s].login = r.login
  PROVE  /\ Starts(p) /\ \A q \in Requests : q # p => req'[q] = req[q]
         /\ req'[p].op = r.op /\ req'[p].target = r.target
         /\ UNCHANGED <<now, devices, seen, ended, cache, certs, issued, tokens, faults>>
<1>1. r.op \in Programs /\ r.todo = <<>> /\ r.saw = Nothing  BY DEF Draft
<1>2. req' = [req EXCEPT ![p] = [r EXCEPT !.todo = Program(r.op)]] /\ req[p] = Idle  BY DEF Begin
<1>3. req'[p] = [r EXCEPT !.todo = Program(r.op)]  BY <1>2 DEF RequestsFit
<1>4. Program(r.op) \in Rest(r.op)  BY <1>1, Beginnings
<1>5. Program(r.op) # <<"save">>
  <2>1. Head(<<"save">>) = "save"  OBVIOUS
  <2>2. Head(Program(r.op)) # "save"  BY <1>1, Beginnings
  <2> QED  BY <2>1, <2>2, Zenon
<1>6. Program(r.op) \in UNION {Rest(op) : op \in Programs}  BY <1>1, <1>4
<1>7. 0 \in 0..MaxTime  BY Constants
<1>8. [r EXCEPT !.todo = Program(r.op)] \in Request  BY <1>1, <1>4, <1>5, <1>6, <1>7, NoViews DEF Request, Draft
<1>9. /\ req'[p].todo = Program(req'[p].op) /\ req'[p].saw = Nothing /\ req'[p].login = r.login /\ req'[p].op = r.op
      /\ req'[p].target = r.target /\ req'[p].rowSeen = 0
  BY <1>3, <1>1 DEF Draft
<1>10. \A q \in Requests : q # p => req'[q] = req[q]  BY <1>2 DEF RequestsFit
<1>11. Starts(p)  BY <1>2, <1>3, <1>8, <1>9 DEF Starts
<1> QED  BY <1>9, <1>10, <1>11 DEF Begin

Arrives(p) == \/ processTLSConn(p) \/ SSLCheckHandler(p) \/ getSignHandler(p) \/ getAdminTokenHandler(p)
              \/ getApiDevicePutHandler(p) \/ getApiDevicePostHandler(p)

\* What a handler starts.
LEMMA ArrivalMoves ==
  ASSUME TablesFit, RequestsFit, NEW p \in Requests, Arrives(p)
  PROVE  /\ Starts(p) /\ \A q \in Requests : q # p => req'[q] = req[q]
         /\ UNCHANGED <<now, devices, seen, ended, cache, certs, issued, tokens, faults>>
         /\ req'[p].op \in {"put", "post"} => MayChange(req'[p].target)
<1>a. \A s \in Serials : issued[s] # NotIssued => issued[s] \in [login : Logins, uid : Uids]  BY DEF TablesFit
<1>1. \E r : /\ r \in Draft /\ Begin(p, r)
             /\ r.op \in {"put", "post"} => MayChange(r.target)
             /\ r.op \in {"connect", "api"} => \E s \in Serials : issued[s] # NotIssued /\ issued[s].login = r.login
  <2>1. CASE processTLSConn(p)
    <3>1. PICK s \in Serials : issued[s] # NotIssued
                 /\ Begin(p, [Idle EXCEPT !.op = "connect", !.login = issued[s].login, !.uid = issued[s].uid, !.sn = s])
      BY <2>1 DEF processTLSConn
    <3> DEFINE r == [Idle EXCEPT !.op = "connect", !.login = issued[s].login, !.uid = issued[s].uid, !.sn = s]
    <3>2. r \in Draft  BY <1>a, <3>1 DEF Draft, Idle, Programs
    <3>3. r.op = "connect" /\ r.login = issued[s].login  BY DEF Idle
    <3> QED  BY <3>1, <3>2, <3>3
  <2>2. CASE SSLCheckHandler(p)
    <3>1. PICK s \in Serials : issued[s] # NotIssued
                 /\ Begin(p, [Idle EXCEPT !.op = "api", !.login = issued[s].login, !.sn = s])
      BY <2>2 DEF SSLCheckHandler
    <3> DEFINE r == [Idle EXCEPT !.op = "api", !.login = issued[s].login, !.sn = s]
    <3>2. r.login \in Logins /\ r.uid = ""  BY <1>a, <3>1 DEF Idle
    <3>3. r.op = "api" /\ r.login = issued[s].login  BY DEF Idle
    <3>4. r \in Draft  BY <1>a, <3>1 DEF Draft, Idle, Programs
    <3> QED  BY <3>1, <3>3, <3>4
  <2>3. CASE getSignHandler(p)
    <3>1. PICK l \in Logins, pw \in Passwords, u \in Uids :
                 Begin(p, [Idle EXCEPT !.op = "sign", !.login = l, !.pw = pw, !.uid = u])
      BY <2>3 DEF getSignHandler
    <3> DEFINE r == [Idle EXCEPT !.op = "sign", !.login = l, !.pw = pw, !.uid = u]
    <3>2. r \in Draft  BY DEF Draft, Idle, Programs
    <3>3. r.op = "sign"  BY DEF Idle
    <3> QED  BY <3>1, <3>2, <3>3
  <2>4. CASE getAdminTokenHandler(p)
    <3>1. PICK l \in Logins, pw \in Passwords : Begin(p, [Idle EXCEPT !.op = "login", !.login = l, !.pw = pw])
      BY <2>4 DEF getAdminTokenHandler
    <3> DEFINE r == [Idle EXCEPT !.op = "login", !.login = l, !.pw = pw]
    <3>2. r \in Draft  BY DEF Draft, Idle, Programs
    <3>3. r.op = "login"  BY DEF Idle
    <3> QED  BY <3>1, <3>2, <3>3
  <2>5. CASE getApiDevicePutHandler(p)
    <3>1. PICK l \in Logins, t \in Logins, pw \in Passwords \cup {""} :
                 MayChange(t) /\ Begin(p, [Idle EXCEPT !.op = "put", !.login = l, !.target = t, !.pw = pw])
      BY <2>5 DEF getApiDevicePutHandler
    <3> DEFINE r == [Idle EXCEPT !.op = "put", !.login = l, !.target = t, !.pw = pw]
    <3>2. r \in Draft  BY DEF Draft, Idle, Programs
    <3>3. r.op = "put" /\ r.target = t  BY DEF Idle
    <3> QED  BY <3>1, <3>2, <3>3
  <2>6. CASE getApiDevicePostHandler(p)
    <3>1. PICK l \in Logins, t \in Logins, pw \in Passwords :
                 MayChange(t) /\ Begin(p, [Idle EXCEPT !.op = "post", !.login = l, !.target = t, !.pw = pw])
      BY <2>6 DEF getApiDevicePostHandler
    <3> DEFINE r == [Idle EXCEPT !.op = "post", !.login = l, !.target = t, !.pw = pw]
    <3>2. r \in Draft  BY DEF Draft, Idle, Programs
    <3>3. r.op = "post" /\ r.target = t  BY DEF Idle
    <3> QED  BY <3>1, <3>2, <3>3
  <2> QED  BY <2>1, <2>2, <2>3, <2>4, <2>5, <2>6 DEF Arrives
<1>2. PICK r : /\ r \in Draft /\ Begin(p, r)
               /\ r.op \in {"put", "post"} => MayChange(r.target)
               /\ r.op \in {"connect", "api"} => \E s \in Serials : issued[s] # NotIssued /\ issued[s].login = r.login
  BY <1>1
<1> QED  BY <1>2, BeginMoves

\* Marking the edits under way changes no other request.
LEMMA RaceMoves ==
  ASSUME RequestsFit, NEW p \in Requests, NEW l, Step(p) # "idle", NEW r,
         req' = [Race(l, req) EXCEPT ![p] = r]
  PROVE  /\ req'[p] = r
         /\ \A q \in Requests : q # p => Keeps(q) /\ (q \in Racing(l) => req'[q].raced)
<1>1. req'[p] = r  BY DEF Race
<1>2. ASSUME NEW q \in Requests, q # p PROVE Keeps(q) /\ (q \in Racing(l) => req'[q].raced)
  <2>1. CASE q \in Racing(l)
    <3>1. Step(q) = "save"  BY <2>1 DEF Racing
    <3>2. req[q] \in Request  BY <3>1, StepFacts
    <3>3. req'[q] = [req[q] EXCEPT !.raced = TRUE]  BY <1>2, <2>1 DEF Race
    <3>4. req'[q].raced  BY <3>2, <3>3 DEF Request
    <3> QED  BY <3>1, <3>3, <3>4 DEF Keeps
  <2>2. CASE q \notin Racing(l)
    <3>1. req'[q] = req[q]  BY <1>2, <2>2 DEF Race
    <3> QED  BY <2>2, <3>1 DEF Keeps
  <2> QED  BY <2>1, <2>2
<1> QED  BY <1>1, <1>2

\* An edit that has written is over, and others are raced.
LEMMA SaveMoves ==
  ASSUME RequestsFit, NEW p \in Requests, SaveRow(p)
  PROVE  Rests(p) /\ \A q \in Requests : q # p => Keeps(q) /\ (q \in Racing(req[p].target) => req'[q].raced)
<1>1. Step(p) # "idle" /\ req' = [Race(req[p].target, req) EXCEPT ![p] = Idle]  BY DEF SaveRow
<1> QED  BY <1>1, RaceMoves DEF Rests

\* The column last_connect is written, and edits are raced.
LEMMA TouchMoves ==
  ASSUME RequestsFit, NEW p \in Requests, Touch(p)
  PROVE  /\ Rests(p) \/ Proceeds(p)
         /\ \A q \in Requests : q # p => Keeps(q) /\ (q \in Racing(req[p].login) => req'[q].raced)
<1>1. Step(p) = "touch" /\ req' = Race(req[p].login, [req EXCEPT ![p] = Following(p)])  BY DEF Touch
<1>2. p \notin Racing(req[p].login)  BY <1>1 DEF Racing
<1>3. req' = [Race(req[p].login, req) EXCEPT ![p] = Following(p)]  BY <1>1, <1>2 DEF Race, RequestsFit
<1>4. req'[p] = Following(p) /\ \A q \in Requests : q # p => Keeps(q) /\ (q \in Racing(req[p].login) => req'[q].raced)
  BY <1>1, <1>3, RaceMoves
<1>5. Rests(p) \/ Proceeds(p)  BY <1>1, <1>4, ContinueMoves DEF Loads
<1> QED  BY <1>4, <1>5

\* An edit has the row and last_connect as they are.
LEMMA ReadMoves ==
  ASSUME TablesFit, RequestsFit, NEW p \in Requests, ReadRow(p)
  PROVE  /\ Rests(p) \/ Proceeds(p)
         /\ \A q \in Requests : q # p => req'[q] = req[q]
         /\ req'[p] # Idle => /\ devices[req[p].target] # NoDevice /\ req'[p].row = devices[req[p].target]
                              /\ req'[p].rowSeen = seen[req[p].target] /\ req'[p].target = req[p].target
<1> DEFINE d == devices[req[p].target]
           t == seen[req[p].target]
<1>1. Step(p) = "read"  BY DEF ReadRow
<1>2. req' = [req EXCEPT ![p] = IF d = NoDevice THEN Idle ELSE [Following(p) EXCEPT !.row = d, !.rowSeen = t]]
  BY DEF ReadRow, RowToEdit
<1>3. \A q \in Requests : q # p => req'[q] = req[q]  BY <1>2 DEF RequestsFit
<1>4. req'[p] = IF d = NoDevice THEN Idle ELSE [Following(p) EXCEPT !.row = d, !.rowSeen = t]  BY <1>2 DEF RequestsFit
<1>5. CASE d = NoDevice  BY <1>4, <1>5, <1>3 DEF Rests
<1>6. CASE d # NoDevice
  <2>1. req[p] \in Request /\ Step(p) = Head(req[p].todo) /\ req[p].op = "put" /\ req[p].op \in Programs
        /\ req[p].todo \in Rest(req[p].op)
    BY <1>1, StepFacts
  <2>2. req[p].target \in Logins  BY <2>1 DEF Request
  <2>3. d \in Device /\ t \in 0..MaxTime  BY <1>6, <2>2 DEF TablesFit
  <2>4. Len(req[p].todo) # 1  BY <1>1, <2>1, Places
  <2>5. Following(p) = [req[p] EXCEPT !.todo = Tail(@)]  BY <2>4 DEF Following
  <2>6. req'[p] = [[req[p] EXCEPT !.todo = Tail(@)] EXCEPT !.row = d, !.rowSeen = t]  BY <1>4, <1>6, <2>5
  <2>7. req'[p] \in Request
    <3> HIDE DEF d, t
    <3>1. Head(req[p].todo) = "read"  BY <2>1, <1>1
    <3>2. [[req[p] EXCEPT !.todo = Tail(@)] EXCEPT !.row = d, !.rowSeen = t] \in Request  BY <2>1, <2>3, <3>1, WithRow
    <3> QED  BY <2>6, <3>2
  <2>8. req[p] \in [op : Programs, todo : UNION {Rest(op) : op \in Programs}, login : Logins, pw : Passwords \cup {""},
                   uid : Uids \cup {""}, sn : Serials \cup {0}, target : Logins \cup {""}, saw : Views,
                   row : Device \cup {NoDevice}, rowSeen : 0..MaxTime, raced : BOOLEAN, left : BOOLEAN]  BY <2>1 DEF Request
  <2>9. /\ req'[p].todo = Tail(req[p].todo) /\ req'[p].op = req[p].op /\ req'[p].login = req[p].login
        /\ req'[p].pw = req[p].pw /\ req'[p].uid = req[p].uid /\ req'[p].target = req[p].target
        /\ req'[p].saw = req[p].saw /\ req'[p].row = d /\ req'[p].rowSeen = t
    BY <2>6, <2>8
  <2>10. Onward(p)  BY <2>1, <2>2, <2>4, <2>7, <2>9 DEF Onward
  <2>11. Proceeds(p)  BY <2>9, <2>10, <1>1 DEF Proceeds, Loads
  <2> QED  BY <1>3, <1>6, <2>9, <2>11
<1> QED  BY <1>5, <1>6

\* The steps after which a request goes on, or is over.
Goes(p) == Step(p) \notin {"idle", "read"} /\ ~Loads(p) /\ Continue(p)

\* The steps that only continue.
LEMMA GoesMoves ==
  ASSUME RequestsFit, NEW p \in Requests, Goes(p)
  PROVE  (Rests(p) \/ Proceeds(p)) /\ \A q \in Requests : q # p => req'[q] = req[q]
<1>1. req' = [req EXCEPT ![p] = Following(p)]  BY DEF Goes, Continue
<1>2. req'[p] = Following(p) /\ \A q \in Requests : q # p => req'[q] = req[q]  BY <1>1 DEF RequestsFit
<1> QED  BY <1>2, ContinueMoves DEF Goes

\* The others are deleted, or not: the enrolment goes on.
LEMMA ForgetMoves ==
  ASSUME RequestsFit, NEW p \in Requests, Forget(p)
  PROVE  /\ Proceeds(p) /\ \A q \in Requests : q # p => req'[q] = req[q]
         /\ ~req'[p].left => certs' = [s \in Serials |-> IF s \in Forgotten(req[p].login, req[p].uid) THEN NoCert ELSE certs[s]]
<1>1. PICK failed \in BOOLEAN :
        /\ req' = [req EXCEPT ![p] = [Following(p) EXCEPT !.left = failed]]
        /\ certs' = [s \in Serials |-> IF ~failed /\ s \in Forgotten(req[p].login, req[p].uid) THEN NoCert ELSE certs[s]]
  BY DEF Forget
<1>2. Step(p) = "forget"  BY DEF Forget
<1>3. req[p] \in Request /\ Step(p) = Head(req[p].todo) /\ req[p].op \in Programs /\ req[p].todo \in Rest(req[p].op)
  BY <1>2, StepFacts
<1>4. Len(req[p].todo) # 1
  <2>1. Head(req[p].todo) \notin {"connected", "answer", "enter", "issue", "save", "create"}  BY <1>2, <1>3
  <2> QED  BY <1>3, <2>1, Places
<1>5. Following(p) = [req[p] EXCEPT !.todo = Tail(@)]  BY <1>4 DEF Following
<1>6. Following(p) \in Request  BY <1>2, <1>3, <1>4, <1>5, Shorter
<1>7. req'[p] = [[req[p] EXCEPT !.todo = Tail(@)] EXCEPT !.left = failed] /\ \A q \in Requests : q # p => req'[q] = req[q]
  BY <1>1, <1>5 DEF RequestsFit
<1>8. req'[p] \in Request
  <2> DEFINE f == [req[p] EXCEPT !.todo = Tail(@)]
  <2>1. f \in Request  BY <1>5, <1>6
  <2> HIDE DEF f
  <2>2. [f EXCEPT !.left = failed] \in Request  BY <2>1 DEF Request
  <2> QED  BY <1>7, <2>2 DEF f
<1>9. req[p] \in [op : Programs, todo : UNION {Rest(op) : op \in Programs}, login : Logins, pw : Passwords \cup {""},
                   uid : Uids \cup {""}, sn : Serials \cup {0}, target : Logins \cup {""}, saw : Views,
                   row : Device \cup {NoDevice}, rowSeen : 0..MaxTime, raced : BOOLEAN, left : BOOLEAN]  BY <1>3 DEF Request
<1>10. /\ req'[p].todo = Tail(req[p].todo) /\ req'[p].op = req[p].op /\ req'[p].login = req[p].login
       /\ req'[p].pw = req[p].pw /\ req'[p].uid = req[p].uid /\ req'[p].target = req[p].target
       /\ req'[p].saw = req[p].saw /\ req'[p].rowSeen = req[p].rowSeen /\ req'[p].left = failed
  BY <1>7, <1>9
<1>11. Proceeds(p)  BY <1>2, <1>3, <1>4, <1>8, <1>10 DEF Proceeds, Onward, Loads
<1> QED  BY <1>1, <1>7, <1>10, <1>11

\* After a failed statement a request goes on, or is over.
LEMMA FailureMoves ==
  ASSUME RequestsFit, NEW p \in Requests, StatementFails(p)
  PROVE  (Rests(p) \/ Proceeds(p)) /\ \A q \in Requests : q # p => req'[q] = req[q]
<1>1. /\ Step(p) \in {"touch", "keep", "read", "save", "create"}
      /\ req' = [req EXCEPT ![p] = IF Step(p) = "read" THEN Idle ELSE Following(p)]
  BY DEF StatementFails
<1>2. /\ req'[p] = IF Step(p) = "read" THEN Idle ELSE Following(p)
      /\ \A q \in Requests : q # p => req'[q] = req[q]
  BY <1>1 DEF RequestsFit
<1>3. CASE Step(p) = "read"  BY <1>2, <1>3 DEF Rests
<1>4. CASE Step(p) # "read"  BY <1>1, <1>2, <1>4, ContinueMoves DEF Loads
<1> QED  BY <1>2, <1>3, <1>4

\* Hit and Fill show the row that the cache now has.
LEMMA LoadMoves ==
  ASSUME TablesFit, RequestsFit, NEW p \in Requests, Hit(p) \/ Fill(p), "" \notin Requests
  PROVE  /\ Rests(p) \/ Sees(p)
         /\ \A q \in Requests : q # p => req'[q] = req[q]
<1>1. Loads(p) /\ ((Entry(p).by = "" /\ ~Stale(p)) \/ Entry(p).by = p) /\ Shown(p, Given(p))
  BY DEF Hit, Fill, Given
<1>2. \A q \in Requests : q # p => req'[q] = req[q]  BY <1>1 DEF Shown, RequestsFit
<1>3. ASSUME NEW l \in Logins, l = req[p].login PROVE Ahead(l)' \subseteq {devices[l], Given(p)}
  <2>1. devices' = devices  BY DEF Hit, Fill
  <2>2. CASE Hit(p)
    <3>1. cache' = cache /\ cache[l].by = "" /\ Given(p) = cache[l].value  BY <1>3, <2>2 DEF Hit, Entry, Given
    <3> QED  BY <2>1, <3>1 DEF Ahead
  <2>3. CASE Fill(p)
    <3>1. cache'[l] = Filled(p, cache[l].coming) /\ cache[l].by = p  BY <1>3, <2>3 DEF Fill, Entry, TablesFit
    <3>2. Given(p) = cache[l].coming  BY <1>3, <3>1 DEF Given, Entry
    <3>3. \A d : Filled(p, d).value = d /\ Filled(p, d).by = ""  BY DEF Filled, NewEntry
    <3>4. cache'[l].value = Given(p) /\ cache'[l].by = ""  BY <3>1, <3>2, <3>3
    <3> QED  BY <2>1, <3>4 DEF Ahead
  <2> QED  BY <2>2, <2>3
<1> QED  BY <1>1, <1>2, <1>3, ShownMoves

\* Every request stays, starts, goes on or is over, and fits.
LEMMA RequestMoves ==
  ASSUME TablesFit, RequestsFit, [Next]_vars
  PROVE  (\A q \in Requests : Becomes(q)) /\ RequestsFit'
<1>1. ASSUME NEW p \in Requests, Becomes(p), \A q \in Requests : q # p => Keeps(q) PROVE \A q \in Requests : Becomes(q)
  BY <1>1 DEF Becomes
<1>2. ASSUME NEW p \in Requests, \A q \in Requests : q # p => req'[q] = req[q] PROVE \A q \in Requests : q # p => Keeps(q)
  BY <1>2 DEF Keeps
<1>3. ASSUME NEW p \in Requests, Arrives(p) PROVE \A q \in Requests : Becomes(q)
  BY <1>1, <1>2, <1>3, ArrivalMoves DEF Becomes
<1>4. ASSUME NEW p \in Requests, Hit(p) \/ Fill(p) PROVE \A q \in Requests : Becomes(q)
  <2>1. "" \notin Requests  BY AccountsAssumption DEF AccountsAssumption
  <2> QED  BY <2>1, <1>1, <1>2, <1>4, LoadMoves DEF Becomes
<1>5. ASSUME NEW p \in Requests, Goes(p) PROVE \A q \in Requests : Becomes(q)
  BY <1>1, <1>2, <1>5, GoesMoves DEF Becomes
<1>6. ASSUME NEW p \in Requests, Keep(p) \/ Enter(p) \/ Issue(p) \/ CreateRow(p) \/ Close(p) PROVE Goes(p)
  BY <1>6 DEF Goes, Loads, Keep, Enter, Issue, CreateRow, Close
<1>16. ASSUME NEW p \in Requests, Forget(p) \/ StatementFails(p) PROVE \A q \in Requests : Becomes(q)
  BY <1>1, <1>2, <1>16, ForgetMoves, FailureMoves DEF Becomes
<1>7. ASSUME NEW p \in Requests, Touch(p) PROVE \A q \in Requests : Becomes(q)
  BY <1>1, <1>7, TouchMoves DEF Becomes
<1>8. ASSUME NEW p \in Requests, SaveRow(p) PROVE \A q \in Requests : Becomes(q)
  BY <1>1, <1>8, SaveMoves DEF Becomes
<1>9. ASSUME NEW p \in Requests, ReadRow(p) PROVE \A q \in Requests : Becomes(q)
  BY <1>1, <1>2, <1>9, ReadMoves DEF Becomes
<1>10. ASSUME UNCHANGED req PROVE \A q \in Requests : Becomes(q)  BY <1>10 DEF Becomes, Keeps
<1>11. ASSUME Restart PROVE \A q \in Requests : Becomes(q)  BY <1>11 DEF Restart, Becomes, Rests
<1>12. \A q \in Requests : Becomes(q)
  <2>1. ASSUME NEW p \in Requests, Work(p) \/ Close(p) PROVE \A q \in Requests : Becomes(q)
    <3>1. CASE Miss(p)  BY <3>1, <1>10 DEF Miss
    <3> QED  BY <2>1, <3>1, <1>4, <1>5, <1>6, <1>16, <1>7, <1>8, <1>9 DEF Work
  <2>2. CASE TimePasses  BY <2>2, <1>10 DEF TimePasses
  <2>3. CASE UNCHANGED vars  BY <2>3, <1>10 DEF vars
  <2> QED  BY <2>1, <2>2, <2>3, <1>3, <1>11 DEF Next, Arrives
<1>13. \A q \in Requests : req'[q] \in Request \cup {Idle}
  <2> TAKE q \in Requests
  <2>1. req[q] \in Request \cup {Idle}  BY DEF RequestsFit
  <2>2. CASE Keeps(q)
    <3>1. CASE Step(q) = "save"
      <4>1. req[q] \in Request  BY <3>1, StepFacts
      <4> QED  BY <2>2, <4>1, Raced DEF Keeps
    <3> QED  BY <2>1, <2>2, <3>1 DEF Keeps
  <2>3. CASE ~Keeps(q)  BY <2>3, <1>12 DEF Becomes, Rests, Starts, Proceeds, Sees, Onward
  <2> QED  BY <2>2, <2>3
<1>14. req' = [q \in Requests |-> req'[q]]
  <2>1. \A p \in Requests : \A r : req' = [req EXCEPT ![p] = r] => req' = [q \in Requests |-> req'[q]]  BY DEF RequestsFit
  <2>2. \A p \in Requests : \A r, l : req' = [Race(l, req) EXCEPT ![p] = r] => req' = [q \in Requests |-> req'[q]]  BY DEF Race
  <2>3. ASSUME NEW p \in Requests, Arrives(p) PROVE req' = [q \in Requests |-> req'[q]]
    BY <2>1, <2>3 DEF Arrives, processTLSConn, SSLCheckHandler, getSignHandler, getAdminTokenHandler,
      getApiDevicePutHandler, getApiDevicePostHandler, Begin
  <2>4. ASSUME NEW p \in Requests, Hit(p) \/ Fill(p) PROVE req' = [q \in Requests |-> req'[q]]
    BY <2>1, <2>4 DEF Hit, Fill, Shown
  <2>5. ASSUME NEW p \in Requests, Goes(p) PROVE req' = [q \in Requests |-> req'[q]]  BY <2>1, <2>5 DEF Goes, Continue
  <2>6. ASSUME NEW p \in Requests, ReadRow(p) PROVE req' = [q \in Requests |-> req'[q]]  BY <2>1, <2>6 DEF ReadRow
  <2>7. ASSUME NEW p \in Requests, SaveRow(p) PROVE req' = [q \in Requests |-> req'[q]]  BY <2>2, <2>7 DEF SaveRow
  <2>8. ASSUME NEW p \in Requests, Touch(p) PROVE req' = [q \in Requests |-> req'[q]]  BY <2>8 DEF Touch, Race
  <2>9. UNCHANGED req => req' = [q \in Requests |-> req'[q]]  BY DEF RequestsFit
  <2>10. Restart => req' = [q \in Requests |-> req'[q]]  BY DEF Restart
  <2>12. ASSUME NEW p \in Requests, Forget(p) \/ StatementFails(p) PROVE req' = [q \in Requests |-> req'[q]]
    BY <2>1, <2>12 DEF Forget, StatementFails
  <2>11. ASSUME NEW p \in Requests, Work(p) \/ Close(p) PROVE req' = [q \in Requests |-> req'[q]]
    <3>1. CASE Miss(p)  BY <3>1, <2>9 DEF Miss
    <3> QED  BY <2>11, <3>1, <2>4, <2>5, <1>6, <2>6, <2>7, <2>8, <2>12 DEF Work
  <2> QED  BY <2>3, <2>9, <2>10, <2>11 DEF Next, Arrives, TimePasses, vars
<1>15. req' \in [Requests -> Request \cup {Idle}]  BY <1>13, <1>14
<1> QED  BY <1>12, <1>15 DEF RequestsFit

\* A step of one request leaves the others, but for the mark.
LEMMA OthersKeep ==
  ASSUME TablesFit, RequestsFit, NEW p \in Requests, Arrives(p) \/ Work(p) \/ Close(p)
  PROVE  \A q \in Requests : q # p => Keeps(q)
<1>1. (\A q \in Requests : q # p => req'[q] = req[q]) => \A q \in Requests : q # p => Keeps(q)  BY DEF Keeps
<1>2. CASE Arrives(p)  BY <1>1, <1>2, ArrivalMoves
<1>3. CASE Hit(p) \/ Fill(p)
  <2>1. "" \notin Requests  BY AccountsAssumption DEF AccountsAssumption
  <2> QED  BY <2>1, <1>1, <1>3, LoadMoves
<1>9. CASE Forget(p) \/ StatementFails(p)  BY <1>1, <1>9, ForgetMoves, FailureMoves
<1>4. CASE Keep(p) \/ Enter(p) \/ Issue(p) \/ CreateRow(p) \/ Close(p)
  <2>1. Goes(p)  BY <1>4 DEF Goes, Loads, Keep, Enter, Issue, CreateRow, Close
  <2> QED  BY <2>1, <1>1, GoesMoves
<1>5. CASE Touch(p)  BY <1>5, TouchMoves
<1>6. CASE SaveRow(p)  BY <1>6, SaveMoves
<1>7. CASE ReadRow(p)  BY <1>1, <1>7, ReadMoves
<1>8. CASE Miss(p)  BY <1>1, <1>8 DEF Miss
<1> QED  BY <1>2, <1>3, <1>4, <1>5, <1>6, <1>7, <1>8, <1>9 DEF Work

\* The actor of a step: nobody who holds a lock makes another step than Fill.
LEMMA HoldersWait ==
  ASSUME TablesFit, RequestsFit, LocksHeld, NEW p \in Requests, Arrives(p) \/ Work(p) \/ Close(p), ~Fill(p),
         NEW l \in Logins, cache[l].by # ""
  PROVE  cache[l].by \in Requests /\ cache[l].by # p /\ req'[cache[l].by] = req[cache[l].by]
<1> DEFINE b == cache[l].by
<1>1. b \in Requests /\ req[b].login = l /\ Loads(b)
  <2>1. cache[l] \in Entries  BY DEF TablesFit
  <2> QED  BY <2>1 DEF Entries, LocksHeld
<1>2. b # p
  <2>1. SUFFICES ASSUME b = p PROVE FALSE  OBVIOUS
  <2>2. Entry(p).by # "" /\ Loads(p)  BY <1>1, <2>1 DEF Entry
  <2>3. ~Hit(p) /\ ~Miss(p)  BY <2>2 DEF Hit, Miss
  <2>4. Step(p) \in {"valid", "get", "auth", "login", "token"}  BY <2>2 DEF Loads
  <2>5. ~Arrives(p)
    <3>1. req[p] # Idle  BY <2>4, AtRest
    <3> QED  BY <3>1 DEF Arrives, processTLSConn, SSLCheckHandler, getSignHandler, getAdminTokenHandler,
              getApiDevicePutHandler, getApiDevicePostHandler, Begin
  <2> QED  BY <2>3, <2>4, <2>5 DEF Work, Close, Touch, Keep, Forget, Enter, Issue, ReadRow, SaveRow, CreateRow, StatementFails
<1>3. Keeps(b)  BY <1>1, <1>2, OthersKeep
<1> QED  BY <1>1, <1>2, <1>3 DEF Keeps, Loads

\* Locks are held by those who load.
LEMMA LocksStay ==
  ASSUME TablesFit, RequestsFit, LocksHeld, [Next]_vars
  PROVE  LocksHeld'
<1> SUFFICES ASSUME NEW l \in Logins, cache'[l].by # ""
             PROVE  (req[cache[l].by].login = l /\ Loads(cache[l].by))'
  BY DEF LocksHeld
<1>1. \A b \in Requests : req'[b] = req[b] => (Loads(b)' <=> Loads(b))  BY DEF Loads, Step
<1>2. cache[l].by # "" => cache[l].by \in Requests /\ req[cache[l].by].login = l /\ Loads(cache[l].by)
  <2>1. cache[l] \in Entries  BY DEF TablesFit
  <2> QED  BY <2>1 DEF Entries, LocksHeld
<1>3. CASE UNCHANGED <<cache, req>>  BY <1>1, <1>2, <1>3
<1>4. ASSUME NEW p \in Requests, Arrives(p) \/ Work(p) \/ Close(p), ~Fill(p), cache'[l].by = cache[l].by
      PROVE  (req[cache[l].by].login = l /\ Loads(cache[l].by))'
  <2>1. cache[l].by \in Requests /\ req'[cache[l].by] = req[cache[l].by]  BY <1>4, HoldersWait
  <2> QED  BY <2>1, <1>1, <1>2, <1>4
<1>5. ASSUME NEW p \in Requests, Fill(p) PROVE  (req[cache[l].by].login = l /\ Loads(cache[l].by))'
  <2>1. cache' = [cache EXCEPT ![req[p].login] = Filled(p, Entry(p).coming)] /\ Entry(p).by = p /\ Loads(p)
    BY <1>5 DEF Fill
  <2>2. Filled(p, Entry(p).coming).by = ""  BY DEF Filled, NewEntry
  <2>3. l # req[p].login /\ cache'[l] = cache[l]  BY <2>1, <2>2 DEF TablesFit
  <2>4. cache[l].by # p  BY <1>2, <2>3
  <2>5. Keeps(cache[l].by)  BY <1>2, <1>5, <2>3, <2>4, OthersKeep DEF Work
  <2>6. req'[cache[l].by] = req[cache[l].by]  BY <1>2, <2>3, <2>5 DEF Keeps, Loads
  <2> QED  BY <1>1, <1>2, <2>3, <2>6
<1>6. ASSUME NEW p \in Requests, Miss(p) PROVE  (req[cache[l].by].login = l /\ Loads(cache[l].by))'
  <2>1. Loads(p) /\ req' = req  BY <1>6 DEF Miss
  <2>2. l # req[p].login => cache'[l] = cache[l]  BY <1>6 DEF Miss, TablesFit
  <2>3. l = req[p].login => cache'[l].by = p
    <3>1. PICK e : cache' = [cache EXCEPT ![req[p].login].by = p, ![req[p].login].at = now, ![req[p].login].coming = e]
      BY <1>6 DEF Miss
    <3>2. cache[l] \in Entries  BY DEF TablesFit
    <3> QED  BY <3>1, <3>2 DEF TablesFit, Entries
  <2> QED  BY <1>1, <1>2, <2>1, <2>2, <2>3
<1>7. ASSUME Restart PROVE FALSE
  <2>1. cache'[l] = NewEntry  BY <1>7 DEF Restart
  <2>2. NewEntry.by = ""  BY DEF NewEntry
  <2> QED  BY <2>1, <2>2
<1>8. ASSUME NEW p \in Requests, Arrives(p) PROVE cache' = cache  BY <1>8, ArrivalMoves
<1>9. ASSUME NEW p \in Requests, Work(p) \/ Close(p), ~Fill(p), ~Miss(p) PROVE cache' = cache
  BY <1>9 DEF Work, Close, Hit, Touch, Keep, Forget, Enter, Issue, ReadRow, SaveRow, CreateRow, StatementFails
<1> QED  BY <1>3, <1>4, <1>5, <1>6, <1>7, <1>8, <1>9 DEF Next, Arrives, Work, TimePasses, vars

\* Only its own handler starts a request.
LEMMA WhoStarts ==
  ASSUME TablesFit, RequestsFit, [Next]_vars, NEW q \in Requests, Starts(q)
  PROVE  Arrives(q)
<1>1. req[q] = Idle /\ Step(q) = "idle"  BY AtRest DEF Starts
<1>2. req'[q] # Idle
  <2>1. Idle.op \notin Programs  BY IdleFields DEF Programs
  <2> QED  BY <2>1 DEF Starts, Request
<1>3. ~Keeps(q)  BY <1>1, <1>2 DEF Keeps
<1>4. ASSUME NEW p \in Requests, Arrives(p) \/ Work(p) \/ Close(p) PROVE p = q  BY <1>3, <1>4, OthersKeep
<1>5. ~Work(q) /\ ~Close(q)
  BY <1>1 DEF Work, Close, Hit, Miss, Fill, Loads, Touch, Keep, Forget, Enter, Issue, ReadRow, SaveRow, CreateRow, StatementFails
<1>6. ~TimePasses /\ ~UNCHANGED vars  BY <1>1, <1>2 DEF TimePasses, vars
<1>7. ~Restart  BY <1>2 DEF Restart
<1> QED  BY <1>4, <1>5, <1>6, <1>7 DEF Next, Arrives

\* Who writes a row was going to, or starts.
LEMMA WritersMove ==
  ASSUME TablesFit, RequestsFit, NEW t \in Logins, NEW q \in Requests, Becomes(q)
  PROVE  (q \in Writers(t))' => q \in Writers(t) \/ (Starts(q) /\ req'[q].op \in {"put", "post"} /\ req'[q].target = t)
<1>1. CASE Keeps(q)
  <2>1. CASE Step(q) = "save"
    <3>1. req[q] \in Request  BY <2>1, StepFacts
    <3>2. req'[q].op = req[q].op /\ req'[q].target = req[q].target  BY <1>1, <3>1 DEF Keeps, Request
    <3> QED  BY <3>2 DEF Writers
  <2> QED  BY <1>1, <2>1 DEF Keeps, Writers
<1>2. CASE Rests(q)  BY <1>2, IdleFields DEF Rests, Writers
<1>3. CASE Starts(q)  BY <1>3 DEF Writers
<1>4. CASE Onward(q)  BY <1>4 DEF Onward, Writers
<1> QED  BY <1>1, <1>2, <1>3, <1>4 DEF Becomes, Proceeds, Sees

\* Fewer writers are no more, one of many is one, and one that comes is one more.
LEMMA Counting ==
  ASSUME NEW V \in SUBSET Requests, NEW W \in SUBSET Requests, NEW p \in Requests
  PROVE  /\ Cardinality(V) \in Nat
         /\ W \subseteq V => Cardinality(W) <= Cardinality(V)
         /\ W \subseteq V \ {p} /\ p \in V => Cardinality(W) + 1 <= Cardinality(V)
         /\ W \subseteq V \cup {p} => Cardinality(W) <= Cardinality(V) + 1
<1>1. IsFiniteSet(Requests)  BY AccountsAssumption DEF AccountsAssumption
<1>2. IsFiniteSet(V) /\ IsFiniteSet(W)  BY <1>1, FS_Subset
<1>3. Cardinality(V) \in Nat /\ Cardinality(W) \in Nat  BY <1>2, FS_CardinalityType
<1>4. W \subseteq V => Cardinality(W) <= Cardinality(V)  BY <1>2, FS_Subset
<1>5. ASSUME W \subseteq V \ {p}, p \in V PROVE Cardinality(W) + 1 <= Cardinality(V)
  <2>1. Cardinality(V \ {p}) = Cardinality(V) - 1 /\ IsFiniteSet(V \ {p})  BY <1>2, <1>5, FS_RemoveElement
  <2>2. Cardinality(W) <= Cardinality(V \ {p})  BY <1>5, <2>1, FS_Subset
  <2> QED  BY <1>3, <2>1, <2>2
<1>6. ASSUME W \subseteq V \cup {p} PROVE Cardinality(W) <= Cardinality(V) + 1
  <2>1. IsFiniteSet(V \cup {p}) /\ Cardinality(V \cup {p}) \in {Cardinality(V), Cardinality(V) + 1}
    BY <1>2, <1>3, FS_AddElement
  <2>2. Cardinality(W) <= Cardinality(V \cup {p})  BY <1>6, <2>1, FS_Subset
  <2> QED  BY <1>3, <2>1, <2>2
<1> QED  BY <1>3, <1>4, <1>5, <1>6

\* A row is replaced by who was to write it, and has a version left to do so.
LEMMA Replacers ==
  ASSUME TablesFit, RequestsFit, NEW p \in Requests, SaveRow(p) \/ (CreateRow(p) /\ devices' # devices)
  PROVE  /\ req[p].target \in Logins /\ p \in Writers(req[p].target) /\ req'[p] = Idle
         /\ \E row \in Device \cup [ver : {0}, disabled : BOOLEAN, admin : BOOLEAN, pw : Passwords] :
              Replace(req[p].target, row)
<1>1. CASE SaveRow(p)
  <2>1. Step(p) = "save"  BY <1>1 DEF SaveRow
  <2>2. req[p] \in Request /\ req[p].op = "put" /\ req[p].todo \in Rest("put") /\ Head(req[p].todo) = "save"
    BY <2>1, StepFacts
  <2>3. req[p].todo = <<"save">>  BY <2>2, Places DEF Programs
  <2>4. req[p].row \in Device /\ req[p].target \in Logins /\ req[p].pw \in Passwords \cup {""}  BY <2>2, <2>3 DEF Request
  <2>5. PICK off \in BOOLEAN :
       Replace(req[p].target, [req[p].row EXCEPT !.disabled = off, !.pw = IF req[p].pw = "" THEN @ ELSE req[p].pw])
    BY <1>1 DEF SaveRow
  <2>6. [req[p].row EXCEPT !.disabled = off, !.pw = IF req[p].pw = "" THEN @ ELSE req[p].pw] \in Device
    BY <2>4 DEF Device
  <2>7. req'[p] = Idle  BY <1>1, SaveMoves DEF Rests
  <2> QED  BY <2>2, <2>4, <2>5, <2>6, <2>7 DEF Writers
<1>2. CASE CreateRow(p) /\ devices' # devices
  <2>1. Step(p) = "create" /\ Continue(p)  BY <1>2 DEF CreateRow
  <2>2. req[p] \in Request /\ req[p].op = "post" /\ req[p].todo \in Rest("post") /\ Head(req[p].todo) = "create"
    BY <2>1, StepFacts
  <2>3. Len(req[p].todo) = 1  BY <2>2, Places DEF Programs
  <2>4. req[p].target \in Logins /\ req[p].pw \in Passwords  BY <2>2 DEF Request
  <2>5. PICK off \in BOOLEAN, admin \in BOOLEAN :
       Replace(req[p].target, [ver |-> 0, disabled |-> off, admin |-> admin, pw |-> req[p].pw])
    BY <1>2 DEF CreateRow
  <2>6. req'[p] = Idle  BY <2>1, <2>3 DEF Continue, Following, RequestsFit
  <2> QED  BY <2>2, <2>4, <2>5, <2>6 DEF Writers
<1> QED  BY <1>1, <1>2

\* The version of a row.
LEMMA Versions ==
  ASSUME TablesFit, NEW l \in Logins
  PROVE  /\ devices[l].ver \in Nat
         /\ devices[l].ver <= MaxVer
<1>1. devices[l] \in Device \cup {NoDevice}  BY DEF TablesFit
<1>2. \A d \in Device : d.ver \in 1..MaxVer  BY DEF Device
<1>3. NoDevice.ver = 0  BY DEF NoDevice
<1>4. devices[l].ver \in 1..MaxVer \/ devices[l].ver = 0  BY <1>1, <1>2, <1>3
<1> QED  BY <1>4, Constants

\* Replace changes one row.
LEMMA ReplacedRows ==
  ASSUME TablesFit, NEW t \in Logins, NEW row, Replace(t, row)
  PROVE  /\ \A l \in Logins : l # t => devices'[l] = devices[l]
         /\ devices'[t] = [row EXCEPT !.ver = devices[t].ver + 1]
BY DEF TablesFit, Replace

\* The version of a row that is written.
LEMMA NewRow ==
  ASSUME NEW row \in Device \cup [ver : {0}, disabled : BOOLEAN, admin : BOOLEAN, pw : Passwords], NEW n
  PROVE  /\ [row EXCEPT !.ver = n].ver = n /\ [row EXCEPT !.ver = n].pw = row.pw
         /\ n \in 1..MaxVer => [row EXCEPT !.ver = n] \in Device
BY DEF Device

\* Only two steps write devices.
LEMMA DevicesStay ==
  ASSUME TablesFit, [Next]_vars, ~ \E p \in Requests : SaveRow(p) \/ (CreateRow(p) /\ devices' # devices)
  PROVE  devices' = devices
<1>1. ASSUME NEW p \in Requests, Arrives(p) PROVE devices' = devices
  BY <1>1 DEF Arrives, processTLSConn, SSLCheckHandler, getSignHandler, getAdminTokenHandler,
      getApiDevicePutHandler, getApiDevicePostHandler, Begin
<1>2. ASSUME NEW p \in Requests, Work(p) \/ Close(p) PROVE devices' = devices
  BY <1>2 DEF Work, Close, Hit, Miss, Fill, Touch, Keep, Forget, Enter, Issue, ReadRow, StatementFails
<1> QED  BY <1>1, <1>2 DEF Next, Arrives, TimePasses, Restart, vars

\* An edit under way keeps the version it will write.
LEMMA RoomStays ==
  ASSUME TablesFit, RequestsFit, RoomToWrite, [Next]_vars
  PROVE  RoomToWrite'
<1> SUFFICES ASSUME NEW t \in Logins PROVE devices'[t].ver + Cardinality(Writers(t)') <= MaxVer
  BY DEF RoomToWrite
<1> DEFINE V == Writers(t)
           W == Writers(t)'
<1>1. V \in SUBSET Requests /\ W \in SUBSET Requests  BY DEF Writers
<1>2. devices[t].ver + Cardinality(V) <= MaxVer  BY DEF RoomToWrite
<1>3. devices[t].ver \in Nat /\ MaxVer \in Nat  BY Versions, Constants
<1>4. \A q \in Requests : q \in W => q \in V \/ (Starts(q) /\ req'[q].op \in {"put", "post"} /\ req'[q].target = t)
  BY RequestMoves, WritersMove
<1>5. ASSUME NEW p \in Requests, Arrives(p) PROVE devices'[t].ver + Cardinality(W) <= MaxVer
  <2>1. devices' = devices /\ \A q \in Requests : q # p => req'[q] = req[q]  BY <1>5, ArrivalMoves
  <2>2. \A q \in Requests : q # p /\ q \in W => q \in V  BY <2>1 DEF Writers
  <2>3. W \subseteq V \cup {p}  BY <1>1, <2>2
  <2>4. CASE p \in W
    <3>1. MayChange(t)  BY <1>5, <2>4, ArrivalMoves DEF Writers
    <3>2. V = {q \in Of({"put", "post"}) : req[q].target = t}  BY DEF Writers, Of
    <3>3. devices[t].ver + Cardinality(V) < MaxVer  BY <3>1, <3>2 DEF MayChange
    <3>4. Cardinality(V) \in Nat /\ Cardinality(W) <= Cardinality(V) + 1 /\ Cardinality(W) \in Nat
      <4> HIDE DEF V, W
      <4> QED  BY <1>1, <2>3, Counting
    <3> HIDE DEF V, W
    <3> QED  BY <1>3, <2>1, <3>3, <3>4
  <2>5. CASE p \notin W
    <3>1. W \subseteq V  BY <2>3, <2>5
    <3>2. Cardinality(V) \in Nat /\ Cardinality(W) <= Cardinality(V) /\ Cardinality(W) \in Nat
      <4> HIDE DEF V, W
      <4> QED  BY <1>1, <3>1, Counting, <1>5
    <3> HIDE DEF V, W
    <3> QED  BY <1>2, <1>3, <2>1, <3>2
  <2> QED  BY <2>4, <2>5
<1>6. ASSUME NEW p \in Requests, SaveRow(p) \/ (CreateRow(p) /\ devices' # devices)
      PROVE  devices'[t].ver + Cardinality(W) <= MaxVer
  <2>1. PICK row \in Device \cup [ver : {0}, disabled : BOOLEAN, admin : BOOLEAN, pw : Passwords] :
             Replace(req[p].target, row)
    BY <1>6, Replacers
  <2>2. req[p].target \in Logins /\ p \in Writers(req[p].target) /\ req'[p] = Idle  BY <1>6, Replacers
  <2>3. \A q \in Requests : q # p => Keeps(q)  BY <1>6, OthersKeep DEF Work
  <2>4. W \subseteq V \ {p}
    <3>1. p \notin W  BY <2>2, IdleFields DEF Writers
    <3>2. \A q \in Requests : q # p => ~Starts(q)
      <4> TAKE q \in Requests
      <4>1. Keeps(q) /\ req[q] = Idle => req'[q] = Idle  BY AtRest DEF Keeps
      <4>2. Starts(q) => req[q] = Idle /\ req'[q].todo \in Rest(req'[q].op) /\ req'[q].op \in Programs
        BY DEF Starts, Request
      <4>3. Idle.op \notin Programs  BY IdleFields DEF Programs
      <4> QED  BY <2>3, <4>1, <4>2, <4>3
    <3> QED  BY <1>1, <1>4, <3>1, <3>2
  <2>5. Cardinality(V) \in Nat /\ Cardinality(W) \in Nat /\ Cardinality(W) <= Cardinality(V)
        /\ (p \in V => Cardinality(W) + 1 <= Cardinality(V))
    <3> HIDE DEF V, W
    <3>1. W \subseteq V  BY <2>4
    <3> QED  BY <1>1, <2>4, <3>1, Counting
  <2>6. ASSUME t = req[p].target PROVE p \in V /\ devices'[t].ver = devices[t].ver + 1
    <3> DEFINE n == devices[t].ver + 1
    <3>1. devices'[t] = [row EXCEPT !.ver = n]  BY <2>1, <2>2, <2>6, ReplacedRows
    <3>2. devices'[t].ver = n
      <4> HIDE DEF n
      <4> QED  BY <3>1, NewRow
    <3> QED  BY <2>2, <2>6, <3>2
  <2>7. t # req[p].target => devices'[t] = devices[t]  BY <2>1, <2>2, ReplacedRows
  <2> HIDE DEF V, W
  <2> QED  BY <1>2, <1>3, <2>5, <2>6, <2>7
<1>7. ASSUME devices' = devices, W \subseteq V PROVE devices'[t].ver + Cardinality(W) <= MaxVer
  <2>1. Cardinality(V) \in Nat /\ Cardinality(W) <= Cardinality(V) /\ Cardinality(W) \in Nat
    <3> HIDE DEF V, W
    <3>1. CASE Requests = {}
      <4>1. V = W  BY <1>1, <3>1
      <4>2. IsFiniteSet(V)  BY <1>1, <3>1, FS_EmptySet
      <4> QED  BY <4>1, <4>2, FS_CardinalityType
    <3> QED  BY <1>1, <1>7, <3>1, Counting
  <2> HIDE DEF V, W
  <2> QED  BY <1>2, <1>3, <1>7, <2>1
<1>8. ASSUME ~ \E p \in Requests : Arrives(p), ~ \E p \in Requests : SaveRow(p) \/ (CreateRow(p) /\ devices' # devices)
      PROVE devices' = devices /\ W \subseteq V
  <2>1. devices' = devices  BY <1>8, DevicesStay
  <2>2. \A q \in Requests : ~Starts(q)  BY <1>8, WhoStarts
  <2> QED  BY <1>1, <1>4, <2>1, <2>2
<1> QED  BY <1>5, <1>6, <1>7, <1>8

\* Which steps write which table.
LEMMA WhoWrites ==
  ASSUME TablesFit, RequestsFit, [Next]_vars
  PROVE  /\ now' # now => TimePasses
         /\ cache' # cache => Restart \/ \E p \in Requests : Miss(p) \/ Fill(p)
         /\ seen' # seen => \E p \in Requests : Touch(p) \/ SaveRow(p)
         /\ ended' # ended => \E p \in Requests : SaveRow(p) \/ (CreateRow(p) /\ devices' # devices)
         /\ tokens' # tokens => Restart \/ \E p \in Requests : Issue(p)
         /\ certs' # certs => \E p \in Requests : Keep(p) \/ Forget(p) \/ Enter(p)
         /\ issued' # issued => \E p \in Requests : Enter(p)
         /\ faults' # faults => \E p \in Requests : Miss(p) \/ Forget(p) \/ Enter(p) \/ StatementFails(p)
<1>1. ASSUME NEW p \in Requests, Arrives(p)
      PROVE  UNCHANGED <<now, devices, seen, ended, cache, certs, issued, tokens, faults>>
  BY <1>1, ArrivalMoves
<1>2. ASSUME NEW p \in Requests, CreateRow(p) PROVE devices' = devices => ended' = ended
  <2>1. CASE devices[req[p].target] = NoDevice
    <3>1. PICK row \in [ver : {0}, disabled : BOOLEAN, admin : BOOLEAN, pw : {req[p].pw}] : Replace(req[p].target, row)
      BY <1>2, <2>1 DEF CreateRow
    <3>2. req[p].target \in Logins
      <4>1. Step(p) = "create"  BY <1>2 DEF CreateRow
      <4>2. req[p] \in Request /\ req[p].op = "post"  BY <4>1, StepFacts
      <4> QED  BY <4>2 DEF Request
    <3>3. devices'[req[p].target] = [row EXCEPT !.ver = devices[req[p].target].ver + 1]  BY <3>1, <3>2, ReplacedRows
    <3>4. devices'[req[p].target].ver = devices[req[p].target].ver + 1  BY <3>3
    <3>5. devices'[req[p].target].ver # devices[req[p].target].ver  BY <3>2, <3>4, Versions
    <3> QED  BY <3>5
  <2> QED  BY <1>2, <2>1 DEF CreateRow
<1>3. ASSUME NEW p \in Requests, Work(p) \/ Close(p)
      PROVE  /\ now' = now
             /\ ~Miss(p) /\ ~Fill(p) => cache' = cache
             /\ ~Touch(p) /\ ~SaveRow(p) => seen' = seen
             /\ ~SaveRow(p) /\ ~CreateRow(p) => ended' = ended
             /\ ~Issue(p) => tokens' = tokens
             /\ ~Keep(p) /\ ~Forget(p) /\ ~Enter(p) => certs' = certs
             /\ ~Enter(p) => issued' = issued
             /\ ~Miss(p) /\ ~Forget(p) /\ ~Enter(p) /\ ~StatementFails(p) => faults' = faults
  BY <1>3 DEF Work, Close, Hit, Miss, Fill, Touch, Keep, Forget, Enter, Issue, ReadRow, SaveRow, CreateRow, StatementFails
<1>4. ASSUME Restart PROVE UNCHANGED <<now, seen, ended, certs, issued, faults>>  BY <1>4 DEF Restart
<1>5. ASSUME TimePasses PROVE UNCHANGED <<devices, seen, ended, cache, certs, issued, tokens, req, faults>>
  BY <1>5 DEF TimePasses
<1>6. ASSUME UNCHANGED vars PROVE UNCHANGED <<now, devices, seen, ended, cache, certs, issued, tokens, faults>>
  BY <1>6 DEF vars
<1> QED  BY <1>1, <1>2, <1>3, <1>4, <1>5, <1>6 DEF Next, Arrives

\* Rows and their ends are of their types.
LEMMA RowsStay ==
  ASSUME TablesFit, RequestsFit, RoomToWrite, [Next]_vars
  PROVE  /\ devices' \in [Logins -> Device \cup {NoDevice}]
         /\ ended' \in [Logins -> [0..MaxVer -> 0..Never]]
<1>1. CASE \E p \in Requests : SaveRow(p) \/ (CreateRow(p) /\ devices' # devices)
  <2>1. PICK p \in Requests : SaveRow(p) \/ (CreateRow(p) /\ devices' # devices)  BY <1>1
  <2> DEFINE t == req[p].target
             n == devices[t].ver + 1
  <2>2. PICK row \in Device \cup [ver : {0}, disabled : BOOLEAN, admin : BOOLEAN, pw : Passwords] : Replace(t, row)
    BY <2>1, Replacers
  <2>3. t \in Logins /\ p \in Writers(t)  BY <2>1, Replacers
  <2>4. n \in 1..MaxVer
    <3>1. Cardinality({}) + 1 <= Cardinality(Writers(t)) /\ Cardinality(Writers(t)) \in Nat /\ Cardinality({}) \in Nat
      <4>1. Writers(t) \in SUBSET Requests /\ {} \in SUBSET Requests  BY DEF Writers
      <4>2. {} \subseteq Writers(t) \ {p}  OBVIOUS
      <4> QED  BY <2>3, <4>1, <4>2, Counting
    <3>2. devices[t].ver + Cardinality(Writers(t)) <= MaxVer  BY <2>3 DEF RoomToWrite
    <3>3. devices[t].ver \in Nat  BY <2>3, Versions
    <3> QED  BY <3>1, <3>2, <3>3, Constants
  <2>5. devices' = [devices EXCEPT ![t] = [row EXCEPT !.ver = n]]  BY <2>2 DEF Replace
  <2>6. [row EXCEPT !.ver = n] \in Device
    <3> HIDE DEF n
    <3> QED  BY <2>4, NewRow
  <2>7. devices' \in [Logins -> Device \cup {NoDevice}]
    <3> HIDE DEF n, t
    <3> QED  BY <2>5, <2>6 DEF TablesFit
  <2>8. ended' = [ended EXCEPT ![t][devices[t].ver] = now]  BY <2>2 DEF Replace
  <2>9. now \in 0..Never  BY Constants DEF TablesFit
  <2>10. ended \in [Logins -> [0..MaxVer -> 0..Never]]  BY DEF TablesFit
  <2>11. ended' \in [Logins -> [0..MaxVer -> 0..Never]]
    <3> HIDE DEF n, t
    <3> QED  BY <2>8, <2>9, <2>10
  <2> QED  BY <2>7, <2>11
<1>2. CASE ~ \E p \in Requests : SaveRow(p) \/ (CreateRow(p) /\ devices' # devices)
  <2>1. devices' = devices  BY <1>2, DevicesStay
  <2>2. ended' = ended  BY <1>2, WhoWrites
  <2> QED  BY <2>1, <2>2 DEF TablesFit
<1> QED  BY <1>1, <1>2

\* So is the column last_connect,
LEMMA SeenStays ==
  ASSUME TablesFit, RequestsFit, [Next]_vars
  PROVE  seen' \in [Logins -> 0..MaxTime]
<1>1. ASSUME NEW p \in Requests, Touch(p) PROVE seen' \in [Logins -> 0..MaxTime]
  <2>1. seen' = [seen EXCEPT ![req[p].login] = now]  BY <1>1 DEF Touch
  <2> QED  BY <2>1 DEF TablesFit
<1>2. ASSUME NEW p \in Requests, SaveRow(p) PROVE seen' \in [Logins -> 0..MaxTime]
  <2>1. Step(p) = "save" /\ seen' = [seen EXCEPT ![req[p].target] = req[p].rowSeen]  BY <1>2 DEF SaveRow
  <2>2. req[p] \in Request  BY <2>1, StepFacts
  <2>3. req[p].rowSeen \in 0..MaxTime  BY <2>2 DEF Request
  <2> QED  BY <2>1, <2>3 DEF TablesFit
<1> QED  BY <1>1, <1>2, WhoWrites DEF TablesFit

\* and so are tokens,
LEMMA TokensStay ==
  ASSUME TablesFit, RequestsFit, [Next]_vars
  PROVE  tokens' \in [Logins -> 0..Never]
<1>1. ASSUME Restart PROVE tokens' \in [Logins -> 0..Never]  BY <1>1, Constants DEF Restart
<1>2. ASSUME NEW p \in Requests, Issue(p) PROVE tokens' \in [Logins -> 0..Never]
  <2>1. tokens' = [tokens EXCEPT ![req[p].login] = now]  BY <1>2 DEF Issue
  <2> QED  BY <2>1, Constants DEF TablesFit
<1> QED  BY <1>1, <1>2, WhoWrites DEF TablesFit

\* certificates,
LEMMA CertsStay ==
  ASSUME TablesFit, RequestsFit, [Next]_vars
  PROVE  /\ certs' \in [Serials -> Cert \cup {NoCert}]
         /\ issued' \in [Serials -> [login : Logins, uid : Uids] \cup {NotIssued}]
<1> DEFINE Issues == [login : Logins, uid : Uids]
<1>1. ASSUME NEW p \in Requests, Step(p) \in {"keep", "enter"} PROVE req[p].login \in Logins /\ req[p].uid \in Uids
  <2>1. req[p] \in Request /\ req[p].op \in {"connect", "sign"}  BY <1>1, StepFacts
  <2> QED  BY <2>1 DEF Request
<1>2. ASSUME NEW p \in Requests, Keep(p) PROVE certs' \in [Serials -> Cert \cup {NoCert}]
  <2> DEFINE c == [login |-> req[p].login, uid |-> req[p].uid, extra |-> TRUE]
  <2>1. certs' = [certs EXCEPT ![req[p].sn] = IF @ # NoCert THEN @ ELSE c]  BY <1>2 DEF Keep
  <2>2. c \in Cert  BY <1>1, <1>2 DEF Keep, Cert
  <2> HIDE DEF c
  <2> QED  BY <2>1, <2>2 DEF TablesFit
<1>3. ASSUME NEW p \in Requests, Forget(p) PROVE certs' \in [Serials -> Cert \cup {NoCert}]
  BY <1>3 DEF Forget, TablesFit
<1>4. ASSUME NEW p \in Requests, Enter(p)
      PROVE  certs' \in [Serials -> Cert \cup {NoCert}] /\ issued' \in [Serials -> Issues \cup {NotIssued}]
  <2> DEFINE x == req[p].left \/ \E q \in Requests \ {p} : /\ Step(q) = "enter" /\ req[q].login = req[p].login
                                                           /\ req[q].uid = req[p].uid
             c == [login |-> req[p].login, uid |-> req[p].uid, extra |-> x]
  <2>1. PICK s \in Serials, failed \in BOOLEAN :
          /\ issued' = [issued EXCEPT ![s] = [login |-> req[p].login, uid |-> req[p].uid]]
          /\ certs' = [certs EXCEPT ![s] = IF failed THEN NoCert ELSE c]
    BY <1>4 DEF Enter
  <2>2. req[p].login \in Logins /\ req[p].uid \in Uids  BY <1>1, <1>4 DEF Enter
  <2>3. x \in BOOLEAN  OBVIOUS
  <2>4. c \in Cert
    <3> HIDE DEF x
    <3> QED  BY <2>2, <2>3 DEF Cert
  <2>5. [login |-> req[p].login, uid |-> req[p].uid] \in Issues  BY <2>2
  <2> HIDE DEF c
  <2> QED  BY <2>1, <2>4, <2>5 DEF TablesFit
<1> QED  BY <1>2, <1>3, <1>4, WhoWrites DEF TablesFit

\* the entries of the cache,
LEMMA CacheStays ==
  ASSUME TablesFit, RequestsFit, [Next]_vars
  PROVE  cache' \in [Logins -> Entries]
<1>1. NewEntry \in Entries  BY Constants DEF NewEntry, Entries, Rows
<1>2. ASSUME NEW p \in Requests, Fill(p) PROVE cache' \in [Logins -> Entries]
  <2>1. cache' = [cache EXCEPT ![req[p].login] = Filled(p, Entry(p).coming)] /\ Loads(p)  BY <1>2 DEF Fill
  <2>2. req[p].login \in Logins  BY <2>1, StepFacts DEF Loads
  <2>3. Entry(p).coming \in Rows  BY <2>2 DEF TablesFit, Entries, Entry
  <2>4. now \in 0..Never  BY Constants DEF TablesFit
  <2>5. Filled(p, Entry(p).coming) \in Entries  BY <1>1, <2>3, <2>4 DEF Filled, Entries
  <2> QED  BY <2>1, <2>5 DEF TablesFit
<1>3. ASSUME NEW p \in Requests, Miss(p) PROVE cache' \in [Logins -> Entries]
  <2>1. Loads(p)  BY <1>3 DEF Miss
  <2>2. req[p].login \in Logins  BY <2>1, StepFacts DEF Loads
  <2>3. PICK e \in {Empty, devices[req[p].login]} :
          cache' = [cache EXCEPT ![req[p].login].by = p, ![req[p].login].at = now, ![req[p].login].coming = e]
    BY <1>3 DEF Miss
  <2>4. e \in Rows  BY <2>2 DEF TablesFit, Rows
  <2>5. now \in 0..MaxTime  BY DEF TablesFit
  <2>6. [cache[req[p].login] EXCEPT !.by = p, !.at = now, !.coming = e] \in Entries
    <3> DEFINE f == cache[req[p].login]
    <3>1. f \in Entries  BY <2>2 DEF TablesFit
    <3> HIDE DEF f
    <3>2. [f EXCEPT !.by = p, !.at = now, !.coming = e] \in Entries  BY <3>1, <2>4, <2>5 DEF Entries
    <3> QED  BY <3>2 DEF f
  <2>7. cache' = [cache EXCEPT ![req[p].login] = [cache[req[p].login] EXCEPT !.by = p, !.at = now, !.coming = e]]
    BY <2>2, <2>3 DEF TablesFit
  <2> QED  BY <2>6, <2>7 DEF TablesFit
<1>4. ASSUME Restart PROVE cache' \in [Logins -> Entries]  BY <1>1, <1>4 DEF Restart
<1> QED  BY <1>2, <1>3, <1>4, WhoWrites DEF TablesFit

\* and the clock and the number of failed statements.
LEMMA CountersStay ==
  ASSUME TablesFit, RequestsFit, [Next]_vars
  PROVE  now' \in 0..MaxTime /\ faults' \in 0..MaxFaults
<1>1. ASSUME TimePasses PROVE now' \in 0..MaxTime
  <2>1. now < MaxTime /\ now' = now + 1  BY <1>1 DEF TimePasses
  <2>2. now \in 0..MaxTime  BY DEF TablesFit
  <2> QED  BY <2>1, <2>2, Constants
<1>2. ASSUME NEW p \in Requests, Miss(p) \/ Forget(p) \/ Enter(p) \/ StatementFails(p) PROVE faults' \in 0..MaxFaults
  <2>1. faults' = faults \/ (faults' = faults + 1 /\ faults < MaxFaults)
    BY <1>2 DEF Miss, Forget, Enter, StatementFails, Fails
  <2>2. faults \in 0..MaxFaults  BY DEF TablesFit
  <2> QED  BY <2>1, <2>2, Constants
<1> QED  BY <1>1, <1>2, WhoWrites DEF TablesFit

\* The first part is inductive.
LEMMA ShapeStays ==
  ASSUME Shape, [Next]_vars
  PROVE  Shape'
<1>1. TablesFit /\ RequestsFit /\ LocksHeld /\ RoomToWrite  BY DEF Shape
<1>2. TablesFit'
  BY <1>1, RowsStay, SeenStays, TokensStay, CertsStay, CacheStays, CountersStay DEF TablesFit
<1> QED  BY <1>1, <1>2, RequestMoves, LocksStay, RoomStays DEF Shape

\* The first part holds at the start.
LEMMA ShapeAtFirst ==
  ASSUME Init
  PROVE  Shape
<1>1. NewEntry \in Entries /\ NewEntry.by = ""  BY Constants DEF NewEntry, Entries, Rows
<1>2. devices \in [Logins -> Device \cup {NoDevice}] /\ certs \in [Serials -> Cert \cup {NoCert}]
  BY AccountsAssumption DEF AccountsAssumption, Init
<1>3. issued \in [Serials -> [login : Logins, uid : Uids] \cup {NotIssued}]
  <2>1. issued = [s \in Serials |-> [login |-> certs[s].login, uid |-> certs[s].uid]]  BY DEF Init
  <2>2. ASSUME NEW s \in Serials
        PROVE  [login |-> certs[s].login, uid |-> certs[s].uid] \in [login : Logins, uid : Uids] \cup {NotIssued}
    <3>1. certs[s] \in Cert \/ certs[s] = NoCert  BY <1>2
    <3>2. NoCert.login = "" /\ NoCert.uid = ""  BY DEF NoCert
    <3>3. CASE certs[s] = NoCert  BY <3>2, <3>3 DEF NotIssued
    <3>4. CASE certs[s] \in Cert  BY <3>4 DEF Cert
    <3> QED  BY <3>1, <3>3, <3>4
  <2> QED  BY <2>1, <2>2
<1>4. now \in 0..MaxTime /\ faults \in 0..MaxFaults /\ 0 \in 0..MaxTime  BY Constants DEF Init
<1>5. seen \in [Logins -> 0..MaxTime] /\ ended \in [Logins -> [0..MaxVer -> 0..Never]]  BY <1>4, Constants DEF Init
<1>6. tokens \in [Logins -> 0..Never]
  <2>1. tokens \in [Logins -> {0, Never}]  BY DEF Init
  <2>2. {0, Never} \subseteq 0..Never  BY Constants
  <2> QED  BY <2>1, <2>2
<1>7. cache \in [Logins -> Entries]  BY <1>1 DEF Init
<1>8. TablesFit  BY <1>2, <1>3, <1>4, <1>5, <1>6, <1>7 DEF TablesFit
<1>9. RequestsFit  BY DEF Init, RequestsFit
<1>10. LocksHeld  BY <1>1 DEF Init, LocksHeld
<1>11. RoomToWrite
  <2> SUFFICES ASSUME NEW t \in Logins PROVE devices[t].ver + Cardinality(Writers(t)) <= MaxVer  BY DEF RoomToWrite
  <2>1. Writers(t) = {}  BY IdleFields DEF Writers, Init
  <2>2. Cardinality(Writers(t)) = 0  BY <2>1, FS_EmptySet
  <2>3. devices[t].ver \in Nat /\ devices[t].ver <= MaxVer  BY <1>8, Versions
  <2> QED  BY <2>2, <2>3
<1> QED  BY <1>8, <1>9, <1>10, <1>11 DEF Shape
-----------------------------------------------------------------------------
(* How old a row may be. *)

\* Times are numbers.
LEMMA Times ==
  ASSUME TablesFit, NEW l \in Logins
  PROVE  /\ now \in Nat /\ now <= MaxTime /\ cache[l].ts \in Nat /\ cache[l].at \in Nat
         /\ \A v \in 0..MaxVer : ended[l][v] \in Nat
<1>1. now \in 0..MaxTime  BY DEF TablesFit
<1>2. cache[l].ts \in 0..Never /\ cache[l].at \in 0..MaxTime  BY DEF TablesFit, Entries
<1>3. \A v \in 0..MaxVer : ended[l][v] \in 0..Never  BY DEF TablesFit
<1> QED  BY <1>1, <1>2, <1>3, Constants

\* The versions of the rows that were ever there.
LEMMA RowVersions ==
  ASSUME NEW d \in Rows
  PROVE  d # Empty => d.ver \in 0..MaxVer
<1>1. \A e \in Device : e.ver \in 1..MaxVer  BY DEF Device
<1>2. NoDevice.ver = 0  BY DEF NoDevice
<1>3. d # Empty => d.ver \in 1..MaxVer \/ d.ver = 0  BY <1>1, <1>2 DEF Rows
<1> QED  BY <1>3, Constants

\* The second part holds at the start.
LEMMA AgesAtFirst ==
  ASSUME Init, Shape
  PROVE  Ages
<1>1. NewEntry.by = "" /\ NewEntry.ts = Never  BY DEF NewEntry
<1>2. \A l \in Logins : cache[l].by = "" /\ cache[l].ts = Never  BY <1>1 DEF Init
<1>3. PastTimes /\ ReadInTime  BY <1>2 DEF PastTimes, ReadInTime
<1>4. \A p \in Requests : req[p].saw = Nothing  BY IdleFields DEF Init
<1>5. \A s \in DOMAIN Nothing : Nothing[s].at = Never  BY DEF Nothing
<1>6. PastViews /\ StaleAtMost  BY <1>4, <1>5 DEF PastViews, StaleAtMost
<1>7. NotEndedYet  BY DEF Init, NotEndedYet
<1> QED  BY <1>3, <1>6, <1>7 DEF Ages

\* A replaced row ends now, and only the present one is replaced.
LEMMA Endings ==
  ASSUME TablesFit, RequestsFit, NotEndedYet, [Next]_vars, NEW l \in Logins
  PROVE  /\ devices'[l].ver >= devices[l].ver
         /\ \A v \in 0..MaxVer : \/ ended'[l][v] = ended[l][v]
                                 \/ ended'[l][v] = now /\ v = devices[l].ver /\ devices'[l].ver = v + 1 /\ ended[l][v] = Never
         /\ devices'[l] # devices[l] => devices'[l].ver = devices[l].ver + 1
<1>0. devices[l].ver \in Nat /\ devices[l].ver <= MaxVer /\ MaxVer \in Nat  BY Versions, Constants
<1>1. CASE \E p \in Requests : SaveRow(p) \/ (CreateRow(p) /\ devices' # devices)
  <2>1. PICK p \in Requests : SaveRow(p) \/ (CreateRow(p) /\ devices' # devices)  BY <1>1
  <2> DEFINE t == req[p].target
             n == devices[t].ver + 1
  <2>2. PICK row \in Device \cup [ver : {0}, disabled : BOOLEAN, admin : BOOLEAN, pw : Passwords] : Replace(t, row)
    BY <2>1, Replacers
  <2>3. t \in Logins  BY <2>1, Replacers
  <2>4. devices'[t].ver = n
    <3>1. devices'[t] = [row EXCEPT !.ver = n]  BY <2>2, <2>3, ReplacedRows
    <3> HIDE DEF n, t
    <3> QED  BY <3>1, NewRow
  <2>5. l # t => devices'[l] = devices[l]  BY <2>2, <2>3, ReplacedRows
  <2>6. ended' = [ended EXCEPT ![t][devices[t].ver] = now] /\ ended \in [Logins -> [0..MaxVer -> 0..Never]]
    BY <2>2 DEF Replace, TablesFit
  <2>7. \A v \in 0..MaxVer : \/ ended'[l][v] = ended[l][v]
                             \/ ended'[l][v] = now /\ v = devices[l].ver /\ l = t
    <3> HIDE DEF t, n
    <3> QED  BY <2>3, <2>6
  <2>8. \A v \in 0..MaxVer : v = devices[l].ver => ended[l][v] = Never  BY <1>0 DEF NotEndedYet
  <2> HIDE DEF t
  <2> QED  BY <1>0, <2>4, <2>5, <2>7, <2>8
<1>2. CASE ~ \E p \in Requests : SaveRow(p) \/ (CreateRow(p) /\ devices' # devices)
  <2>1. devices' = devices  BY <1>2, DevicesStay
  <2>2. ended' = ended  BY <1>2, WhoWrites
  <2> QED  BY <1>0, <2>1, <2>2
<1> QED  BY <1>1, <1>2

\* An entry stays, is forgotten, is being loaded, or has been.
LEMMA EntryMoves ==
  ASSUME TablesFit, RequestsFit, [Next]_vars, NEW l \in Logins
  PROVE  \/ cache'[l] = cache[l]
         \/ cache'[l].ts = Never /\ cache'[l].by = "" /\ Restart
         \/ /\ cache'[l].ts = cache[l].ts /\ cache'[l].value = cache[l].value /\ cache[l].by = "" /\ cache'[l].by # ""
            /\ cache'[l].at = now /\ cache'[l].coming \in {Empty, devices[l]}
            /\ now' = now /\ devices' = devices /\ ended' = ended
         \/ /\ cache'[l].ts = now /\ cache'[l].value = cache[l].coming /\ cache[l].by # "" /\ cache'[l].by = ""
            /\ now' = now /\ devices' = devices /\ ended' = ended
<1>1. CASE Restart
  <2>1. cache'[l] = NewEntry  BY <1>1 DEF Restart
  <2>2. NewEntry.ts = Never /\ NewEntry.by = ""  BY DEF NewEntry
  <2> QED  BY <1>1, <2>1, <2>2
<1>a. "" \notin Requests  BY AccountsAssumption DEF AccountsAssumption
<1>2. ASSUME NEW p \in Requests, Miss(p), req[p].login = l
      PROVE  /\ cache'[l].ts = cache[l].ts /\ cache'[l].value = cache[l].value /\ cache[l].by = "" /\ cache'[l].by # ""
             /\ cache'[l].at = now /\ cache'[l].coming \in {Empty, devices[l]}
             /\ now' = now /\ devices' = devices /\ ended' = ended
  <2>1. PICK e \in {Empty, devices[l]} : cache' = [cache EXCEPT ![l].by = p, ![l].at = now, ![l].coming = e]
    BY <1>2 DEF Miss
  <2>2. cache[l] \in Entries  BY DEF TablesFit
  <2>3. cache'[l] = [cache[l] EXCEPT !.by = p, !.at = now, !.coming = e]  BY <2>1 DEF TablesFit
  <2>4. cache'[l].ts = cache[l].ts /\ cache'[l].value = cache[l].value /\ cache'[l].by = p /\ cache'[l].at = now
        /\ cache'[l].coming = e
    BY <2>2, <2>3 DEF Entries
  <2>5. cache[l].by = ""  BY <1>2 DEF Miss, Entry
  <2> QED  BY <1>2, <1>a, <2>4, <2>5 DEF Miss
<1>3. ASSUME NEW p \in Requests, Fill(p), req[p].login = l
      PROVE  /\ cache'[l].ts = now /\ cache'[l].value = cache[l].coming /\ cache[l].by # "" /\ cache'[l].by = ""
             /\ now' = now /\ devices' = devices /\ ended' = ended
  <2>1. cache'[l] = Filled(p, cache[l].coming) /\ cache[l].by = p  BY <1>3 DEF Fill, Entry, TablesFit
  <2>2. \A d : Filled(p, d).ts = now /\ Filled(p, d).value = d /\ Filled(p, d).by = ""  BY DEF Filled, NewEntry
  <2> QED  BY <1>3, <1>a, <2>1, <2>2 DEF Fill
<1>4. ASSUME NEW p \in Requests, Miss(p) \/ Fill(p), req[p].login # l PROVE cache'[l] = cache[l]
  <2>1. ASSUME Fill(p) PROVE cache'[l] = cache[l]  BY <1>4, <2>1 DEF Fill, TablesFit
  <2>2. ASSUME Miss(p) PROVE cache'[l] = cache[l]  BY <1>4, <2>2 DEF Miss, TablesFit
  <2> QED  BY <1>4, <2>1, <2>2
<1> QED  BY <1>1, <1>2, <1>3, <1>4, WhoWrites

\* No statement takes longer than MaxLoad.
LEMMA PastTimesStay ==
  ASSUME Shape, Shape', PastTimes, [Next]_vars
  PROVE  PastTimes'
<1> SUFFICES ASSUME NEW l \in Logins
             PROVE  /\ cache'[l].ts # Never => cache'[l].ts <= now'
                    /\ cache'[l].by # "" => cache'[l].at <= now' /\ now' <= cache'[l].at + MaxLoad
  BY DEF PastTimes
<1>1. TablesFit /\ RequestsFit  BY DEF Shape
<1>2. now \in Nat /\ cache[l].ts \in Nat /\ cache[l].at \in Nat  BY <1>1, Times
<1>3. /\ cache[l].ts # Never => cache[l].ts <= now
      /\ cache[l].by # "" => cache[l].at <= now /\ now <= cache[l].at + MaxLoad
  BY DEF PastTimes
<1>4. now' = now \/ (now' = now + 1 /\ cache' = cache /\ (cache[l].by # "" => now < cache[l].at + MaxLoad))
  BY <1>1, WhoWrites DEF TimePasses
<1>5. MaxLoad \in Nat  BY Constants
<1>6. CASE cache'[l] = cache[l]
  <2> DEFINE e == cache[l].by # ""
  <2>1. cache'[l].by # "" <=> e  BY <1>6
  <2>2. cache[l].ts = cache'[l].ts /\ cache[l].at = cache'[l].at  BY <1>6
  <2>3. e => cache[l].at <= now /\ now <= cache[l].at + MaxLoad  BY <1>3
  <2>4. now' = now \/ (now' = now + 1 /\ (e => now < cache[l].at + MaxLoad))  BY <1>4
  <2> HIDE DEF e
  <2>5. e => cache[l].at <= now' /\ now' <= cache[l].at + MaxLoad  BY <1>2, <1>5, <2>3, <2>4
  <2>6. ASSUME cache[l].ts # Never PROVE cache[l].ts <= now'
    <3>1. cache[l].ts <= now  BY <1>3, <2>6
    <3>2. now' = now \/ now' = now + 1  BY <2>4
    <3> QED  BY <1>2, <3>1, <3>2
  <2> QED  BY <2>1, <2>2, <2>5, <2>6
<1>7. CASE cache'[l].ts = Never /\ cache'[l].by = ""  BY <1>7
<1>8. CASE cache'[l].ts = cache[l].ts /\ cache'[l].at = now /\ now' = now
  <2>1. now <= now /\ now <= now + MaxLoad  BY <1>2, <1>5
  <2> QED  BY <1>3, <1>8, <2>1
<1>9. CASE cache'[l].ts = now /\ cache'[l].by = "" /\ now' = now
  <2>1. now <= now  BY <1>2
  <2> QED  BY <1>9, <2>1
<1> QED  BY <1>1, <1>6, <1>7, <1>8, <1>9, EntryMoves

\* A version ends when the next one is written.
LEMMA NotEndedStays ==
  ASSUME TablesFit, RequestsFit, NotEndedYet, [Next]_vars
  PROVE  NotEndedYet'
<1> SUFFICES ASSUME NEW l \in Logins, NEW v \in 0..MaxVer, v >= devices'[l].ver PROVE ended'[l][v] = Never
  BY DEF NotEndedYet
<1>1. devices'[l].ver >= devices[l].ver /\ (ended'[l][v] = ended[l][v] \/ devices'[l].ver = v + 1)  BY Endings
<1>2. devices[l].ver \in Nat  BY Versions
<1>3. v \in Nat  BY Constants
<1>4. devices'[l].ver \in Nat  BY <1>2, Endings
<1>5. v >= devices[l].ver  BY <1>1, <1>2, <1>3, <1>4
<1>6. devices'[l].ver # v + 1  BY <1>3, <1>4
<1> QED  BY <1>1, <1>5, <1>6 DEF NotEndedYet

\* An end that is now is not too early.
LEMMA NoEarlier ==
  ASSUME NEW e \in Nat, NEW f \in Nat, NEW t \in Nat, NEW n \in Nat, NEW k \in Nat, f = e \/ f = n, t <= n
  PROVE  (e >= t => f >= t) /\ (e + k >= t => f + k >= t)
OBVIOUS

\* What had not ended when it was read ended no earlier than a load ago.
LEMMA Slowest ==
  ASSUME NEW e \in Nat, NEW t \in Nat, NEW n \in Nat, NEW k \in Nat, e >= t, n <= t + k
  PROVE  e + k >= n
OBVIOUS

\* What the cache has was the row when its load began.
LEMMA ReadInTimeStays ==
  ASSUME Shape, Shape', PastTimes, NotEndedYet, ReadInTime, [Next]_vars
  PROVE  ReadInTime'
<1> SUFFICES ASSUME NEW l \in Logins
             PROVE  /\ cache'[l].ts # Never /\ cache'[l].value # Empty =>
                         ended'[l][cache'[l].value.ver] + MaxLoad >= cache'[l].ts
                    /\ cache'[l].by # "" /\ cache'[l].coming # Empty => ended'[l][cache'[l].coming.ver] >= cache'[l].at
  BY DEF ReadInTime
<1>1. TablesFit /\ RequestsFit  BY DEF Shape
<1>2. /\ now \in Nat /\ now <= MaxTime /\ cache[l].ts \in Nat /\ cache[l].at \in Nat
      /\ (\A v \in 0..MaxVer : ended[l][v] \in Nat)
  BY <1>1, Times
<1>n. now \in Nat /\ cache[l].ts \in Nat /\ cache[l].at \in Nat /\ MaxLoad \in Nat  BY <1>2, Constants
<1>3. MaxLoad \in Nat /\ MaxTime \in Nat /\ Never > MaxTime /\ Never \in Nat  BY Constants DEF Never
<1>4. /\ cache[l].ts # Never => cache[l].ts <= now
      /\ cache[l].by # "" => cache[l].at <= now /\ now <= cache[l].at + MaxLoad
  BY DEF PastTimes
<1>5. \A v \in 0..MaxVer : ended'[l][v] = ended[l][v] \/ ended'[l][v] = now  BY <1>1, Endings
<1>6. cache[l].value \in Rows /\ cache[l].coming \in Rows  BY <1>1 DEF TablesFit, Entries
<1>7. /\ cache[l].ts # Never /\ cache[l].value # Empty => ended[l][cache[l].value.ver] + MaxLoad >= cache[l].ts
      /\ cache[l].by # "" /\ cache[l].coming # Empty => ended[l][cache[l].coming.ver] >= cache[l].at
  BY DEF ReadInTime
<1>8. /\ cache[l].ts # Never /\ cache[l].value # Empty => ended'[l][cache[l].value.ver] + MaxLoad >= cache[l].ts
      /\ cache[l].by # "" /\ cache[l].coming # Empty => ended'[l][cache[l].coming.ver] >= cache[l].at
  <2>1. ASSUME cache[l].ts # Never, cache[l].value # Empty PROVE ended'[l][cache[l].value.ver] + MaxLoad >= cache[l].ts
    <3> DEFINE v == cache[l].value.ver
    <3>1. v \in 0..MaxVer  BY <1>6, <2>1, RowVersions
    <3>2. ended[l][v] \in Nat /\ (ended'[l][v] = ended[l][v] \/ ended'[l][v] = now)  BY <1>2, <1>5, <3>1
    <3>3. ended[l][v] + MaxLoad >= cache[l].ts /\ cache[l].ts <= now  BY <1>4, <1>7, <2>1
    <3>4. ended'[l][v] \in Nat  BY <1>n, <3>2
    <3> QED  BY <1>n, <3>2, <3>3, <3>4, NoEarlier
  <2>2. ASSUME cache[l].by # "", cache[l].coming # Empty PROVE ended'[l][cache[l].coming.ver] >= cache[l].at
    <3> DEFINE v == cache[l].coming.ver
    <3>1. v \in 0..MaxVer  BY <1>6, <2>2, RowVersions
    <3>2. ended[l][v] \in Nat /\ (ended'[l][v] = ended[l][v] \/ ended'[l][v] = now)  BY <1>2, <1>5, <3>1
    <3>3. ended[l][v] >= cache[l].at /\ cache[l].at <= now  BY <1>4, <1>7, <2>2
    <3>4. ended'[l][v] \in Nat  BY <1>n, <3>2
    <3> QED  BY <1>n, <3>2, <3>3, <3>4, NoEarlier
  <2> QED  BY <2>1, <2>2
<1>9. CASE cache'[l] = cache[l]  BY <1>8, <1>9
<1>10. CASE cache'[l].ts = Never /\ cache'[l].by = ""  BY <1>10
<1>11. CASE /\ cache'[l].ts = cache[l].ts /\ cache'[l].value = cache[l].value /\ cache'[l].at = now
            /\ cache'[l].coming \in {Empty, devices[l]} /\ ended' = ended
  <2>1. cache'[l].coming # Empty => ended'[l][cache'[l].coming.ver] = Never
    <3>1. devices[l].ver \in 0..MaxVer  BY <1>1, Versions, Constants
    <3>2. devices[l].ver >= devices[l].ver  BY <3>1
    <3>3. ended[l][devices[l].ver] = Never  BY <3>1, <3>2 DEF NotEndedYet
    <3> QED  BY <1>11, <3>3
  <2>2. Never >= now  BY <1>2, <1>3
  <2> QED  BY <1>8, <1>11, <2>1, <2>2
<1>12. CASE /\ cache'[l].ts = now /\ cache'[l].value = cache[l].coming /\ cache[l].by # "" /\ cache'[l].by = ""
            /\ ended' = ended
  <2>1. ASSUME cache[l].coming # Empty PROVE ended[l][cache[l].coming.ver] + MaxLoad >= now
    <3> DEFINE v == cache[l].coming.ver
    <3>1. v \in 0..MaxVer  BY <1>6, <2>1, RowVersions
    <3>2. ended[l][v] \in Nat /\ ended[l][v] >= cache[l].at  BY <1>2, <1>7, <1>12, <2>1, <3>1
    <3>3. now <= cache[l].at + MaxLoad  BY <1>4, <1>12
    <3> QED  BY <1>n, <3>2, <3>3, Slowest
  <2> QED  BY <1>12, <2>1
<1> QED  BY <1>1, <1>9, <1>10, <1>11, <1>12, EntryMoves

\* The rows a request was shown.
LEMMA SawFacts ==
  ASSUME RequestsFit, NEW p \in Requests
  PROVE  /\ DOMAIN req[p].saw = {"valid", "get", "auth"}
         /\ \A s \in {"valid", "get", "auth"} : req[p].saw[s].dev \in Rows /\ req[p].saw[s].at \in 0..Never
         /\ \A s \in {"valid", "get", "auth"} : req[p].saw[s].at # Never => req[p].login \in Logins
<1>1. CASE req[p] = Idle
  <2>1. req[p].saw = Nothing  BY <1>1, IdleFields
  <2>2. Nothing \in Views /\ \A s \in {"valid", "get", "auth"} : Nothing[s].at = Never  BY NoViews DEF Nothing
  <2> QED  BY <2>1, <2>2 DEF Views
<1>2. CASE req[p] \in Request  BY <1>2 DEF Request, Views
<1> QED  BY <1>1, <1>2 DEF RequestsFit

\* A request is shown one row in a step, or none.
LEMMA ViewsMove ==
  ASSUME TablesFit, RequestsFit, [Next]_vars, NEW q \in Requests, NEW s \in {"valid", "get", "auth"}
  PROVE  \/ req'[q].saw[s] = req[q].saw[s] /\ req'[q].login = req[q].login /\ req'[q].op = req[q].op
         \/ req'[q].saw[s] = [dev |-> NoDevice, at |-> Never]
         \/ /\ Sees(q) /\ req'[q].saw[s] = [dev |-> Given(q), at |-> now] /\ req'[q].login = req[q].login
            /\ req'[q].op = req[q].op /\ s = Kind(Step(q)) /\ req[q].login \in Logins
<1>1. Becomes(q)  BY RequestMoves
<1>2. Nothing[s] = [dev |-> NoDevice, at |-> Never]  BY DEF Nothing
<1>3. CASE Keeps(q)
  <2>1. CASE Step(q) = "save"
    <3>1. req[q] \in Request  BY <2>1, StepFacts
    <3>2. /\ [req[q] EXCEPT !.raced = TRUE].saw = req[q].saw /\ [req[q] EXCEPT !.raced = TRUE].login = req[q].login
          /\ [req[q] EXCEPT !.raced = TRUE].op = req[q].op
      BY <3>1 DEF Request
    <3> QED  BY <1>3, <3>2 DEF Keeps
  <2> QED  BY <1>3, <2>1 DEF Keeps
<1>4. CASE Rests(q)  BY <1>2, <1>4, IdleFields DEF Rests
<1>5. CASE Starts(q)  BY <1>2, <1>5 DEF Starts
<1>6. CASE Proceeds(q)  BY <1>6 DEF Proceeds, Onward
<1>7. CASE Sees(q)
  <2>1. req'[q].saw = [req[q].saw EXCEPT ![Kind(Step(q))] = [dev |-> Given(q), at |-> now]]  BY <1>7 DEF Sees
  <2>2. DOMAIN req[q].saw = {"valid", "get", "auth"}  BY SawFacts
  <2>3. req'[q].login = req[q].login /\ req'[q].op = req[q].op /\ req[q].login \in Logins  BY <1>7 DEF Sees, Onward, Request
  <2>4. CASE s = Kind(Step(q))  BY <1>7, <2>1, <2>2, <2>3, <2>4
  <2>5. CASE s # Kind(Step(q))  BY <2>1, <2>2, <2>3, <2>5
  <2> QED  BY <2>4, <2>5
<1> QED  BY <1>1, <1>3, <1>4, <1>5, <1>6, <1>7 DEF Becomes

\* Rows were shown in the past.
LEMMA PastViewsStay ==
  ASSUME Shape, Shape', PastViews, [Next]_vars
  PROVE  PastViews'
<1>0. TablesFit /\ RequestsFit /\ RequestsFit'  BY DEF Shape
<1> SUFFICES ASSUME NEW q \in Requests, NEW s \in {"valid", "get", "auth"} PROVE req'[q].saw[s].at \in 0..now' \cup {Never}
  <2>1. ASSUME NEW q \in Requests PROVE (DOMAIN req[q].saw)' = {"valid", "get", "auth"}
    <3>1. (DOMAIN Nothing)' = {"valid", "get", "auth"}  BY NoViews
    <3>2. req'[q] \in Request \/ req'[q] = Idle  BY <1>0 DEF RequestsFit
    <3> QED  BY <3>2, NoViews, IdleFields DEF Request, Views
  <2> QED  BY <2>1 DEF PastViews
<1>1. now \in Nat /\ (now' = now \/ now' = now + 1)
  <2>1. now \in 0..MaxTime  BY <1>0 DEF TablesFit
  <2>2. now' = now \/ now' = now + 1  BY <1>0, WhoWrites DEF TimePasses
  <2>3. now \in Nat  BY <2>1, Constants
  <2> QED  BY <2>2, <2>3
<1>2. 0..now \subseteq 0..now' /\ now \in 0..now'  BY <1>1
<1>3. CASE req'[q].saw[s] = req[q].saw[s]
  <2>1. s \in DOMAIN req[q].saw  BY <1>0, SawFacts
  <2>2. req[q].saw[s].at \in 0..now \cup {Never}  BY <2>1 DEF PastViews
  <2> QED  BY <1>2, <1>3, <2>2
<1>4. CASE req'[q].saw[s] = [dev |-> NoDevice, at |-> Never]  BY <1>4
<1>5. CASE req'[q].saw[s] = [dev |-> Given(q), at |-> now]  BY <1>2, <1>5
<1> QED  BY <1>0, <1>3, <1>4, <1>5, ViewsMove

\* What a request is shown was still a row of the device not too long ago.
LEMMA GivenInTime ==
  ASSUME Shape, PastTimes, ReadInTime, NEW p \in Requests, Sees(p), Given(p) # Empty
  PROVE  Given(p) \in Rows /\ ended[req[p].login][Given(p).ver] + TTL + MaxLoad >= now
<1> DEFINE l == req[p].login
           e == ended[l][Given(p).ver]
<1>0. TablesFit /\ RequestsFit  BY DEF Shape
<1>1. l \in Logins  BY DEF Sees, Onward, Request
<1>2. now \in Nat /\ cache[l].ts \in Nat /\ cache[l].at \in Nat  BY <1>0, <1>1, Times
<1>3. TTL \in Nat /\ MaxLoad \in Nat  BY Constants
<1>4. Given(p) \in Rows  BY <1>0, <1>1 DEF TablesFit, Entries, Given, Entry
<1>5. e \in Nat
  <2>1. Given(p).ver \in 0..MaxVer  BY <1>4, RowVersions
  <2> QED  BY <1>0, <1>1, <2>1, Times
<1>6. CASE cache[l].by = ""
  <2>a. "" \notin Requests  BY AccountsAssumption DEF AccountsAssumption
  <2>1. ~Stale(p) /\ Given(p) = cache[l].value  BY <1>6, <2>a DEF Sees, Entry, Given
  <2>2. cache[l].ts # Never /\ ~(now > cache[l].ts + TTL)  BY <2>1 DEF Stale, Entry
  <2>3. e + MaxLoad >= cache[l].ts  BY <1>1, <2>1, <2>2 DEF ReadInTime
  <2>4. e + TTL + MaxLoad >= now  BY <1>2, <1>3, <1>5, <2>2, <2>3
  <2> QED  BY <1>4, <2>4
<1>7. CASE cache[l].by # ""
  <2>1. Given(p) = cache[l].coming  BY <1>7 DEF Given, Entry
  <2>2. e >= cache[l].at  BY <1>1, <1>7, <2>1 DEF ReadInTime
  <2>3. now <= cache[l].at + MaxLoad  BY <1>1, <1>7 DEF PastTimes
  <2>4. e + TTL + MaxLoad >= now  BY <1>2, <1>3, <1>5, <2>2, <2>3
  <2> QED  BY <1>4, <2>4
<1> QED  BY <1>6, <1>7

\* Rows shown are no older than that.
LEMMA StaleStays ==
  ASSUME Shape, Shape', Ages, [Next]_vars
  PROVE  StaleAtMost'
<1>0. TablesFit /\ RequestsFit /\ RequestsFit' /\ PastTimes /\ PastViews /\ NotEndedYet /\ ReadInTime /\ StaleAtMost
  BY DEF Shape, Ages
<1> SUFFICES ASSUME NEW q \in Requests, NEW s \in DOMAIN req'[q].saw,
                    req'[q].saw[s].at # Never, req'[q].saw[s].dev # Empty
             PROVE  ended'[req'[q].login][req'[q].saw[s].dev.ver] + TTL + MaxLoad >= req'[q].saw[s].at
  BY DEF StaleAtMost
<1>s. s \in {"valid", "get", "auth"}
  <2>1. req'[q] \in Request \/ req'[q] = Idle  BY <1>0 DEF RequestsFit
  <2> QED  BY <2>1, NoViews, IdleFields DEF Request, Views
<1> DEFINE l == req[q].login
           w == req'[q].saw[s]
           v == w.dev.ver
<1>1. TTL \in Nat /\ MaxLoad \in Nat /\ TTL + MaxLoad \in Nat  BY Constants
<1>2. /\ req'[q].login = l /\ l \in Logins /\ w.dev \in Rows /\ w.at \in Nat /\ w.at <= now
      /\ ended[l][v] + TTL + MaxLoad >= w.at
  <2>1. CASE w = req[q].saw[s] /\ req'[q].login = l
    <3>1. s \in DOMAIN req[q].saw /\ l \in Logins /\ w.dev \in Rows  BY <1>0, <1>s, <2>1, SawFacts
    <3>2. ended[l][v] + TTL + MaxLoad >= w.at  BY <1>0, <2>1, <3>1 DEF StaleAtMost
    <3>3. w.at \in 0..now  BY <1>0, <2>1, <3>1 DEF PastViews
    <3>4. now \in Nat  BY <1>0, <3>1, Times
    <3>5. w.at \in Nat /\ w.at <= now  BY <3>3, <3>4
    <3> QED  BY <2>1, <3>1, <3>2, <3>5
  <2>2. CASE w = [dev |-> NoDevice, at |-> Never]  BY <2>2
  <2>3. CASE Sees(q) /\ w = [dev |-> Given(q), at |-> now] /\ req'[q].login = l /\ l \in Logins
    <3>1. w.dev = Given(q) /\ w.at = now  BY <2>3
    <3>2. Given(q) \in Rows /\ ended[l][Given(q).ver] + TTL + MaxLoad >= now  BY <1>0, <2>3, <3>1, GivenInTime
    <3>3. now \in Nat /\ now <= now  BY <1>0, <2>3, Times
    <3> QED  BY <2>3, <3>1, <3>2, <3>3
  <2> QED  BY <1>0, <1>s, <2>1, <2>2, <2>3, ViewsMove
<1>3. v \in 0..MaxVer  BY <1>2, RowVersions
<1>4. ended[l][v] \in Nat /\ now \in Nat  BY <1>0, <1>2, <1>3, Times
<1>5. ended'[l][v] = ended[l][v] \/ ended'[l][v] = now  BY <1>0, <1>2, <1>3, Endings
<1>6. ended'[l][v] \in Nat  BY <1>4, <1>5
<1>7. ended'[l][v] + TTL + MaxLoad >= w.at
  <2> DEFINE a == w.at
             e == ended[l][v]
             f == ended'[l][v]
  <2>1. a \in Nat /\ a <= now /\ e + TTL + MaxLoad >= a  BY <1>2
  <2>2. e \in Nat /\ f \in Nat /\ now \in Nat /\ (f = e \/ f = now)  BY <1>4, <1>5, <1>6
  <2> HIDE DEF a, e, f
  <2>3. f + TTL + MaxLoad >= a  BY <1>1, <2>1, <2>2
  <2> QED  BY <2>3 DEF a, f
<1> QED  BY <1>2, <1>7

\* The second part is inductive, given the first.
LEMMA AgesStay ==
  ASSUME Shape, Shape', Ages, [Next]_vars
  PROVE  Ages'
<1>1. TablesFit /\ RequestsFit /\ PastTimes /\ PastViews /\ NotEndedYet /\ ReadInTime  BY DEF Shape, Ages
<1> QED  BY <1>1, PastTimesStay, PastViewsStay, NotEndedStays, ReadInTimeStays, StaleStays DEF Ages
-----------------------------------------------------------------------------
(* Who is let in. *)

\* Empty and NoDevice are not devices.
LEMMA Kinds ==
  /\ Empty # NoDevice /\ Empty.disabled = FALSE /\ Empty.admin = FALSE /\ Empty.pw = ""
  /\ NoDevice.ver = 0 /\ NoDevice.disabled = FALSE
  /\ \A d \in Rows \ {NoDevice, Empty} : d \in Device /\ d.ver \in Nat /\ d.ver > 0
<1>1. Empty.ver = MaxVer + 1 /\ Empty.disabled = FALSE /\ Empty.admin = FALSE /\ Empty.pw = ""  BY DEF Empty
<1>2. NoDevice.ver = 0 /\ NoDevice.disabled = FALSE  BY DEF NoDevice
<1>3. MaxVer + 1 # 0  BY Constants
<1>4. Empty # NoDevice  BY <1>1, <1>2, <1>3
<1>5. \A d \in Device : d.ver \in 1..MaxVer  BY DEF Device
<1>6. \A n \in 1..MaxVer : n \in Nat /\ n > 0  BY Constants
<1> QED  BY <1>1, <1>2, <1>4, <1>5, <1>6 DEF Rows

\* The rows that may be shown are those of before, none, and the next version
\* of the device.
LEMMA AheadMoves ==
  ASSUME TablesFit, RequestsFit, NotEndedYet, [Next]_vars, NEW l \in Logins, NEW d \in Ahead(l)'
  PROVE  d \in Ahead(l) \/ d = Empty \/ (d = devices'[l] /\ d.ver = devices[l].ver + 1 /\ d # NoDevice)
<1>1. d = devices'[l] \/ (d = cache'[l].value /\ cache'[l].ts # Never) \/ (d = cache'[l].coming /\ cache'[l].by # "")
  BY DEF Ahead
<1>2. devices[l] \in Ahead(l)  BY DEF Ahead
<1>3. CASE d = devices'[l]
  <2>1. CASE devices'[l] # devices[l]
    <3>1. d.ver = devices[l].ver + 1  BY <1>3, <2>1, Endings
    <3>2. devices[l].ver \in Nat  BY Versions
    <3>3. d.ver # 0  BY <3>1, <3>2
    <3>4. d # NoDevice  BY <3>3, Kinds
    <3> QED  BY <1>3, <3>1, <3>4
  <2> QED  BY <1>2, <1>3, <2>1
<1>4. CASE d # devices'[l]
  <2>1. CASE cache'[l] = cache[l]  BY <1>1, <1>4, <2>1 DEF Ahead
  <2>2. CASE cache'[l].ts = Never /\ cache'[l].by = ""  BY <1>1, <1>4, <2>2
  <2>3. CASE cache'[l].ts = cache[l].ts /\ cache'[l].value = cache[l].value /\ cache'[l].coming \in {Empty, devices[l]}
    <3>1. cache[l].ts # Never => cache[l].value \in Ahead(l)  BY DEF Ahead
    <3> QED  BY <1>1, <1>2, <1>4, <2>3, <3>1
  <2>4. CASE cache'[l].value = cache[l].coming /\ cache[l].by # "" /\ cache'[l].by = ""
    <3>1. cache[l].coming \in Ahead(l)  BY <2>4 DEF Ahead
    <3> QED  BY <1>1, <1>4, <2>4, <3>1
  <2> QED  BY <2>1, <2>2, <2>3, <2>4, EntryMoves
<1> QED  BY <1>3, <1>4

\* Rows that may be shown are rows.
LEMMA AheadFacts ==
  ASSUME TablesFit, NEW l \in Logins
  PROVE  devices[l] \in Ahead(l) /\ Ahead(l) \subseteq Rows
<1>1. devices[l] \in Rows /\ cache[l].value \in Rows /\ cache[l].coming \in Rows  BY DEF TablesFit, Entries, Rows
<1> QED  BY <1>1 DEF Ahead

\* What is shown was to be shown.
LEMMA GivenIsAhead ==
  ASSUME TablesFit, RequestsFit, NEW p \in Requests, Sees(p)
  PROVE  req[p].login \in Logins /\ Given(p) \in Ahead(req[p].login) /\ Given(p) \in Rows
<1>1. req[p].login \in Logins  BY DEF Sees, Onward, Request
<1>2. "" \notin Requests  BY AccountsAssumption DEF AccountsAssumption
<1>3. CASE Entry(p).by = ""
  <2>1. Given(p) = Entry(p).value /\ Entry(p).ts # Never  BY <1>2, <1>3 DEF Sees, Given, Stale
  <2> QED  BY <1>1, <2>1, AheadFacts DEF Ahead, Entry
<1>4. CASE Entry(p).by # ""
  <2>1. Given(p) = Entry(p).coming  BY <1>4 DEF Given
  <2> QED  BY <1>1, <1>4, <2>1, AheadFacts DEF Ahead, Entry
<1> QED  BY <1>3, <1>4

\* A newer row follows whatever the older one did.
LEMMA Later ==
  ASSUME TablesFit, TablesFit', RequestsFit, NotEndedYet, [Next]_vars, NEW l \in Logins, NEW d \in Rows \ {Empty}
  PROVE  Follows(devices[l], d) => Follows(devices'[l], d)
<1>1. devices[l].ver \in Nat /\ d.ver \in Nat
  <2>1. d.ver \in 0..MaxVer  BY RowVersions
  <2> QED  BY <2>1, Versions, Constants
<1>2. devices'[l] # devices[l] => devices'[l].ver = devices[l].ver + 1  BY Endings
<1>3. devices[l].ver + 1 > devices[l].ver /\ (devices[l].ver > d.ver => devices[l].ver + 1 > d.ver)  BY <1>1
<1> QED  BY <1>2, <1>3 DEF Follows

\* The device is never behind the cache.
LEMMA OrderStays ==
  ASSUME Shape, Shape', NotEndedYet, RowsInOrder, [Next]_vars
  PROVE  RowsInOrder'
<1>0. TablesFit /\ TablesFit' /\ RequestsFit  BY DEF Shape
<1> SUFFICES ASSUME NEW l \in Logins, NEW d \in Ahead(l)', d # Empty PROVE Follows(devices'[l], d)
  BY DEF RowsInOrder, Follows
<1>1. CASE d \in Ahead(l)
  <2>1. Follows(devices[l], d) /\ d \in Rows  BY <1>0, <1>1, AheadFacts DEF RowsInOrder
  <2> QED  BY <1>0, <2>1, Later
<1>2. CASE d = devices'[l]  BY <1>2 DEF Follows
<1> QED  BY <1>0, <1>1, <1>2, AheadMoves

\* Who passes has been shown a device.
LEMMA GoodViews ==
  ASSUME RequestsFit, NEW p \in Requests, Sees(p)
  PROVE  /\ Kind(Step(p)) = "valid" => ~Given(p).disabled /\ Given(p) # NoDevice
         /\ Kind(Step(p)) = "auth" => Given(p) # Empty
         /\ Step(p) = "auth" => Given(p) # NoDevice
<1>1. Step(p) \in {"valid", "get", "auth", "login", "token"} /\ Passes(p, Given(p))  BY DEF Sees, Loads
<1>2. Kind(Step(p)) = "valid" => Step(p) = "valid"  BY <1>1 DEF Kind
<1>3. Step(p) = "valid" => ~Given(p).disabled /\ Given(p) # NoDevice  BY <1>1 DEF Passes, IsGood
<1>4. Step(p) = "auth" => Given(p) # NoDevice /\ Given(p).pw = req[p].pw  BY <1>1 DEF Passes, IsGood, CheckPassword
<1>5. Step(p) \in {"login", "token"} => Given(p).admin  BY <1>1 DEF Passes
<1>6. Step(p) = "auth" => req[p].pw \in Passwords
  <2>1. Step(p) = "auth" => req[p] \in Request /\ req[p].op = "sign"  BY StepFacts
  <2> QED  BY <2>1 DEF Request
<1>7. "" \notin Passwords  BY AccountsAssumption DEF AccountsAssumption
<1>8. Kind(Step(p)) = "auth" => Step(p) \in {"auth", "login", "token"}  BY <1>1 DEF Kind
<1>9. ASSUME Kind(Step(p)) = "auth" PROVE Given(p) # Empty
  <2>1. CASE Step(p) = "auth"  BY <1>4, <1>6, <1>7, <2>1, Kinds
  <2>2. CASE Step(p) \in {"login", "token"}  BY <1>5, <2>2, Kinds
  <2> QED  BY <1>8, <1>9, <2>1, <2>2
<1> QED  BY <1>2, <1>3, <1>4, <1>9

\* Only good rows and no failed statements are kept as valid and as authorised.
LEMMA ViewsStayGood ==
  ASSUME Shape, ValidWereGood, FailureIsNoPassword, [Next]_vars
  PROVE  ValidWereGood' /\ FailureIsNoPassword'
<1>0. TablesFit /\ RequestsFit  BY DEF Shape
<1>1. ASSUME NEW q \in Requests PROVE ~req'[q].saw["valid"].dev.disabled
  <2>1. ~req[q].saw["valid"].dev.disabled  BY DEF ValidWereGood
  <2>2. CASE req'[q].saw["valid"] = req[q].saw["valid"]  BY <2>1, <2>2
  <2>3. CASE req'[q].saw["valid"] = [dev |-> NoDevice, at |-> Never]
    <3>1. req'[q].saw["valid"].dev = NoDevice  BY <2>3
    <3> QED  BY <3>1, Kinds
  <2>4. CASE Sees(q) /\ req'[q].saw["valid"] = [dev |-> Given(q), at |-> now] /\ "valid" = Kind(Step(q))
    <3>1. ~Given(q).disabled  BY <1>0, <2>4, GoodViews
    <3> QED  BY <2>4, <3>1
  <2> QED  BY <1>0, <2>2, <2>3, <2>4, ViewsMove
<1>2. ASSUME NEW q \in Requests PROVE req'[q].saw["auth"].dev # Empty
  <2>1. req[q].saw["auth"].dev # Empty  BY DEF FailureIsNoPassword
  <2>2. CASE req'[q].saw["auth"] = req[q].saw["auth"]  BY <2>1, <2>2
  <2>3. CASE req'[q].saw["auth"] = [dev |-> NoDevice, at |-> Never]
    <3>1. req'[q].saw["auth"].dev = NoDevice  BY <2>3
    <3> QED  BY <3>1, Kinds
  <2>4. CASE Sees(q) /\ req'[q].saw["auth"] = [dev |-> Given(q), at |-> now] /\ "auth" = Kind(Step(q))
    <3>1. Given(q) # Empty  BY <1>0, <2>4, GoodViews
    <3> QED  BY <2>4, <3>1
  <2> QED  BY <1>0, <2>2, <2>3, <2>4, ViewsMove
<1> QED  BY <1>1, <1>2 DEF ValidWereGood, FailureIsNoPassword

\* A valid connection sees no older row.
LEMMA NoStepBackStays ==
  ASSUME Shape, Shape', NotEndedYet, RowsInOrder, NoStepBack, [Next]_vars
  PROVE  NoStepBack'
<1>0. TablesFit /\ TablesFit' /\ RequestsFit /\ RequestsFit'  BY DEF Shape
<1> SUFFICES ASSUME NEW q \in Requests, req'[q].op = "connect", req'[q].saw["valid"].dev \notin {NoDevice, Empty},
                    NEW d \in Ahead(req[q].login)', d # Empty
             PROVE  Follows(d, req'[q].saw["valid"].dev)
  BY DEF NoStepBack, Follows
<1> DEFINE v == req'[q].saw["valid"].dev
<1>1. CASE req'[q].saw["valid"] = req[q].saw["valid"] /\ req'[q].login = req[q].login /\ req'[q].op = req[q].op
  <2>1. v = req[q].saw["valid"].dev /\ v \notin {NoDevice, Empty} /\ req[q].op = "connect"  BY <1>1
  <2>2. PICK l \in Logins : l = req[q].login
    <3>1. req[q] # Idle  BY <2>1, IdleFields
    <3>2. req[q] \in Request  BY <1>0, <3>1, UnderWay
    <3> QED  BY <3>2 DEF Request
  <2>3. \A e \in Ahead(l) \ {Empty} : Follows(e, v)  BY <2>1, <2>2 DEF NoStepBack
  <2>4. v \in Rows /\ v # Empty  BY <1>0, <2>1, SawFacts
  <2>5. devices[l] \in Ahead(l) /\ devices[l] # Empty
    <3>1. devices[l] \in Device \cup {NoDevice}  BY <1>0, <2>2 DEF TablesFit
    <3>2. Empty \notin Device
      <4>1. Empty.pw = ""  BY Kinds
      <4>2. "" \notin Passwords  BY AccountsAssumption DEF AccountsAssumption
      <4> QED  BY <4>1, <4>2 DEF Device
    <3> QED  BY <1>0, <2>2, <3>1, <3>2, AheadFacts, Kinds
  <2>6. d \in Ahead(l)'
    <3>1. req'[q].login = l  BY <1>1, <2>2
    <3> QED  BY <3>1 DEF Ahead
  <2>7. CASE d \in Ahead(l)  BY <2>3, <2>7
  <2>8. CASE d = devices'[l]
    <3>1. Follows(devices[l], v)  BY <2>3, <2>5
    <3>2. v \in Rows \ {Empty}  BY <2>4
    <3>3. Follows(devices'[l], v)
      <4> HIDE DEF v
      <4> QED  BY <1>0, <3>1, <3>2, Later
    <3> QED  BY <2>8, <3>3
  <2> QED  BY <1>0, <2>6, <2>7, <2>8, AheadMoves
<1>2. CASE req'[q].saw["valid"] = [dev |-> NoDevice, at |-> Never]  BY <1>2
<1>3. CASE Sees(q) /\ req'[q].saw["valid"] = [dev |-> Given(q), at |-> now] /\ req'[q].login = req[q].login
  <2>1. v = Given(q) /\ v # Empty  BY <1>3
  <2>2. PICK l \in Logins : l = req[q].login  BY <1>0, <1>3, GivenIsAhead
  <2>3. Given(q) \in Ahead(l)  BY <1>0, <1>3, <2>2, GivenIsAhead
  <2>4. Follows(devices[l], v)  BY <2>1, <2>3 DEF RowsInOrder
  <2>5. d \in Ahead(l)'
    <3>1. req'[q].login = l  BY <1>3, <2>2
    <3> QED  BY <3>1 DEF Ahead
  <2>6. d = devices[l] \/ d = Given(q)  BY <1>3, <2>2, <2>5 DEF Sees
  <2> QED  BY <2>1, <2>4, <2>6 DEF Follows
<1> QED  BY <1>0, <1>1, <1>2, <1>3, ViewsMove

\* A row that follows another is not the one of before the first.
LEMMA OwnersStay ==
  ASSUME Shape, Shape', NotEndedYet, RowsInOrder, OwnersAreKnown, [Next]_vars
  PROVE  OwnersAreKnown'
<1>0. TablesFit /\ TablesFit' /\ RequestsFit /\ RequestsFit'  BY DEF Shape
<1> SUFFICES ASSUME NEW l \in Logins, Owned(l)' PROVE NoDevice \notin Ahead(l)'
  BY DEF OwnersAreKnown
<1>1. CASE Owned(l)
  <2>1. NoDevice \notin Ahead(l)  BY <1>1 DEF OwnersAreKnown
  <2> QED  BY <1>0, <2>1, AheadMoves, Kinds
<1>2. ASSUME NEW s \in Serials, issued'[s].login = l, ~Owned(l) PROVE FALSE
  <2>1. issued'[s] # issued[s]  BY <1>2 DEF Owned
  <2>2. PICK p \in Requests : Enter(p)  BY <1>0, <2>1, WhoWrites
  <2>3. PICK r \in Serials : issued' = [issued EXCEPT ![r] = [login |-> req[p].login, uid |-> req[p].uid]]
    BY <2>2 DEF Enter
  <2>4. issued'[s] = [login |-> req[p].login, uid |-> req[p].uid]  BY <1>0, <2>1, <2>3 DEF TablesFit
  <2>5. req[p].login = l /\ Step(p) = "enter"  BY <1>2, <2>2, <2>4 DEF Enter
  <2> QED  BY <1>2, <2>5 DEF Owned, Owner
<1>3. ASSUME NEW q \in Requests, Owner(q, l)', ~Owner(q, l), ~ \E s \in Serials : issued[s].login = l
      PROVE  NoDevice \notin Ahead(l)'
  <2>0. Becomes(q)  BY <1>0, RequestMoves
  <2>1. ~Keeps(q)
    <3>1. SUFFICES ASSUME Keeps(q) PROVE FALSE  OBVIOUS
    <3>2. CASE req'[q] = req[q]  BY <1>3, <3>2 DEF Owner, Step
    <3>3. CASE Step(q) = "save" /\ req'[q] = [req[q] EXCEPT !.raced = TRUE]
      <4>1. req[q] \in Request /\ req[q].op = "put"  BY <1>0, <3>3, StepFacts
      <4>2. req'[q].op = "put" /\ req'[q].todo = req[q].todo  BY <3>3, <4>1 DEF Request
      <4>3. Step(q)' = "save"  BY <3>3, <4>2 DEF Step
      <4> QED  BY <1>3, <4>2, <4>3 DEF Owner
    <3> QED  BY <3>1, <3>2, <3>3 DEF Keeps
  <2>2. ~Rests(q)
    <3>1. l # ""  BY AccountsAssumption DEF AccountsAssumption
    <3> QED  BY <1>3, <3>1, IdleFields DEF Rests, Owner
  <2>3. ~Starts(q)
    <3>1. SUFFICES ASSUME Starts(q) PROVE FALSE  OBVIOUS
    <3>2. req'[q].login = l  BY <1>3 DEF Owner
    <3>3. req'[q].op \in Programs /\ req'[q].todo = Program(req'[q].op)  BY <3>1 DEF Starts, Request
    <3>4. req'[q].op \notin {"connect", "api"}  BY <1>3, <3>1, <3>2 DEF Starts
    <3>5. req'[q].todo # <<>> /\ Step(q)' = Head(Program(req'[q].op))
      <4>1. req'[q].todo # <<>>  BY <3>3, Beginnings, Places
      <4> QED  BY <3>3, <4>1 DEF Step
    <3>6. Step(q)' \in {"valid", "auth", "login", "token"} /\ (req'[q].op = "sign" => Step(q)' = "auth")
      BY <3>3, <3>5, Beginnings
    <3> QED  BY <1>3, <3>4, <3>6 DEF Owner
  <2>4. ASSUME Onward(q) PROVE Step(q) = "auth"
    <3>1. /\ req[q].op \in Programs /\ req[q].todo \in Rest(req[q].op) /\ Len(req[q].todo) # 1
          /\ req'[q].op = req[q].op /\ req'[q].login = req[q].login /\ req'[q].todo = Tail(req[q].todo)
      BY <2>4 DEF Onward, Request
    <3>2. req[q].op \notin {"connect", "api"}  BY <1>3, <3>1 DEF Owner
    <3>7. Tail(req[q].todo) \in Rest(req[q].op)  BY <3>1, NextPlace
    <3>3. req[q].todo # <<>> /\ Tail(req[q].todo) # <<>>  BY <3>1, <3>7, Places
    <3>4. Step(q) = Head(req[q].todo) /\ Step(q)' = Head(Tail(req[q].todo))  BY <3>1, <3>3 DEF Step
    <3>5. req[q].login = l /\ (Step(q)' \in {"forget", "enter"} \/ (req[q].op = "sign" /\ Step(q)' = "valid"))
      BY <1>3, <3>1, <3>2 DEF Owner
    <3>6. ~(Step(q) \in {"forget", "enter"} \/ (req[q].op = "sign" /\ Step(q) = "valid"))  BY <1>3, <3>5 DEF Owner
    <3>8. req[q].op = "sign"  BY <3>1, <3>2, <3>4, <3>5, <3>7, Places DEF Programs
    <3> QED  BY <3>1, <3>4, <3>6, <3>8, Places
  <2>5. Sees(q) /\ Step(q) = "auth"
    <3>1. Onward(q) => Step(q) = "auth"  BY <2>4
    <3> QED  BY <2>0, <2>1, <2>2, <2>3, <3>1 DEF Becomes, Proceeds, Sees, Loads
  <2>6. req[q].login = l  BY <1>3, <2>5 DEF Sees, Onward, Owner
  <2>7. Given(q) # NoDevice /\ Given(q) # Empty /\ Given(q) \in Ahead(l) /\ Given(q) \in Rows
    <3>1. Kind(Step(q)) = "auth"  BY <2>5 DEF Kind
    <3> QED  BY <1>0, <2>5, <2>6, <3>1, GoodViews, GivenIsAhead
  <2>8. devices[l] # NoDevice
    <3>1. devices[l] = Given(q) \/ devices[l].ver > Given(q).ver  BY <2>7 DEF RowsInOrder, Follows
    <3>2. Given(q).ver \in Nat /\ Given(q).ver > 0  BY <2>7, Kinds
    <3>3. devices[l].ver > Given(q).ver => devices[l].ver # 0
      <4>1. devices[l].ver \in Nat  BY <1>0, Versions
      <4> QED  BY <3>2, <4>1
    <3> QED  BY <2>7, <3>1, <3>3, Kinds
  <2> QED  BY <2>5, <2>6, <2>7, <2>8 DEF Sees
<1>4. CASE ~Owned(l)
  <2>1. \E q \in Requests : Owner(q, l)'
    <3>1. (\E s \in Serials : issued'[s].login = l) \/ (\E q \in Requests : Owner(q, l)')  BY DEF Owned
    <3> QED  BY <1>2, <1>4, <3>1
  <2>2. (~ \E s \in Serials : issued[s].login = l) /\ \A q \in Requests : ~Owner(q, l)  BY <1>4 DEF Owned
  <2> QED  BY <1>3, <2>1, <2>2
<1> QED  BY <1>1, <1>4

\* Who is connected was let in rightly.
LEMMA AdmittedStay ==
  ASSUME Shape, Shape', Admissions, [Next]_vars
  PROVE  AdmittedWereGood'
<1>0. TablesFit /\ RequestsFit /\ OwnersAreKnown /\ ValidWereGood /\ NoStepBack /\ AdmittedWereGood
  BY DEF Shape, Admissions
<1> SUFFICES ASSUME NEW q \in Requests, Step(q)' = "connected"
             PROVE  LET valid == req'[q].saw["valid"].dev
                        dev == req'[q].saw["get"].dev
                    IN dev # NoDevice /\ (dev.disabled => valid = Empty \/ dev.ver > valid.ver)
  BY DEF AdmittedWereGood
<1> DEFINE v == req'[q].saw["valid"].dev
           d == req'[q].saw["get"].dev
<1>1. Becomes(q)  BY <1>0, RequestMoves
<1>2. req'[q].todo # <<>> /\ Head(req'[q].todo) = "connected"  BY DEF Step
<1>3. CASE Keeps(q)
  <2>1. CASE Step(q) = "save" /\ req'[q] = [req[q] EXCEPT !.raced = TRUE]
    <3>1. req[q] \in Request  BY <1>0, <2>1, StepFacts
    <3>2. req'[q].todo = req[q].todo  BY <2>1, <3>1 DEF Request
    <3>3. Step(q)' = Step(q)  BY <3>2 DEF Step
    <3> QED  BY <2>1, <3>3
  <2>2. CASE req'[q] = req[q]
    <3>1. Step(q) = "connected"  BY <2>2 DEF Step
    <3> QED  BY <1>0, <2>2, <3>1 DEF AdmittedWereGood
  <2> QED  BY <1>3, <2>1, <2>2 DEF Keeps
<1>4. ~Rests(q)  BY <1>2, IdleFields DEF Rests
<1>5. ~Starts(q)
  <2>1. SUFFICES ASSUME Starts(q) PROVE FALSE  OBVIOUS
  <2>2. req'[q].op \in Programs /\ req'[q].todo = Program(req'[q].op)  BY <2>1 DEF Starts, Request
  <2> QED  BY <1>2, <2>2, Beginnings
<1>6. ASSUME Onward(q) PROVE Step(q) = "get" /\ req[q].op = "connect" /\ req'[q].login = req[q].login
  <2>1. /\ req[q].op \in Programs /\ req[q].todo \in Rest(req[q].op) /\ Len(req[q].todo) # 1
        /\ req'[q].op = req[q].op /\ req'[q].login = req[q].login /\ req'[q].todo = Tail(req[q].todo)
    BY <1>6 DEF Onward, Request
  <2>2. Tail(req[q].todo) \in Rest(req[q].op)  BY <2>1, NextPlace
  <2>3. Head(req[q].todo) = "get"  BY <1>2, <2>1, NextPlace
  <2>4. Step(q) = "get"
    <3>1. req[q].todo # <<>>  BY <2>1, Places
    <3> QED  BY <2>3, <3>1 DEF Step
  <2>5. Head(Tail(req[q].todo)) = "connected"  BY <1>2, <2>1
  <2>6. req[q].op = "connect"  BY <2>1, <2>2, <2>5, Places DEF Programs
  <2> QED  BY <2>1, <2>4, <2>6
<1>7. CASE Sees(q)
  <2>1. Step(q) = "get" /\ req[q].op = "connect"  BY <1>6, <1>7 DEF Sees
  <2>2. v = req[q].saw["valid"].dev /\ d = Given(q)
    <3>1. Kind(Step(q)) = "get"  BY <2>1 DEF Kind
    <3>2. req'[q].saw = [req[q].saw EXCEPT !["get"] = [dev |-> Given(q), at |-> now]]  BY <1>7, <3>1 DEF Sees
    <3>3. DOMAIN req[q].saw = {"valid", "get", "auth"}  BY <1>0, SawFacts
    <3> QED  BY <3>2, <3>3
  <2>3. PICK l \in Logins : l = req[q].login  BY <1>0, <1>7, GivenIsAhead
  <2>4. d \in Ahead(l) /\ d \in Rows  BY <1>0, <1>7, <2>2, <2>3, GivenIsAhead
  <2>5. d # NoDevice
    <3>1. Owned(l)  BY <2>1, <2>3 DEF Owned, Owner
    <3> QED  BY <1>0, <2>4, <3>1 DEF OwnersAreKnown
  <2>6. ASSUME d.disabled, v # Empty PROVE d.ver > v.ver
    <3>1. d # Empty  BY <2>6, Kinds
    <3>2. d.ver \in Nat /\ d.ver > 0  BY <2>4, <2>5, <3>1, Kinds
    <3>3. CASE v = NoDevice
      <4>1. v.ver = 0  BY <3>3, Kinds
      <4> QED  BY <3>2, <4>1
    <3>4. CASE v # NoDevice
      <4>1. Follows(d, v)  BY <1>0, <2>1, <2>2, <2>3, <2>4, <2>6, <3>1, <3>4 DEF NoStepBack
      <4>2. d # v  BY <1>0, <2>2, <2>6 DEF ValidWereGood
      <4> QED  BY <4>1, <4>2 DEF Follows
    <3> QED  BY <3>3, <3>4
  <2> QED  BY <2>5, <2>6
<1>8. CASE Proceeds(q)
  <2>1. Step(q) = "get" /\ ~Loads(q)  BY <1>6, <1>8 DEF Proceeds
  <2> QED  BY <2>1 DEF Loads
<1> QED  BY <1>1, <1>3, <1>4, <1>5, <1>7, <1>8 DEF Becomes

\* The third part is inductive, given the first two.
LEMMA AdmissionsStay ==
  ASSUME Shape, Shape', Ages, Admissions, [Next]_vars
  PROVE  Admissions'
<1>1. NotEndedYet /\ OwnersAreKnown /\ RowsInOrder /\ ValidWereGood /\ NoStepBack /\ FailureIsNoPassword
  BY DEF Ages, Admissions
<1> QED  BY <1>1, OwnersStay, OrderStays, ViewsStayGood, NoStepBackStays, AdmittedStay DEF Admissions

\* The third part holds at the start.
LEMMA AdmissionsAtFirst ==
  ASSUME Init, Shape
  PROVE  Admissions
<1>1. \A l \in Logins : Ahead(l) = {devices[l]}
  <2>1. NewEntry.by = "" /\ NewEntry.ts = Never  BY DEF NewEntry
  <2> QED  BY <2>1 DEF Init, Ahead
<1>2. \A p \in Requests : req[p] = Idle  BY DEF Init
<1>3. OwnersAreKnown
  <2> SUFFICES ASSUME NEW l \in Logins, Owned(l) PROVE devices[l] # NoDevice  BY <1>1 DEF OwnersAreKnown
  <2>0. l # ""  BY AccountsAssumption DEF AccountsAssumption
  <2>1. \A p \in Requests : ~Owner(p, l)  BY <1>2, <2>0, IdleFields DEF Owner
  <2>2. PICK s \in Serials : issued[s].login = l  BY <2>1 DEF Owned
  <2>3. issued[s] = [login |-> FirstCerts[s].login, uid |-> FirstCerts[s].uid]  BY DEF Init
  <2>4. FirstCerts[s].login = l  BY <2>2, <2>3
  <2>5. NoCert.login = ""  BY DEF NoCert
  <2>6. FirstCerts[s] # NoCert  BY <2>0, <2>4, <2>5
  <2>7. First[FirstCerts[s].login] # NoDevice  BY <2>6, AccountsAssumption DEF AccountsAssumption
  <2> QED  BY <2>4, <2>7 DEF Init
<1>4. RowsInOrder  BY <1>1 DEF RowsInOrder, Follows
<1>5. \A p \in Requests, s \in {"valid", "get", "auth"} : req[p].saw[s].dev = NoDevice
  <2>1. \A s \in {"valid", "get", "auth"} : Nothing[s].dev = NoDevice  BY DEF Nothing
  <2> QED  BY <1>2, <2>1, IdleFields
<1>6. ValidWereGood /\ NoStepBack /\ FailureIsNoPassword
  BY <1>5, Kinds DEF ValidWereGood, NoStepBack, FailureIsNoPassword
<1>7. AdmittedWereGood
  <2>1. \A p \in Requests : Step(p) = "idle"  BY <1>2, AtRest
  <2> QED  BY <2>1 DEF AdmittedWereGood
<1> QED  BY <1>3, <1>4, <1>6, <1>7 DEF Admissions
-----------------------------------------------------------------------------
(* Certificates. *)

\* Who moves is the actor, unless the server starts anew.
LEMMA Mover ==
  ASSUME TablesFit, RequestsFit, [Next]_vars, NEW q \in Requests, ~Keeps(q), ~Restart
  PROVE  Arrives(q) \/ Work(q) \/ Close(q)
<1>1. ~UNCHANGED req  BY DEF Keeps
<1> QED  BY <1>1, OthersKeep DEF Next, Arrives, TimePasses, vars

\* A request that stays is at the same step.
LEMMA StepKept ==
  ASSUME RequestsFit, NEW q \in Requests, Keeps(q)
  PROVE  /\ Step(q)' = Step(q) /\ req'[q].login = req[q].login /\ req'[q].uid = req[q].uid
         /\ req'[q].target = req[q].target /\ req'[q].row = req[q].row /\ req'[q].rowSeen = req[q].rowSeen
         /\ req'[q].pw = req[q].pw
         /\ req[q].raced => req'[q].raced
<1>1. CASE req'[q] = req[q]  BY <1>1 DEF Step
<1>2. CASE Step(q) = "save" /\ req'[q] = [req[q] EXCEPT !.raced = TRUE]
  <2>1. req[q] \in Request  BY <1>2, StepFacts
  <2>2. /\ req'[q].todo = req[q].todo /\ req'[q].login = req[q].login /\ req'[q].uid = req[q].uid
        /\ req'[q].target = req[q].target /\ req'[q].row = req[q].row /\ req'[q].rowSeen = req[q].rowSeen
        /\ req'[q].pw = req[q].pw /\ req'[q].raced
    BY <1>2, <2>1 DEF Request
  <2>3. Step(q)' = Step(q)  BY <2>2 DEF Step
  <2> QED  BY <2>2, <2>3
<1> QED  BY <1>1, <1>2 DEF Keeps

\* Who comes to one of these steps was at the one before it.
LEMMA CameFrom ==
  ASSUME TablesFit, RequestsFit, [Next]_vars, NEW q \in Requests, Step(q)' \in {"enter", "save"}, ~Keeps(q)
  PROVE  /\ Onward(q)
         /\ Step(q)' = "enter" => Forget(q)
         /\ Step(q)' = "save" => ReadRow(q)
<1>1. req'[q].todo # <<>> /\ Step(q)' = Head(req'[q].todo)  BY DEF Step
<1>2. ~Rests(q)  BY <1>1, IdleFields DEF Rests
<1>3. ~Starts(q)
  <2>1. SUFFICES ASSUME Starts(q) PROVE FALSE  OBVIOUS
  <2>2. req'[q].op \in Programs /\ req'[q].todo = Program(req'[q].op)  BY <2>1 DEF Starts, Request
  <2> QED  BY <1>1, <2>2, Beginnings
<1>4. Onward(q)  BY <1>2, <1>3, RequestMoves DEF Becomes, Proceeds, Sees
<1>5. /\ req[q].op \in Programs /\ req[q].todo \in Rest(req[q].op) /\ Len(req[q].todo) # 1
      /\ req'[q].todo = Tail(req[q].todo) /\ req[q].todo # <<>> /\ Step(q) = Head(req[q].todo)
  <2>1. /\ req[q].op \in Programs /\ req[q].todo \in Rest(req[q].op) /\ Len(req[q].todo) # 1
        /\ req'[q].todo = Tail(req[q].todo)
    BY <1>4 DEF Onward, Request
  <2>2. req[q].todo # <<>>  BY <2>1, Places
  <2> QED  BY <2>1, <2>2 DEF Step
<1>6. /\ Step(q)' = "enter" => Step(q) = "forget"
      /\ Step(q)' = "save" => Step(q) = "read"
  BY <1>1, <1>5, NextPlace
<1>7. ~Restart  BY <1>2 DEF Restart, Rests
<1>8. Arrives(q) \/ Work(q) \/ Close(q)  BY <1>7, Mover
<1>9. ~Arrives(q)
  <2>1. req[q] # Idle  BY <1>6, AtRest
  <2> QED  BY <2>1 DEF Arrives, processTLSConn, SSLCheckHandler, getSignHandler, getAdminTokenHandler,
              getApiDevicePutHandler, getApiDevicePostHandler, Begin
<1>10. Step(q) \in {"forget", "read"}  BY <1>6
<1>11. /\ Step(q) = "forget" => Forget(q)
       /\ Step(q) = "read" => ReadRow(q)
  <2>1. ~(Step(q) = "read" /\ StatementFails(q))  BY <1>2 DEF StatementFails, RequestsFit, Rests
  <2> QED  BY <1>8, <1>9, <1>10, <2>1
  DEF Work, Close, Hit, Miss, Fill, Loads, Touch, Keep, Forget, Enter, Issue, ReadRow, SaveRow, CreateRow, StatementFails
<1> QED  BY <1>4, <1>6, <1>11

\* What becomes of a row of the certificates table.
LEMMA CertMoves ==
  ASSUME TablesFit, RequestsFit, [Next]_vars, NEW s \in Serials
  PROVE  \/ certs'[s] = certs[s] \/ certs'[s] = NoCert \/ certs'[s].extra
         \/ \E p \in Requests : /\ Enter(p) /\ certs'[s].login = req[p].login /\ certs'[s].uid = req[p].uid /\ ~req[p].left
                                /\ \A q \in Requests : q # p => ~(/\ Step(q) = "enter" /\ req[q].login = req[p].login
                                                                  /\ req[q].uid = req[p].uid)
                                /\ \A r \in Serials : r # s => certs'[r] = certs[r]
<1>1. ASSUME NEW p \in Requests, Keep(p) PROVE certs'[s] = certs[s] \/ certs'[s].extra
  <2> DEFINE c == [login |-> req[p].login, uid |-> req[p].uid, extra |-> TRUE]
  <2>1. certs' = [certs EXCEPT ![req[p].sn] = IF @ # NoCert THEN @ ELSE c]  BY <1>1 DEF Keep
  <2>2. c.extra  OBVIOUS
  <2> HIDE DEF c
  <2> QED  BY <2>1, <2>2 DEF TablesFit
<1>2. ASSUME NEW p \in Requests, Forget(p) PROVE certs'[s] = certs[s] \/ certs'[s] = NoCert
  BY <1>2 DEF Forget
<1>3. ASSUME NEW p \in Requests, Enter(p)
      PROVE  \/ certs'[s] = certs[s] \/ certs'[s].extra \/ certs'[s] = NoCert
             \/ /\ certs'[s].login = req[p].login /\ certs'[s].uid = req[p].uid /\ ~req[p].left
                /\ \A q \in Requests : q # p => ~(/\ Step(q) = "enter" /\ req[q].login = req[p].login
                                                  /\ req[q].uid = req[p].uid)
                /\ \A r \in Serials : r # s => certs'[r] = certs[r]
  <2> DEFINE x == \E q \in Requests \ {p} : /\ Step(q) = "enter" /\ req[q].login = req[p].login
                                            /\ req[q].uid = req[p].uid
             c == [login |-> req[p].login, uid |-> req[p].uid, extra |-> req[p].left \/ x]
  <2>1. PICK r \in Serials, failed \in BOOLEAN : certs' = [certs EXCEPT ![r] = IF failed THEN NoCert ELSE c]  BY <1>3 DEF Enter
  <2>2. c.login = req[p].login /\ c.uid = req[p].uid /\ c.extra = (req[p].left \/ x)  OBVIOUS
  <2>3. x \/ \A q \in Requests : q # p => ~(/\ Step(q) = "enter" /\ req[q].login = req[p].login
                                            /\ req[q].uid = req[p].uid)
    OBVIOUS
  <2> HIDE DEF x, c
  <2>4. certs'[r] = (IF failed THEN NoCert ELSE c) /\ \A u \in Serials : u # r => certs'[u] = certs[u]
    BY <2>1 DEF TablesFit
  <2>5. CASE s # r  BY <2>4, <2>5
  <2>6. CASE s = r /\ (failed \/ req[p].left \/ x)  BY <2>2, <2>4, <2>6
  <2>7. CASE s = r /\ ~failed /\ ~req[p].left /\ ~x  BY <2>2, <2>3, <2>4, <2>7
  <2> QED  BY <2>5, <2>6, <2>7
<1> QED  BY <1>1, <1>2, <1>3, WhoWrites

\* Who has deleted certificates finds no new ones but extra ones.
LEMMA RoomStaysForCert ==
  ASSUME Shape, RoomForCert, [Next]_vars
  PROVE  RoomForCert'
<1>0. TablesFit /\ RequestsFit  BY DEF Shape
<1> SUFFICES ASSUME NEW q \in Requests, Step(q)' = "enter", ~req'[q].left, NEW s \in Serials,
                    certs'[s].login = req'[q].login, certs'[s].uid = req'[q].uid, req'[q].uid \in ProperUids
             PROVE  certs'[s].extra
  BY DEF RoomForCert
<1>1. CASE Keeps(q)
  <2>1. Step(q) = "enter" /\ req'[q].login = req[q].login /\ req'[q].uid = req[q].uid /\ ~req[q].left
    <3>1. Step(q) = "enter" /\ req'[q].login = req[q].login /\ req'[q].uid = req[q].uid  BY <1>0, <1>1, StepKept
    <3>2. req'[q] = req[q]  BY <1>1, <3>1 DEF Keeps
    <3> QED  BY <3>1, <3>2
  <2>2. CASE certs'[s] = certs[s]  BY <2>1, <2>2 DEF RoomForCert
  <2>3. certs'[s] # NoCert
    <3>1. NoCert.uid \notin ProperUids  BY DEF NoCert, ProperUids
    <3> QED  BY <3>1
  <2>4. ASSUME NEW p \in Requests, Enter(p), certs'[s].login = req[p].login, certs'[s].uid = req[p].uid,
               \A r \in Requests : r # p => ~(/\ Step(r) = "enter" /\ req[r].login = req[p].login
                                              /\ req[r].uid = req[p].uid)
        PROVE  FALSE
    <3>1. p = q  BY <2>1, <2>4
    <3>2. Rests(q)
      <4>1. Step(q) = "enter" /\ Continue(q)  BY <2>4, <3>1 DEF Enter
      <4>2. req[q].op \in Programs /\ req[q].todo \in Rest(req[q].op) /\ Head(req[q].todo) = "enter"
        BY <1>0, <4>1, StepFacts
      <4>3. Len(req[q].todo) = 1  BY <4>2, Places
      <4> QED  BY <1>0, <4>1, <4>3 DEF Continue, Following, RequestsFit, Rests
    <3>3. Step(q)' = "idle"  BY <3>2, IdleFields DEF Rests, Step
    <3> QED  BY <3>3
  <2> QED  BY <1>0, <2>2, <2>3, <2>4, CertMoves
<1>2. CASE ~Keeps(q)
  <2>1. Forget(q) /\ req'[q].login = req[q].login /\ req'[q].uid = req[q].uid  BY <1>0, <1>2, CameFrom DEF Onward
  <2>2. certs'[s] = IF s \in Forgotten(req[q].login, req[q].uid) THEN NoCert ELSE certs[s]  BY <1>0, <2>1, ForgetMoves
  <2>3. NoCert.uid \notin ProperUids  BY DEF NoCert, ProperUids
  <2>4. s \notin Forgotten(req[q].login, req[q].uid) /\ certs'[s] = certs[s]  BY <2>2, <2>3
  <2>5. s \in Forgotten(req[q].login, req[q].uid)  BY <2>1, <2>4 DEF Forgotten
  <2> QED  BY <2>4, <2>5
<1> QED  BY <1>1, <1>2

\* So one of each uid is entered.
LEMMA OnePerUidStays ==
  ASSUME Shape, RoomForCert, OnePerUid, [Next]_vars
  PROVE  OnePerUid'
<1>0. TablesFit /\ RequestsFit  BY DEF Shape
<1> SUFFICES ASSUME NEW r \in Serials, NEW s \in Serials, certs'[r].uid \in ProperUids, ~certs'[r].extra, ~certs'[s].extra,
                    certs'[r].login = certs'[s].login, certs'[r].uid = certs'[s].uid, r # s
             PROVE  FALSE
  BY DEF OnePerUid
<1>1. NoCert.uid \notin ProperUids  BY DEF NoCert, ProperUids
<1>2. ASSUME NEW a \in Serials, NEW b \in Serials, a # b, ~certs'[a].extra, ~certs'[b].extra, certs'[a].uid \in ProperUids,
             certs'[a].login = certs'[b].login, certs'[a].uid = certs'[b].uid, certs'[a] # certs[a]
      PROVE  FALSE
  <2>1. PICK p \in Requests : /\ Enter(p) /\ certs'[a].login = req[p].login /\ certs'[a].uid = req[p].uid /\ ~req[p].left
                              /\ certs'[b] = certs[b]
    BY <1>0, <1>1, <1>2, CertMoves
  <2>2. Step(p) = "enter"  BY <2>1 DEF Enter
  <2> QED  BY <1>2, <2>1, <2>2 DEF RoomForCert
<1>3. certs'[r] = certs[r]  BY <1>2
<1>4. certs'[s] = certs[s]  BY <1>2
<1> QED  BY <1>3, <1>4 DEF OnePerUid

\* The fourth part is inductive, given the first.
LEMMA CertificatesStay ==
  ASSUME Shape, Certificates, [Next]_vars
  PROVE  Certificates'
BY RoomStaysForCert, OnePerUidStays DEF Certificates

\* The fourth part holds at the start.
LEMMA CertificatesAtFirst ==
  ASSUME Init
  PROVE  Certificates
<1>1. \A p \in Requests : Step(p) = "idle"  BY AtRest DEF Init
<1>2. RoomForCert  BY <1>1 DEF RoomForCert
<1>3. OnePerUid  BY AccountsAssumption DEF AccountsAssumption, Init, OnePerUid
<1> QED  BY <1>2, <1>3 DEF Certificates
-----------------------------------------------------------------------------
(* Edits. *)

\* No connection is of the future.
LEMMA SeenByNowStays ==
  ASSUME Shape, SeenByNow, [Next]_vars
  PROVE  SeenByNow'
<1>0. TablesFit /\ RequestsFit  BY DEF Shape
<1>1. now \in Nat /\ now <= now' /\ now' \in Nat
  <2>1. now \in 0..MaxTime  BY <1>0 DEF TablesFit
  <2>2. now \in Nat  BY <2>1, Constants
  <2>3. now' = now \/ now' = now + 1  BY <1>0, WhoWrites DEF TimePasses
  <2> QED  BY <2>2, <2>3
<1>2. \A l \in Logins : seen[l] \in Nat /\ seen[l] <= now
  <2>1. \A l \in Logins : seen[l] \in 0..MaxTime  BY <1>0 DEF TablesFit
  <2>2. \A n \in 0..MaxTime : n \in Nat  BY Constants
  <2> QED  BY <2>1, <2>2 DEF SeenByNow
<1>3. \A q \in Requests : req[q].rowSeen \in Nat /\ req[q].rowSeen <= now
  <2>1. TAKE q \in Requests
  <2>2. req[q].rowSeen \in 0..MaxTime
    <3>1. Idle.rowSeen = 0  BY DEF Idle
    <3>2. 0 \in 0..MaxTime  BY Constants
    <3>3. req[q] = Idle \/ req[q].rowSeen \in 0..MaxTime  BY <1>0 DEF RequestsFit, Request
    <3> QED  BY <3>1, <3>2, <3>3
  <2> QED  BY <2>2, Constants DEF SeenByNow
<1>4. ASSUME NEW l \in Logins PROVE seen'[l] <= now'
  <2>1. seen'[l] = seen[l] \/ seen'[l] = now \/ \E q \in Requests : seen'[l] = req[q].rowSeen
    <3>1. ASSUME NEW p \in Requests, Touch(p) PROVE seen'[l] = seen[l] \/ seen'[l] = now
      BY <1>0, <3>1 DEF Touch, TablesFit
    <3>2. ASSUME NEW p \in Requests, SaveRow(p) PROVE seen'[l] = seen[l] \/ seen'[l] = req[p].rowSeen
      BY <1>0, <3>2 DEF SaveRow, TablesFit
    <3> QED  BY <1>0, <3>1, <3>2, WhoWrites
  <2>2. seen'[l] \in Nat /\ seen'[l] <= now  BY <1>1, <1>2, <1>3, <2>1
  <2> QED  BY <1>1, <2>2
<1>5. ASSUME NEW q \in Requests PROVE req'[q].rowSeen <= now'
  <2>1. Becomes(q)  BY <1>0, RequestMoves
  <2>2. req'[q].rowSeen = req[q].rowSeen \/ req'[q].rowSeen = 0 \/ \E l \in Logins : req'[q].rowSeen = seen[l]
    <3>1. Keeps(q) => req'[q].rowSeen = req[q].rowSeen  BY <1>0, StepKept
    <3>2. Rests(q) => req'[q].rowSeen = 0
      <4>1. Idle.rowSeen = 0  BY DEF Idle
      <4> QED  BY <4>1 DEF Rests
    <3> QED  BY <2>1, <3>1, <3>2 DEF Becomes, Starts, Proceeds, Sees, Onward
  <2>3. req'[q].rowSeen \in Nat /\ req'[q].rowSeen <= now  BY <1>1, <1>2, <1>3, <2>2
  <2> QED  BY <1>1, <2>3
<1> QED  BY <1>4, <1>5 DEF SeenByNow

\* Who writes the row of a device, or its column last_connect, marks the edits
\* of others that have read it.
LEMMA Racers ==
  ASSUME TablesFit, RequestsFit, NEW l \in Logins, devices[l] # NoDevice, [Next]_vars, NEW q \in Racing(l),
         Keeps(q), seen'[l] # seen[l] \/ devices'[l] # devices[l]
  PROVE  req'[q].raced
<1>0. q \in Requests /\ Step(q) = "save" /\ req[q].target = l  BY DEF Racing
<1>1. ASSUME NEW p \in Requests, Touch(p), seen'[l] # seen[l] PROVE req'[q].raced
  <2>1. req[p].login = l /\ Step(p) = "touch"  BY <1>1 DEF Touch, TablesFit
  <2>2. p # q  BY <1>0, <2>1
  <2> QED  BY <1>0, <1>1, <2>1, <2>2, TouchMoves
<1>2. ASSUME NEW p \in Requests, SaveRow(p), req[p].target = l PROVE req'[q].raced
  <2>1. p # q
    <3>1. SUFFICES ASSUME p = q PROVE FALSE  OBVIOUS
    <3>2. Step(q)' = "idle"  BY <1>2, <3>1, SaveMoves, IdleFields DEF Rests, Step
    <3> QED  BY <1>0, <3>2, StepKept
  <2> QED  BY <1>0, <1>2, <2>1, SaveMoves
<1>3. ASSUME NEW p \in Requests, SaveRow(p), req[p].target # l PROVE seen'[l] = seen[l] /\ devices'[l] = devices[l]
  BY <1>3 DEF SaveRow, Replace, TablesFit
<1>4. ASSUME NEW p \in Requests, CreateRow(p) PROVE devices'[l] = devices[l]
  BY <1>4 DEF CreateRow, Replace, TablesFit
<1>5. CASE devices'[l] # devices[l]
  <2>1. PICK p \in Requests : SaveRow(p) \/ CreateRow(p)  BY <1>5, DevicesStay
  <2> QED  BY <1>2, <1>3, <1>4, <1>5, <2>1
<1>6. CASE seen'[l] # seen[l]
  <2>1. PICK p \in Requests : Touch(p) \/ SaveRow(p)  BY <1>6, WhoWrites
  <2> QED  BY <1>1, <1>2, <1>3, <1>6, <2>1
<1> QED  BY <1>5, <1>6

\* An edit knows the row, or has been raced.
LEMMA EditsKnowStays ==
  ASSUME Shape, NotEndedYet, EditsKnow, [Next]_vars
  PROVE  EditsKnow'
<1>0. TablesFit /\ RequestsFit  BY DEF Shape
<1> SUFFICES ASSUME NEW q \in Requests, Step(q)' = "save"
             PROVE  /\ devices'[req'[q].target] # NoDevice
                    /\ req'[q].raced \/ (req'[q].rowSeen = seen'[req'[q].target]
                                         /\ req'[q].row.pw = devices'[req'[q].target].pw)
  BY DEF EditsKnow
<1> DEFINE l == req[q].target
<1>1. CASE Keeps(q)
  <2>1. /\ Step(q) = "save" /\ req'[q].target = l /\ req'[q].row = req[q].row /\ req'[q].rowSeen = req[q].rowSeen
        /\ req[q].raced => req'[q].raced
    BY <1>0, <1>1, StepKept
  <2>2. l \in Logins
    <3>1. req[q] \in Request /\ req[q].op = "put"  BY <1>0, <2>1, StepFacts
    <3> QED  BY <3>1 DEF Request
  <2>3. devices[l] # NoDevice /\ (req[q].raced \/ (req[q].rowSeen = seen[l] /\ req[q].row.pw = devices[l].pw))
    BY <2>1 DEF EditsKnow
  <2>4. devices'[l] # NoDevice
    <3>1. CASE devices'[l] = devices[l]  BY <2>3, <3>1
    <3>2. CASE devices'[l] # devices[l]
      <4>1. devices'[l].ver = devices[l].ver + 1 /\ devices[l].ver \in Nat  BY <1>0, <2>2, <3>2, Endings, Versions
      <4>2. devices'[l].ver # 0  BY <4>1
      <4> QED  BY <4>2, Kinds
    <3> QED  BY <3>1, <3>2
  <2>5. q \in Racing(l)  BY <2>1 DEF Racing
  <2>6. CASE seen'[l] = seen[l] /\ devices'[l] = devices[l]  BY <2>1, <2>3, <2>4, <2>6
  <2>7. CASE seen'[l] # seen[l] \/ devices'[l] # devices[l]
    <3>1. req'[q].raced  BY <1>0, <1>1, <2>2, <2>3, <2>5, <2>7, Racers
    <3> QED  BY <2>1, <2>4, <3>1
  <2> QED  BY <2>6, <2>7
<1>2. CASE ~Keeps(q)
  <2>1. ReadRow(q) /\ req'[q] # Idle  BY <1>0, <1>2, CameFrom, IdleFields DEF Step
  <2>2. devices[l] # NoDevice /\ req'[q].row = devices[l] /\ req'[q].rowSeen = seen[l] /\ req'[q].target = l
    BY <1>0, <2>1, ReadMoves
  <2>3. devices' = devices /\ seen' = seen  BY <2>1 DEF ReadRow
  <2> QED  BY <2>2, <2>3
<1> QED  BY <1>1, <1>2

\* The fifth part is inductive, given the first two.
LEMMA EditsStay ==
  ASSUME Shape, Ages, Edits, [Next]_vars
  PROVE  Edits'
BY SeenByNowStays, EditsKnowStays DEF Edits, Ages

\* The fifth part holds at the start.
LEMMA EditsAtFirst ==
  ASSUME Init
  PROVE  Edits
<1>1. \A p \in Requests : Step(p) = "idle"  BY AtRest DEF Init
<1>2. EditsKnow  BY <1>1 DEF EditsKnow
<1>3. 0 <= 0  OBVIOUS
<1>4. now = 0 /\ (\A l \in Logins : seen[l] = 0) /\ \A p \in Requests : req[p].rowSeen = 0
  <2>1. Idle.rowSeen = 0  BY DEF Idle
  <2> QED  BY <2>1 DEF Init
<1>5. SeenByNow  BY <1>3, <1>4 DEF SeenByNow
<1> QED  BY <1>2, <1>5 DEF Edits
-----------------------------------------------------------------------------
(* The theorems. *)

\* The invariant holds at the start,
LEMMA IInvAtFirst ==
  ASSUME Init
  PROVE  IInv
BY ShapeAtFirst, AgesAtFirst, AdmissionsAtFirst, CertificatesAtFirst, EditsAtFirst DEF IInv

\* and every step keeps it.
LEMMA IInvStays ==
  ASSUME IInv, [Next]_vars
  PROVE  IInv'
<1>1. Shape /\ Ages /\ Admissions /\ Certificates /\ Edits  BY DEF IInv
<1>2. Shape'  BY <1>1, ShapeStays
<1>3. Ages'  BY <1>1, <1>2, AgesStay
<1>4. Admissions'  BY <1>1, <1>2, AdmissionsStay
<1>5. Certificates'  BY <1>1, CertificatesStay
<1>6. Edits'  BY <1>1, EditsStay
<1> QED  BY <1>2, <1>3, <1>4, <1>5, <1>6 DEF IInv

\* The devices, the cache, the requests under way and the certificates fit
\* together in every state, whatever the interleaving (user_repo_db.go).
THEOREM Invariance == Spec => []IInv
<1>1. Init => IInv  BY IInvAtFirst
<1>2. IInv /\ [Next]_vars => IInv'  BY IInvStays
<1> QED  BY <1>1, <1>2, PTL DEF Spec

\* A request is shown no row that had been replaced longer ago than an entry
\* of the cache lives and a statement takes (cache.go:46).
THEOREM RowsAreFresh == Spec => []StaleAtMost
<1>1. IInv => StaleAtMost  BY DEF IInv, Ages
<1> QED  BY <1>1, Invariance, PTL

\* The type invariant follows.
LEMMA TypesFit ==
  ASSUME IInv
  PROVE  TypeOK
<1>1. TablesFit /\ RequestsFit /\ LocksHeld  BY DEF IInv, Shape
<1>2. ASSUME NEW l \in Logins
      PROVE  /\ {cache[l].value, cache[l].coming} \subseteq Rows /\ cache[l].ts \in 0..Never
             /\ cache[l].by = "" \/ /\ cache[l].by \in Requests /\ req[cache[l].by].login = l
                                    /\ Step(cache[l].by) \in {"valid", "get", "auth", "login", "token"}
  <2>1. cache[l] \in Entries  BY <1>1 DEF TablesFit
  <2>2. cache[l].by # "" => req[cache[l].by].login = l /\ Loads(cache[l].by)  BY <1>1 DEF LocksHeld
  <2> QED  BY <2>1, <2>2 DEF Entries, Loads
<1>3. ASSUME NEW p \in Requests, NEW s \in DOMAIN Nothing PROVE req[p].saw[s].dev \in Rows
  BY <1>1, NoViews, SawFacts
<1> QED  BY <1>1, <1>2, <1>3 DEF TypeOK, TablesFit

\* Passwords are not taken from failed statements, and a connection has a row
\* that was not disabled when it was checked (query.go:50, tcpserver.go:118).
THEOREM AdmissionIsSound == Spec => []LetInRightly
<1>1. IInv => LetInRightly  BY TypesFit DEF IInv, Admissions, LetInRightly
<1> QED  BY <1>1, Invariance, PTL

\* A device has one certificate of each uid, but for the extra ones
\* (user_repo_db.go:115).
THEOREM CertificatesAreUnique == Spec => []OneCertPerUid
<1>1. ASSUME OnePerUid PROVE OneCertPerUid
  <2> SUFFICES ASSUME NEW l \in Logins, NEW u \in ProperUids
               PROVE  Cardinality({s \in Serials : certs[s].login = l /\ certs[s].uid = u /\ ~certs[s].extra}) <= 1
    BY DEF OneCertPerUid
  <2> DEFINE S == {s \in Serials : certs[s].login = l /\ certs[s].uid = u /\ ~certs[s].extra}
  <2>1. \A r, s \in S : r = s  BY <1>1 DEF OnePerUid
  <2> HIDE DEF S
  <2>2. Cardinality(S) <= 1
    <3>1. CASE S = {}
      <4>1. Cardinality(S) = 0  BY <3>1, FS_EmptySet
      <4> QED  BY <4>1
    <3>2. CASE S # {}
      <4>1. PICK s : S = {s}  BY <2>1, <3>2
      <4>2. Cardinality(S) = 1  BY <4>1, FS_Singleton
      <4> QED  BY <4>2
    <3> QED  BY <3>1, <3>2
  <2> QED  BY <2>2 DEF S
<1>2. IInv => OneCertPerUid  BY <1>1 DEF IInv, Certificates
<1> QED  BY <1>2, Invariance, PTL

\* What a step may lose.
Losses == \A l \in Logins :
  seen'[l] < seen[l] \/ (devices[l] # NoDevice /\ devices'[l].pw # devices[l].pw) =>
    \E p \in Racing(l) : req[p].raced \/ (seen'[l] = seen[l] /\ devices'[l].pw = req[p].pw)

\* A step of a state that fits loses no more than that.
LEMMA StepsLoseLittle ==
  ASSUME IInv, [Next]_vars
  PROVE  Losses
<1>0. TablesFit /\ RequestsFit /\ SeenByNow /\ EditsKnow  BY DEF IInv, Shape, Edits
<1> SUFFICES ASSUME NEW l \in Logins, seen'[l] < seen[l] \/ (devices[l] # NoDevice /\ devices'[l].pw # devices[l].pw)
             PROVE  \E p \in Racing(l) : req[p].raced \/ (seen'[l] = seen[l] /\ devices'[l].pw = req[p].pw)
  BY DEF Losses
<1>1. seen[l] \in Nat /\ now \in Nat /\ seen[l] <= now
  <2>1. seen[l] \in 0..MaxTime /\ now \in 0..MaxTime  BY <1>0 DEF TablesFit
  <2> QED  BY <1>0, <2>1, Constants DEF SeenByNow
<1>2. seen'[l] < seen[l] => seen'[l] # seen[l] /\ seen'[l] # now  BY <1>1
<1>3. ASSUME NEW p \in Requests, SaveRow(p), req[p].target = l
      PROVE  \E q \in Racing(l) : req[q].raced \/ (seen'[l] = seen[l] /\ devices'[l].pw = req[q].pw)
  <2>1. Step(p) = "save" /\ p \in Racing(l)  BY <1>3 DEF SaveRow, Racing
  <2>2. CASE req[p].raced  BY <2>1, <2>2
  <2>3. CASE ~req[p].raced
    <3>1. req[p].rowSeen = seen[l] /\ req[p].row.pw = devices[l].pw /\ devices[l] # NoDevice
      BY <1>0, <1>3, <2>1, <2>3 DEF EditsKnow
    <3>2. seen'[l] = seen[l]  BY <1>0, <1>3, <3>1 DEF SaveRow, TablesFit
    <3>3. devices'[l].pw # devices[l].pw  BY <1>2, <3>2
    <3>4. PICK off \in BOOLEAN :
            Replace(l, [req[p].row EXCEPT !.disabled = off, !.pw = IF req[p].pw = "" THEN @ ELSE req[p].pw])
      BY <1>3 DEF SaveRow
    <3>5. req[p].row \in Device
      <4>1. req[p] \in Request /\ req[p].op = "put" /\ req[p].todo \in Rest("put") /\ Head(req[p].todo) = "save"
        BY <1>0, <2>1, StepFacts
      <4>2. req[p].todo = <<"save">>  BY <4>1, Places DEF Programs
      <4> QED  BY <4>1, <4>2 DEF Request
    <3> DEFINE row == [req[p].row EXCEPT !.disabled = off, !.pw = IF req[p].pw = "" THEN @ ELSE req[p].pw]
               n == devices[l].ver + 1
    <3>6. devices'[l] = [row EXCEPT !.ver = n]  BY <1>0, <3>4, ReplacedRows
    <3>7. row.pw = (IF req[p].pw = "" THEN req[p].row.pw ELSE req[p].pw) /\ [row EXCEPT !.ver = n].pw = row.pw
      <4> HIDE DEF n
      <4> QED  BY <3>5 DEF Device
    <3>8. devices'[l].pw = req[p].pw  BY <3>1, <3>3, <3>6, <3>7
    <3> QED  BY <2>1, <3>2, <3>8
  <2> QED  BY <2>2, <2>3
<1>4. ASSUME NEW p \in Requests, SaveRow(p), req[p].target # l PROVE seen'[l] = seen[l] /\ devices'[l] = devices[l]
  BY <1>0, <1>4 DEF SaveRow, Replace, TablesFit
<1>5. ASSUME NEW p \in Requests, CreateRow(p), devices[l] # NoDevice PROVE devices'[l] = devices[l]
  BY <1>0, <1>5 DEF CreateRow, Replace, TablesFit
<1>6. CASE seen'[l] < seen[l]
  <2>1. seen'[l] # seen[l] /\ seen'[l] # now  BY <1>2, <1>6
  <2>2. PICK p \in Requests : Touch(p) \/ SaveRow(p)  BY <1>0, <2>1, WhoWrites
  <2>3. Touch(p) => seen'[l] = seen[l] \/ seen'[l] = now  BY <1>0 DEF Touch, TablesFit
  <2> QED  BY <1>3, <1>4, <2>1, <2>2, <2>3
<1>7. CASE devices[l] # NoDevice /\ devices'[l].pw # devices[l].pw
  <2>1. devices'[l] # devices[l]  BY <1>7
  <2>2. PICK p \in Requests : SaveRow(p) \/ CreateRow(p)  BY <1>0, <2>1, DevicesStay
  <2> QED  BY <1>3, <1>4, <1>5, <1>7, <2>1, <2>2
<1> QED  BY <1>6, <1>7

\* A password and a last connection are lost only by an edit that read the
\* row before, and wrote all of it (admin_api.go:626, 644).
THEOREM LossesAreOverlaps == Spec => LostOnlyByOverlap
<1>1. IInv /\ [Next]_vars => [Losses]_vars  BY StepsLoseLittle
<1>2. []IInv /\ [][Next]_vars => [][Losses]_vars  BY <1>1, PTL
<1>3. Spec => [][Losses]_vars  BY <1>2, Invariance, PTL DEF Spec
<1> QED  BY <1>3 DEF LostOnlyByOverlap, Losses
=============================================================================
