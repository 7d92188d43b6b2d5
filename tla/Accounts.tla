------------------------------ MODULE Accounts ------------------------------
(***************************************************************************)
(* Devices and certificates: who is let in, and how old the row may be     *)
(* that says so.                                                           *)
(*                                                                         *)
(* Every check reads a cache whose entries live for TTL and have a lock    *)
(* each; nothing that changes a row touches the cache.  A request is a     *)
(* process with a program: loads from the cache, and statements of the     *)
(* database, with those of others between them.  A row is its version; its *)
(* scopes go with it.                                                      *)
(***************************************************************************)
EXTENDS Naturals, Sequences, FiniteSets

CONSTANTS Logins, Passwords, Uids,
          First,      \* the rows at the start: loaded from a file, or by default
          FirstCerts, \* the certificates signed in earlier runs
          Requests,
          Ops,        \* operations the run looks at
          TTL,        \* the time an entry of the cache lives
          MaxLoad,    \* the time a statement may take
          TokenAge,   \* the time a token is good for
          MaxTime, MaxVer, MaxCerts, MaxFaults  \* bounds: clock, versions of a row, certificates, failed statements

Never == MaxTime + 1
Serials == 1..MaxCerts

Device == [ver : 1..MaxVer, disabled : BOOLEAN, admin : BOOLEAN, pw : Passwords]
NoDevice == [ver |-> 0, disabled |-> FALSE, admin |-> FALSE, pw |-> ""]

\* What One returns when the statement fails.
Empty == [ver |-> MaxVer + 1, disabled |-> FALSE, admin |-> FALSE, pw |-> ""]
Rows == Device \cup {NoDevice, Empty}

Cert == [login : Logins, uid : Uids, extra : BOOLEAN]
NoCert == [login |-> "", uid |-> "", extra |-> FALSE]
NotIssued == [login |-> "", uid |-> ""]

\* The uids of which each device has one certificate.
ProperUids == Uids \ {"", "taktracker"}

\* Nothing calls DeviceQuery.Delete, so the owner of a certificate is there.
ASSUME AccountsAssumption ==
  /\ First \in [Logins -> Device \cup {NoDevice}] /\ FirstCerts \in [Serials -> Cert \cup {NoCert}]
  /\ "" \notin Logins \cup Passwords \cup Requests /\ IsFiniteSet(Requests)
  /\ \A s \in Serials : FirstCerts[s] # NoCert => First[FirstCerts[s].login] # NoDevice
  /\ \A r, s \in Serials : /\ FirstCerts[r].uid \in ProperUids /\ ~FirstCerts[r].extra /\ ~FirstCerts[s].extra
                           /\ FirstCerts[r].login = FirstCerts[s].login /\ FirstCerts[r].uid = FirstCerts[s].uid
                           => r = s
  /\ {TTL, MaxLoad, TokenAge, MaxTime, MaxVer, MaxCerts, MaxFaults} \subseteq Nat

VARIABLES
  now,      \* the clock
  devices,  \* the devices table
  seen,     \* its column last_connect
  ended,    \* when each version of a row was replaced
  cache,    \* the cache's entries
  certs,    \* the certificates table
  issued,   \* the certificates clients have
  tokens,   \* when the token of an administrator was made
  req,      \* what each request is doing
  faults    \* statements that failed

vars == <<now, devices, seen, ended, cache, certs, issued, tokens, req, faults>>

\* by loads the entry, since at; coming is what it read.
NewEntry == [ts |-> Never, value |-> NoDevice, by |-> "", at |-> 0, coming |-> NoDevice]

\* saw: the rows it was shown, and when.  raced: somebody wrote the row since
\* it was read; left: the deletion of the other certificates failed.
Nothing == [s \in {"valid", "get", "auth"} |-> [dev |-> NoDevice, at |-> Never]]
Idle == [op |-> "", todo |-> <<>>, login |-> "", pw |-> "", uid |-> "", sn |-> 0, target |-> "",
         saw |-> Nothing, row |-> NoDevice, rowSeen |-> 0, raced |-> FALSE, left |-> FALSE]

Program(op) ==
  CASE op = "connect" -> <<"valid", "valid", "touch", "keep", "get", "connected">>
    [] op = "api" -> <<"valid", "get", "answer">>
    [] op = "sign" -> <<"auth", "valid", "forget", "enter">>
    [] op = "login" -> <<"login", "issue">>
    [] op = "put" -> <<"token", "read", "save">>
    [] op = "post" -> <<"token", "create">>

Step(p) == IF req[p].todo = <<>> THEN "idle" ELSE Head(req[p].todo)

\* What a request sees as one of the three kinds of answers.
Kind(s) == CASE s \in {"auth", "login", "token"} -> "auth" [] OTHER -> s

TypeOK ==
  /\ now \in 0..MaxTime /\ devices \in [Logins -> Device \cup {NoDevice}] /\ seen \in [Logins -> 0..MaxTime]
  /\ ended \in [Logins -> [0..MaxVer -> 0..Never]] /\ tokens \in [Logins -> 0..Never] /\ faults \in 0..MaxFaults
  /\ \A l \in Logins : /\ {cache[l].value, cache[l].coming} \subseteq Rows /\ cache[l].ts \in 0..Never
                       /\ cache[l].by = "" \/ /\ cache[l].by \in Requests /\ req[cache[l].by].login = l
                                              /\ Step(cache[l].by) \in {"valid", "get", "auth", "login", "token"}
  /\ certs \in [Serials -> Cert \cup {NoCert}] /\ issued \in [Serials -> [login : Logins, uid : Uids] \cup {NotIssued}]
  /\ \A p \in Requests : \A s \in DOMAIN Nothing : req[p].saw[s].dev \in Rows

\* An administrator may be logged in: what the cache held long ago is as good
\* as nothing.
Init ==
  /\ now = 0 /\ devices = First /\ seen = [l \in Logins |-> 0] /\ ended = [l \in Logins |-> [v \in 0..MaxVer |-> Never]]
  /\ cache = [l \in Logins |-> NewEntry] /\ tokens \in [Logins -> {0, Never}]
  /\ \A l \in Logins : tokens[l] = 0 => First[l].admin
  /\ certs = FirstCerts /\ issued = [s \in Serials |-> [login |-> certs[s].login, uid |-> certs[s].uid]]
  /\ req = [p \in Requests |-> Idle] /\ faults = 0

-----------------------------------------------------------------------------
(* Requests. *)

Of(ops) == {p \in Requests : req[p].op \in ops}

Begin(p, r) ==
  /\ req[p] = Idle /\ r.op \in Ops /\ req' = [req EXCEPT ![p] = [r EXCEPT !.todo = Program(r.op)]]
  /\ UNCHANGED <<now, devices, seen, ended, cache, certs, issued, tokens, faults>>

\* A TLS connection with a certificate of ours, whether its row is there or not.
processTLSConn(p) == \E s \in Serials : issued[s] # NotIssued
  /\ Begin(p, [Idle EXCEPT !.op = "connect", !.login = issued[s].login, !.uid = issued[s].uid, !.sn = s])

\* The same for a request of the TAK API.
SSLCheckHandler(p) == \E s \in Serials : issued[s] # NotIssued
  /\ Begin(p, [Idle EXCEPT !.op = "api", !.login = issued[s].login, !.sn = s])

\* A certificate is asked for with a login and a password.
getSignHandler(p) == \E l \in Logins, pw \in Passwords, u \in Uids :
  /\ Cardinality({s \in Serials : issued[s] # NotIssued}) + Cardinality(Of({"sign"})) < MaxCerts
  /\ Begin(p, [Idle EXCEPT !.op = "sign", !.login = l, !.pw = pw, !.uid = u])

getAdminTokenHandler(p) == \E l \in Logins, pw \in Passwords :
  Begin(p, [Idle EXCEPT !.op = "login", !.login = l, !.pw = pw])

\* An administrator's change, the token not expired.
Authorised(l) == tokens[l] # Never /\ now <= tokens[l] + TokenAge
MayChange(t) == devices[t].ver + Cardinality({p \in Of({"put", "post"}) : req[p].target = t}) < MaxVer

\* The password is a new one, or none is given.
getApiDevicePutHandler(p) == \E l, t \in Logins, pw \in Passwords \cup {""} :
  /\ Authorised(l) /\ MayChange(t)
  /\ Begin(p, [Idle EXCEPT !.op = "put", !.login = l, !.target = t, !.pw = pw])
getApiDevicePostHandler(p) == \E l, t \in Logins, pw \in Passwords :
  /\ Authorised(l) /\ MayChange(t)
  /\ Begin(p, [Idle EXCEPT !.op = "post", !.login = l, !.target = t, !.pw = pw])

\* A statement fails, or does not: who makes it hardly ever looks.
Fails(failed) == (failed => faults < MaxFaults) /\ faults' = IF failed THEN faults + 1 ELSE faults

Following(p) == IF Len(req[p].todo) = 1 THEN Idle ELSE [req[p] EXCEPT !.todo = Tail(@)]
Continue(p) == req' = [req EXCEPT ![p] = Following(p)]

-----------------------------------------------------------------------------
(* The cache. *)

IsGood(d) == d # NoDevice /\ ~d.disabled

CheckPassword(d, pw) == d # NoDevice /\ d.pw = pw

\* Mutant: a device that is known is let in.
PassesKnown(p, d) ==
  Step(p) = "get" \/ /\ d # NoDevice
                     /\ Step(p) \in {"auth", "login"} => CheckPassword(d, req[p].pw)
                     /\ Step(p) \in {"login", "token"} => d.admin

Passes(p, d) ==
  Step(p) = "get" \/ /\ IsGood(d)
                     /\ Step(p) \in {"auth", "login"} => CheckPassword(d, req[p].pw)
                     /\ Step(p) \in {"login", "token"} => d.admin

Shown(p, d) ==
  req' = [req EXCEPT ![p] = IF ~Passes(p, d) THEN Idle
                            ELSE [Following(p) EXCEPT !.saw[Kind(Step(p))] = [dev |-> d, at |-> now]]]

Entry(p) == cache[req[p].login]
Loads(p) == Step(p) \in {"valid", "get", "auth", "login", "token"}
Stale(p) == Entry(p).ts = Never \/ now > Entry(p).ts + TTL

\* Mutant: an entry that is used lives on.
HitRefreshes(p) ==
  /\ Loads(p) /\ Entry(p).by = "" /\ ~Stale(p) /\ Shown(p, Entry(p).value)
  /\ cache' = [cache EXCEPT ![req[p].login].ts = now]
  /\ UNCHANGED <<now, devices, seen, ended, certs, issued, tokens, faults>>

Hit(p) ==
  /\ Loads(p) /\ Entry(p).by = "" /\ ~Stale(p) /\ Shown(p, Entry(p).value)
  /\ UNCHANGED <<now, devices, seen, ended, cache, certs, issued, tokens, faults>>

\* The lock is taken, and the row read.
Miss(p) ==
  /\ Loads(p) /\ Entry(p).by = "" /\ Stale(p)
  /\ \E failed \in BOOLEAN :
       /\ Fails(failed)
       /\ cache' = [cache EXCEPT ![req[p].login].by = p, ![req[p].login].at = now,
                      ![req[p].login].coming = IF failed THEN Empty ELSE devices[req[p].login]]
  /\ UNCHANGED <<now, devices, seen, ended, certs, issued, tokens, req>>

Filled(p, d) == [NewEntry EXCEPT !.ts = now, !.value = d]

\* The entry is as old as the end of the load.
Fill(p) ==
  /\ Loads(p) /\ Entry(p).by = p /\ Shown(p, Entry(p).coming)
  /\ cache' = [cache EXCEPT ![req[p].login] = Filled(p, Entry(p).coming)]
  /\ UNCHANGED <<now, devices, seen, ended, certs, issued, tokens, faults>>

-----------------------------------------------------------------------------
(* Connections and certificates. *)

\* Those that have read the row of l and will write all of it.
Racing(l) == {p \in Requests : Step(p) = "save" /\ req[p].target = l}
Race(l, r) == [p \in Requests |-> IF p \in Racing(l) THEN [r[p] EXCEPT !.raced = TRUE] ELSE r[p]]

Touch(p) ==
  /\ Step(p) = "touch" /\ seen' = [seen EXCEPT ![req[p].login] = now]
  /\ req' = Race(req[p].login, [req EXCEPT ![p] = Following(p)])
  /\ UNCHANGED <<now, devices, ended, cache, certs, issued, tokens, faults>>

\* The row of the certificate is written, and made when it is gone.
Keep(p) ==
  /\ Step(p) = "keep" /\ Continue(p)
  /\ certs' = [certs EXCEPT ![req[p].sn] =
       IF @ # NoCert THEN @ ELSE [login |-> req[p].login, uid |-> req[p].uid, extra |-> TRUE]]
  /\ UNCHANGED <<now, devices, seen, ended, cache, issued, tokens, faults>>

\* The connection keeps the row it was given, as long as it lives.
Close(p) == Step(p) \in {"connected", "answer"} /\ Continue(p)
            /\ UNCHANGED <<now, devices, seen, ended, cache, certs, issued, tokens, faults>>

\* Mutant: certificates without a proper uid are deleted, the others stay.
ForgottenWrongWay(l, u) == {s \in Serials : certs[s].login = l /\ certs[s].uid = u /\ u \notin ProperUids}

Forgotten(l, u) == {s \in Serials : certs[s].login = l /\ certs[s].uid = u /\ u \in ProperUids}

\* The certificate is signed whether the others could be deleted or not.
Forget(p) ==
  /\ Step(p) = "forget"
  /\ \E failed \in BOOLEAN :
       /\ Fails(failed) /\ (failed => req[p].uid \in ProperUids)
       /\ req' = [req EXCEPT ![p] = [Following(p) EXCEPT !.left = failed]]
       /\ certs' = [s \in Serials |-> IF ~failed /\ s \in Forgotten(req[p].login, req[p].uid) THEN NoCert ELSE certs[s]]
  /\ UNCHANGED <<now, devices, seen, ended, cache, issued, tokens>>

\* extra: the others are there still, or another enrolment of the same device
\* goes on.  The client gets the certificate though its row is not written.
Enter(p) ==
  /\ Step(p) = "enter" /\ Continue(p)
  /\ \E s \in Serials, failed \in BOOLEAN :
       /\ Fails(failed)
       /\ issued[s] = NotIssued /\ \A r \in 1..(s - 1) : issued[r] # NotIssued
       /\ issued' = [issued EXCEPT ![s] = [login |-> req[p].login, uid |-> req[p].uid]]
       /\ certs' = [certs EXCEPT ![s] = IF failed THEN NoCert ELSE [login |-> req[p].login, uid |-> req[p].uid,
            extra |-> req[p].left \/ \E q \in Requests \ {p} : /\ Step(q) = "enter" /\ req[q].login = req[p].login
                                                               /\ req[q].uid = req[p].uid]]
  /\ UNCHANGED <<now, devices, seen, ended, cache, tokens>>

-----------------------------------------------------------------------------
(* The administrator. *)

Issue(p) ==
  /\ Step(p) = "issue" /\ Continue(p) /\ tokens' = [tokens EXCEPT ![req[p].login] = now]
  /\ UNCHANGED <<now, devices, seen, ended, cache, certs, issued, faults>>

\* Mutant: the row is taken from the cache.
RowToEditCached(l) == IF cache[l].value \in Device THEN cache[l].value ELSE devices[l]

RowToEdit(l) == devices[l]

ReadRow(p) ==
  /\ Step(p) = "read"
  /\ req' = [req EXCEPT ![p] = IF devices[req[p].target] = NoDevice THEN Idle
                               ELSE [Following(p) EXCEPT !.row = RowToEdit(req[p].target),
                                                         !.rowSeen = seen[req[p].target]]]
  /\ UNCHANGED <<now, devices, seen, ended, cache, certs, issued, tokens, faults>>

Replace(l, row) ==
  /\ devices' = [devices EXCEPT ![l] = [row EXCEPT !.ver = devices[l].ver + 1]]
  /\ ended' = [ended EXCEPT ![l][devices[l].ver] = now]

\* A password is hashed, which takes its time; then every column is written,
\* the one that makes an administrator as it was.
SaveRow(p) ==
  /\ Step(p) = "save" /\ seen' = [seen EXCEPT ![req[p].target] = req[p].rowSeen]
  /\ \E off \in BOOLEAN :
       Replace(req[p].target, [req[p].row EXCEPT !.disabled = off, !.pw = IF req[p].pw = "" THEN @ ELSE req[p].pw])
  /\ req' = [Race(req[p].target, req) EXCEPT ![p] = Idle]
  /\ UNCHANGED <<now, cache, certs, issued, tokens, faults>>

CreateRow(p) ==
  /\ Step(p) = "create" /\ Continue(p) /\ UNCHANGED <<now, seen, cache, certs, issued, tokens, faults>>
  /\ IF devices[req[p].target] # NoDevice THEN UNCHANGED <<devices, ended>>
     ELSE \E off, admin \in BOOLEAN :
            Replace(req[p].target, [ver |-> 0, disabled |-> off, admin |-> admin, pw |-> req[p].pw])

\* A statement that fails changes nothing, and the request goes on.  The row
\* that could not be read is an empty one, which is saved under no login.
StatementFails(p) ==
  /\ Step(p) \in {"touch", "keep", "read", "save", "create"} /\ Fails(TRUE)
  /\ req' = [req EXCEPT ![p] = IF Step(p) = "read" THEN Idle ELSE Following(p)]
  /\ UNCHANGED <<now, devices, seen, ended, cache, certs, issued, tokens>>

-----------------------------------------------------------------------------
\* No statement takes longer than MaxLoad.
TimePasses ==
  /\ now < MaxTime /\ now' = now + 1 /\ \A l \in Logins : cache[l].by # "" => now < cache[l].at + MaxLoad
  /\ UNCHANGED <<devices, seen, ended, cache, certs, issued, tokens, req, faults>>

\* The database stays; the key of the tokens is made anew.
Restart ==
  /\ "restart" \in Ops /\ cache' = [l \in Logins |-> NewEntry] /\ tokens' = [l \in Logins |-> Never]
  /\ req' = [p \in Requests |-> Idle] /\ UNCHANGED <<now, devices, seen, ended, certs, issued, faults>>

Work(p) == \/ Hit(p) \/ Miss(p) \/ Fill(p) \/ Touch(p) \/ Keep(p) \/ Forget(p) \/ Enter(p)
           \/ Issue(p) \/ ReadRow(p) \/ SaveRow(p) \/ CreateRow(p) \/ StatementFails(p)

Next ==
  \/ \E p \in Requests : \/ processTLSConn(p) \/ SSLCheckHandler(p) \/ getSignHandler(p) \/ getAdminTokenHandler(p)
                         \/ getApiDevicePutHandler(p) \/ getApiDevicePostHandler(p) \/ Work(p) \/ Close(p)
  \/ TimePasses \/ Restart

Spec == Init /\ [][Next]_vars

-----------------------------------------------------------------------------
(* Properties. *)

\* Whatever row a request goes by was the row of the device at most TTL and
\* the time of one statement before it was shown: a device that is disabled,
\* moved to another scope or created is noticed by then (cache.go:46).
StaleAtMost == \A p \in Requests : \A s \in DOMAIN req[p].saw :
  LET w == req[p].saw[s]
  IN w.at # Never /\ w.dev # Empty => ended[req[p].login][w.dev.ver] + TTL + MaxLoad >= w.at

\* A statement that fails gives an empty row, which is no disabled one: it
\* passes where a certificate does, and never where a password or an
\* administrator is asked for (query.go:50, user_repo_db.go:74).
FailureIsNoPassword == \A p \in Requests : req[p].saw["auth"].dev # Empty

\* A connection has the row of a device that is not disabled, unless it was
\* disabled after it was checked; never none, and never an older one
\* (tcpserver.go:118, 127).
AdmittedWereGood == \A p \in Requests : Step(p) = "connected" =>
  LET valid == req[p].saw["valid"].dev
      dev == req[p].saw["get"].dev
  IN /\ dev # NoDevice
     /\ dev.disabled => valid = Empty \/ dev.ver > valid.ver

\* Who is let in was looked up, and the answer was a device's.
LetInRightly == TypeOK /\ FailureIsNoPassword /\ AdmittedWereGood

\* A device has one certificate of each uid, except for those signed while
\* another was, those signed when the statement that deletes the others had
\* failed, and old ones that were used again (user_repo_db.go:115-126, 143).
OneCertPerUid == \A l \in Logins, u \in ProperUids :
  Cardinality({s \in Serials : certs[s].login = l /\ certs[s].uid = u /\ ~certs[s].extra}) <= 1

\* A password and a last connection are lost only when an edit that read the
\* row before overwrites them (admin_api.go:626, 644).
LostOnlyByOverlap == [][\A l \in Logins :
  seen'[l] < seen[l] \/ (devices[l] # NoDevice /\ devices'[l].pw # devices[l].pw) =>
    \E p \in Racing(l) : req[p].raced \/ (seen'[l] = seen[l] /\ devices'[l].pw = req[p].pw)]_vars
=============================================================================
