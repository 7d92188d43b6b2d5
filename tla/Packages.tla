------------------------------ MODULE Packages ------------------------------
(***************************************************************************)
(* Data packages and other files: rows in the resources table, contents in *)
(* the blob store, and the video feeds kept beside them.                   *)
(*                                                                         *)
(* A request is a process: it goes to the database and to the blob store   *)
(* in separate steps, others come between.  A body stands for its own      *)
(* SHA-256 hash, so a hash given by a client and the body it sends may     *)
(* differ.  The blob store has a lock, which an upload holds while the     *)
(* body comes in.                                                          *)
(***************************************************************************)
EXTENDS Naturals, FiniteSets

CONSTANTS Users, Scopes,
          Scope,       \* the scope of each user
          ReadScopes,  \* the other scopes each may read
          Bodies,      \* contents, and their hashes
          Hashes,      \* what clients give for a hash, the hashes among them
          Path,        \* the file a hash in a scope leads to (filepath.Join)
          Uids,        \* uids clients give, of files and of feeds
          Requests,    \* requests at work at the same time
          Ops,         \* operations the run looks at
          MaxUploads   \* bound: uploads begun

Ids == 1..MaxUploads
Keys == Scopes \X Bodies

ASSUME PackagesAssumption ==
  /\ Scope \in [Users -> Scopes] /\ ReadScopes \in [Users -> SUBSET Scopes]
  /\ Bodies \subseteq Hashes /\ Path \in [Scopes \X Hashes -> Keys] /\ \A k \in Keys : Path[k] = k
  /\ "" \notin Hashes \cup Uids \cup Scopes \cup Requests /\ MaxUploads \in Nat

VARIABLES
  rows,     \* the resources table, by id
  blobs,    \* the blob store: what each file holds
  temps,    \* an upload left its temporary file behind
  lock,     \* the upload that holds the lock of the blob store
  req,      \* what each request is doing
  uploads,  \* uploads begun
  lost,     \* keys of uploads whose row was not written
  feeds,    \* the feeds table, by uid
  ended     \* feeds deleted since they were last posted, and whether an
            \* edit went on or the feed was inactive then

fileVars == <<rows, blobs, temps, lock, uploads, lost>>
feedVars == <<feeds, ended>>
vars == <<fileVars, req, feedVars>>

\* hurt: the blob was deleted on behalf of another row.
Resource == [scope : Scopes, hash : Hashes, uid : Uids \cup {""}, zip : BOOLEAN, listed : BOOLEAN,
             hurt : BOOLEAN]
NoRow == [scope |-> "", hash |-> "", uid |-> "", zip |-> FALSE, listed |-> FALSE, hurt |-> FALSE]

Feed == [scope : Scopes, user : Users, active : BOOLEAN]
NoFeed == [scope |-> "", user |-> "", active |-> FALSE]

\* hash and uid are those of the query, row is what it found or makes.
Idle == [pc |-> "idle", op |-> "", user |-> "", hash |-> "", uid |-> "", body |-> "",
         id |-> 0, row |-> NoRow, feed |-> NoFeed, out |-> ""]

Working == {"put", "copy", "stalled", "list", "create", "open", "delete row", "delete blob", "save feed"}

TypeOK ==
  /\ rows \in [Ids -> Resource \cup {NoRow}] /\ blobs \in [Keys -> Bodies \cup {""}]
  /\ temps \in BOOLEAN /\ lock \in Requests \cup {""} /\ uploads \in 0..MaxUploads /\ lost \subseteq Keys
  /\ feeds \in [Uids -> Feed \cup {NoFeed}] /\ ended \in [Uids -> {"no", "yes", "excused"}]
  /\ \A p \in Requests :
       /\ req[p].pc \in Working \cup {"idle", "answer"} /\ req[p].user \in Users \cup {""}
       /\ req[p].hash \in Hashes \cup {""} /\ req[p].body \in Bodies \cup {""} /\ req[p].id \in Ids \cup {0}
       /\ req[p].row \in [scope : Scopes \cup {""}, hash : Hashes \cup {""}, uid : Uids \cup {""},
                          zip : BOOLEAN, listed : BOOLEAN, hurt : BOOLEAN]
       /\ req[p].feed \in Feed \cup {NoFeed} /\ req[p].out \in Bodies \cup {"", "not found"}
  /\ \A p \in Requests : req[p].pc \in {"copy", "stalled"} <=> lock = p

Init ==
  /\ rows = [i \in Ids |-> NoRow] /\ blobs = [k \in Keys |-> ""] /\ temps = FALSE /\ lock = ""
  /\ req = [p \in Requests |-> Idle] /\ uploads = 0 /\ lost = {}
  /\ feeds = [f \in Uids |-> NoFeed] /\ ended = [f \in Uids |-> "no"]

-----------------------------------------------------------------------------
Begin(p, op, r) == req[p].pc = "idle" /\ op \in Ops /\ req' = [req EXCEPT ![p] = r]
Goto(p, pc) == req' = [req EXCEPT ![p].pc = pc]
Done(p) == req' = [req EXCEPT ![p] = Idle]
Answer(p, out) == req' = [req EXCEPT ![p].pc = "answer", ![p].out = out]

\* No file has the empty name.
Key(scope, hash) == IF hash = "" THEN <<"", "">> ELSE Path[<<scope, hash>>]
Blob(p) == Key(req[p].row.scope, req[p].row.hash)

\* What a user may read; the scope "*" stands for all.
Where(u, hash, uid) ==
  {i \in Ids : /\ rows[i] # NoRow /\ hash \in {"", rows[i].hash} /\ uid \in {"", rows[i].uid}
               /\ rows[i].scope \in {Scope[u]} \cup ReadScopes[u]}

\* Not while an upload has the lock.
GetFile(scope, hash) == IF hash = "" \/ blobs[Key(scope, hash)] = "" THEN "not found" ELSE blobs[Key(scope, hash)]
Unlocked == lock = ""

-----------------------------------------------------------------------------
(* Uploads. *)

Upload(p, u, hash, uid, zip) ==
  \E body \in Bodies :
    /\ uploads < MaxUploads /\ uploads' = uploads + 1
    /\ Begin(p, "upload", [Idle EXCEPT !.pc = "put", !.op = "upload", !.user = u, !.hash = hash, !.body = body,
         !.id = uploads + 1, !.row = [NoRow EXCEPT !.scope = Scope[u], !.uid = uid, !.zip = zip]])
    /\ UNCHANGED <<rows, blobs, temps, lock, lost, feedVars>>

\* The form has arrived when its file is stored, and its hash is given.
getMissionUploadHandler(p, u) == \E hash \in Hashes, zip \in BOOLEAN : Upload(p, u, hash, "", zip)

\* Everything else is stored as it comes in, forms too, envelope and all.
getUploadHandler(p, u) == \E uid \in Uids \cup {""}, zip \in BOOLEAN : Upload(p, u, "", uid, zip)

\* Mutant: a file of any scope will do.
KnownAnywhere(p) == req[p].hash # "" /\ \E s \in Scopes : blobs[Key(s, req[p].hash)] # ""

Known(p) == req[p].hash # "" /\ blobs[Key(req[p].row.scope, req[p].hash)] # ""
AfterPut(p, hash) == req' = [req EXCEPT ![p].row.hash = hash, ![p].pc = "list"]

\* A file known by the hash given is not read.
PutKnown(p) ==
  /\ req[p].pc = "put" /\ Unlocked /\ Known(p) /\ AfterPut(p, req[p].hash)
  /\ UNCHANGED <<fileVars, feedVars>>

PutBegin(p) ==
  /\ req[p].pc = "put" /\ Unlocked /\ ~Known(p) /\ lock' = p /\ Goto(p, "copy")
  /\ UNCHANGED <<rows, blobs, temps, uploads, lost, feedVars>>

\* Mutant: the file gets the name the client gave, its hash is not compared.
StoredAsGiven(p) == IF req[p].hash = "" THEN req[p].body ELSE req[p].hash

\* The name of the file, if it is the one given.
StoredAs(p) == IF req[p].hash \in {"", req[p].body} THEN req[p].body ELSE ""

PutEnds(p) ==
  /\ req[p].pc = "copy" /\ StoredAs(p) # "" /\ lock' = "" /\ AfterPut(p, StoredAs(p))
  /\ blobs' = [blobs EXCEPT ![Key(req[p].row.scope, StoredAs(p))] = req[p].body]
  /\ UNCHANGED <<rows, temps, uploads, lost, feedVars>>

\* Mutant: the lock is not released on an error.
PutFailsLocked(p) ==
  /\ req[p].pc \in {"copy", "stalled"} /\ Done(p) /\ temps' = TRUE
  /\ UNCHANGED <<rows, blobs, lock, uploads, lost, feedVars>>

\* The body breaks off, the disk is full, the hash is another, or the file
\* cannot be renamed: the temporary file stays.
PutFails(p) ==
  /\ req[p].pc \in {"copy", "stalled"} /\ lock' = "" /\ Done(p) /\ temps' = TRUE
  /\ UNCHANGED <<rows, blobs, uploads, lost, feedVars>>

\* The peer of a streamed body falls silent, and the lock is held.
Stall(p) ==
  /\ req[p].pc = "copy" /\ req[p].hash = "" /\ Goto(p, "stalled")
  /\ UNCHANGED <<fileVars, feedVars>>

\* The entries of a zip file are read from the store again.
ListFiles(p) ==
  /\ req[p].pc = "list" /\ Unlocked
  /\ req' = [req EXCEPT ![p].pc = "create",
               ![p].row.listed = req[p].row.zip /\ GetFile(req[p].row.scope, req[p].row.hash) # "not found"]
  /\ UNCHANGED <<fileVars, feedVars>>

Taken(uid) == uid # "" /\ \E i \in Ids : rows[i] # NoRow /\ rows[i].uid = uid

\* A row without a uid gets a random one; no id is given twice.
Create(p) ==
  /\ req[p].pc = "create" /\ ~Taken(req[p].row.uid) /\ Done(p)
  /\ rows' = [rows EXCEPT ![req[p].id] = req[p].row]
  /\ UNCHANGED <<blobs, temps, lock, uploads, lost, feedVars>>

\* The uid is taken, or the database fails: the file stays.
CreateFails(p) ==
  /\ req[p].pc = "create" /\ Done(p) /\ lost' = lost \cup {Blob(p)}
  /\ UNCHANGED <<rows, blobs, temps, lock, uploads, feedVars>>

-----------------------------------------------------------------------------
(* Downloads and the administrator. *)

Find(p, op, u, ids, pc, hash) ==
  \E i \in ids : Begin(p, op, [Idle EXCEPT !.pc = pc, !.op = op, !.user = u, !.hash = hash, !.id = i,
                                !.row = rows[i]]) /\ UNCHANGED <<fileVars, feedVars>>

\* By uid alone a row is found, and no file: the store is asked for the hash
\* of the query.
getContentGetHandler(p, u) ==
  \E hash \in Hashes \cup {""}, uid \in Uids \cup {""} :
    <<hash, uid>> # <<"", "">> /\ Find(p, "content", u, Where(u, hash, uid), "open", hash)

getApiFileHandler(p) == Find(p, "file", "", {i \in Ids : rows[i] # NoRow}, "open", "")
getApiZipFileHandler(p) == Find(p, "file", "", {i \in Ids : rows[i].zip}, "open", "")

Open(p) ==
  /\ req[p].pc = "open" /\ Unlocked
  /\ Answer(p, GetFile(req[p].row.scope, IF req[p].op = "content" THEN req[p].hash ELSE req[p].row.hash))
  /\ UNCHANGED <<fileVars, feedVars>>

Answered(p) == req[p].pc = "answer" /\ Done(p) /\ UNCHANGED <<fileVars, feedVars>>

getApiFileDeleteHandler(p) == Find(p, "delete", "", {i \in Ids : rows[i] # NoRow}, "delete row", "")

DeleteRow(p) ==
  /\ req[p].pc = "delete row" /\ Goto(p, "delete blob")
  /\ rows' = [rows EXCEPT ![req[p].id] = NoRow]
  /\ UNCHANGED <<blobs, temps, lock, uploads, lost, feedVars>>

BlobOf(p) == Blob(p)

\* Other rows may name the file.
DeleteBlob(p) ==
  /\ req[p].pc = "delete blob" /\ Unlocked
  /\ blobs' = [blobs EXCEPT ![BlobOf(p)] = ""] /\ lost' = lost \ {BlobOf(p)}
  /\ rows' = [i \in Ids |-> IF Key(rows[i].scope, rows[i].hash) = BlobOf(p) THEN [rows[i] EXCEPT !.hurt = TRUE]
                            ELSE rows[i]]
  /\ req' = [q \in Requests |-> IF q = p THEN Idle
               ELSE IF req[q].pc \in {"list", "create"} /\ Blob(q) = BlobOf(p) THEN [req[q] EXCEPT !.row.hurt = TRUE]
               ELSE req[q]]
  /\ UNCHANGED <<temps, lock, uploads, feedVars>>

-----------------------------------------------------------------------------
(* Video feeds. *)

SaveFeed(f, row) == feeds' = [feeds EXCEPT ![f] = row]

\* A row of the uid is replaced, whatever its scope.
getVideoPostHandler(u, f) ==
  /\ "feeds" \in Ops /\ SaveFeed(f, [scope |-> Scope[u], user |-> u, active |-> TRUE])
  /\ ended' = [ended EXCEPT ![f] = "no"] /\ UNCHANGED <<fileVars, req>>

\* The administrator's creates a row.
getApiFeedPostHandler(u, f) ==
  /\ "feeds" \in Ops /\ feeds[f] = NoFeed /\ ended' = [ended EXCEPT ![f] = "no"]
  /\ \E s \in Scopes, a \in BOOLEAN : SaveFeed(f, [scope |-> s, user |-> u, active |-> a])
  /\ UNCHANGED <<fileVars, req>>

FeedFound(f) == feeds[f] # NoFeed

\* An edit reads the row, then writes all of it.
getApiFeedPutHandler(p, f) ==
  /\ FeedFound(f)
  /\ Begin(p, "feeds", [Idle EXCEPT !.pc = "save feed", !.op = "feeds", !.uid = f, !.feed = feeds[f]])
  /\ UNCHANGED <<fileVars, feedVars>>

FeedPutSaves(p) ==
  /\ req[p].pc = "save feed" /\ Done(p)
  /\ \E s \in Scopes, a \in BOOLEAN : SaveFeed(req[p].uid, [req[p].feed EXCEPT !.scope = s, !.active = a])
  /\ UNCHANGED <<fileVars, ended>>

\* The condition on active is the query's default: an inactive feed stays.
Deleted(f) == feeds[f].active

Editing(f) == \E p \in Requests : req[p].pc = "save feed" /\ req[p].uid = f

getApiFeedDeleteHandler(f) ==
  /\ "feeds" \in Ops /\ FeedFound(f)
  /\ feeds' = IF Deleted(f) THEN [feeds EXCEPT ![f] = NoFeed] ELSE feeds
  /\ ended' = [ended EXCEPT ![f] = IF Editing(f) \/ ~feeds[f].active THEN "excused" ELSE "yes"]
  /\ UNCHANGED <<fileVars, req>>

-----------------------------------------------------------------------------
Store(p) == PutKnown(p) \/ PutBegin(p) \/ PutEnds(p) \/ PutFails(p)
Work(p) == \/ Store(p) \/ ListFiles(p) \/ Create(p) \/ CreateFails(p)
           \/ Open(p) \/ Answered(p) \/ DeleteRow(p) \/ DeleteBlob(p) \/ FeedPutSaves(p)

Next ==
  \/ \E p \in Requests, u \in Users :
       getMissionUploadHandler(p, u) \/ getUploadHandler(p, u) \/ getContentGetHandler(p, u)
  \/ \E p \in Requests : \/ Work(p) \/ Stall(p)
                         \/ getApiFileHandler(p) \/ getApiZipFileHandler(p) \/ getApiFileDeleteHandler(p)
  \/ \E f \in Uids : \/ \E u \in Users : getVideoPostHandler(u, f) \/ getApiFeedPostHandler(u, f)
                     \/ \E p \in Requests : getApiFeedPutHandler(p, f)
                     \/ getApiFeedDeleteHandler(f)

Spec == Init /\ [][Next]_vars

\* Handlers run, and the lock is fair to those who wait for it (sync.RWMutex).
Fairness == \A p \in Requests : /\ SF_vars(Work(p) /\ req[p].pc # "stalled")
                                /\ WF_vars(Answered(p))
FairSpec == Spec /\ Fairness

-----------------------------------------------------------------------------
(* Properties. *)

\* A file a row names is in the store, unless it was deleted for another row
\* of the same file while this one was there or about to be written
\* (admin_api.go:545, marti_api.go:280).
RowsHaveFiles == \A i \in Ids : rows[i] # NoRow /\ ~rows[i].hurt => blobs[Key(rows[i].scope, rows[i].hash)] # ""

\* A file no row names belongs to a request that goes on, or to one whose row
\* could not be written (marti_api.go:321, 361).
FilesHaveRows == \A k \in Keys : blobs[k] # "" =>
  \/ k \in lost
  \/ \E i \in Ids : Key(rows[i].scope, rows[i].hash) = k
  \/ \E p \in Requests : req[p].pc \in {"list", "create", "delete blob"} /\ Blob(p) = k

\* Whoever uploads under a hash and whatever is deleted and uploaded between
\* the row and the file: who asks for a hash gets the content of that hash,
\* from a scope the user may read (blob_manager.go:158, marti_api.go:378).  A
\* name that is no hash is not checked: it gets the file its path leads to, of
\* whichever scope.
AnswersAreRight == \A p \in Requests :
  req[p].pc = "answer" /\ req[p].op = "content" /\ req[p].out # "not found" =>
    LET file == Key(req[p].row.scope, req[p].hash)
    IN /\ req[p].out = file[2]
       /\ req[p].hash \in Bodies =>
            req[p].out = req[p].hash /\ file[1] \in {Scope[req[p].user]} \cup ReadScopes[req[p].user]

\* A feed that was deleted stays so, unless it was inactive or somebody edited
\* it at that moment (feed_query.go:95, admin_api.go:826).
DeletedFeedsStay == \A f \in Uids : ended[f] = "yes" => feeds[f] = NoFeed

\* The tables, and the store beside them, say what was uploaded and deleted.
StoreAgrees == TypeOK /\ RowsHaveFiles /\ FilesHaveRows /\ DeletedFeedsStay

\* Every request is done in the end, unless the peer of an upload holds the
\* lock of the store (blob_manager.go:152).
RequestsFinish == \A p \in Requests :
  req[p].pc # "idle" ~> req[p].pc = "idle" \/ \E q \in Requests : req[q].pc = "stalled"
=============================================================================
