--------------------------- MODULE PackagesProofs ---------------------------
(***************************************************************************)
(* Packages, for any number of users, bodies, requests and uploads: the    *)
(* table of files, the store beside it and the feeds agree, and who asks   *)
(* for a hash is given the content of that hash.                           *)
(***************************************************************************)
EXTENDS Packages, TLAPS
-----------------------------------------------------------------------------
Readable(u) == {Scope[u]} \cup ReadScopes[u]

\* What a request carries, and what its place says about it.
Row == [scope : Scopes \cup {""}, hash : Hashes \cup {""}, uid : Uids \cup {""},
        zip : BOOLEAN, listed : BOOLEAN, hurt : BOOLEAN]
Places == Working \cup {"idle", "answer"}
Calls == {"", "upload", "content", "file", "delete", "feeds"}
Outs == Bodies \cup {"", "not found"}
Request ==
  [pc : Places, op : Calls,
   user : Users \cup {""}, hash : Hashes \cup {""}, uid : Uids \cup {""}, body : Bodies \cup {""},
   id : Ids \cup {0}, feed : Feed \cup {NoFeed}, out : Outs, row : Row]

Storing == {"put", "copy", "stalled"}
Uploading == Storing \cup {"list", "create"}
HasId == Uploading \cup {"delete row"}

Fits(r) ==
  /\ r.pc \in Uploading => r.id \in Ids /\ r.row.scope \in Scopes /\ r.body \in Bodies
  /\ r.pc \in Storing => ~r.row.hurt
  /\ r.pc \in {"list", "create"} => r.row.hash \in Hashes
  /\ r.pc = "delete row" => r.id \in Ids
  /\ r.pc \in {"open", "delete row", "delete blob"} => r.row \in Resource
  /\ r.pc = "save feed" => r.uid \in Uids /\ r.feed \in Feed
  /\ r.pc \in {"open", "answer"} /\ r.op = "content" => r.row.scope \in Scopes \cap Readable(r.user)
  /\ r.pc = "answer" /\ r.op = "content" /\ r.out # "not found" => r.out = Key(r.row.scope, r.hash)[2]

RequestsFit == req \in [Requests -> Request] /\ \A p \in Requests : Fits(req[p])

\* An upload has an id of its own, at which no row is yet; a row that is to be
\* deleted is the one that was found, or gone.
IdsApart ==
  /\ \A i \in Ids : rows[i] # NoRow => i <= uploads
  /\ \A p \in Requests : req[p].pc \in Uploading => req[p].id <= uploads /\ rows[req[p].id] = NoRow
  /\ \A p, q \in Requests :
       req[p].pc \in Uploading /\ req[q].pc \in HasId /\ req[p].id = req[q].id
         => p = q
  /\ \A p \in Requests : req[p].pc = "delete row" =>
       /\ req[p].id <= uploads
       /\ LET row == rows[req[p].id] IN row = NoRow \/ Key(row.scope, row.hash) = Blob(p)

\* A hash in a scope names a file, and no other; the empty name does not.
LEMMA KeyTyped ==
  /\ \A scope \in Scopes, hash \in Hashes : Key(scope, hash) \in Keys
  /\ \A scope \in Scopes, hash \in Bodies : Key(scope, hash) = <<scope, hash>>
  /\ \A scope : Key(scope, "") \notin Keys
  /\ Bodies \subseteq Hashes /\ "" \notin Hashes
<1>1. /\ Bodies \subseteq Hashes /\ Path \in [Scopes \X Hashes -> Keys] /\ \A k \in Keys : Path[k] = k
      /\ "" \notin Hashes /\ "" \notin Bodies
  BY PackagesAssumption DEF PackagesAssumption
<1>2. \A scope \in Scopes, hash \in Hashes : Key(scope, hash) = Path[<<scope, hash>>]
  BY <1>1 DEF Key
<1>3. \A scope \in Scopes, hash \in Bodies : Key(scope, hash) = <<scope, hash>>
  <2>1. \A scope \in Scopes, hash \in Bodies : <<scope, hash>> \in Keys
    BY DEF Keys
  <2> QED
    BY <1>1, <1>2, <2>1
<1>4. \A scope : Key(scope, "") \notin Keys
  <2>1. "" \notin Scopes
    BY PackagesAssumption DEF PackagesAssumption
  <2>2. \A scope : Key(scope, "") = <<"", "">>
    BY DEF Key
  <2>3. \A k \in Keys : k[1] \in Scopes
    BY DEF Keys
  <2>4. <<"", "">>[1] = ""
    OBVIOUS
  <2> QED
    BY <2>1, <2>2, <2>3, <2>4, Zenon
<1> QED
  BY <1>1, <1>2, <1>3, <1>4

\* A row leads to a file; no row, no file.
LEMMA RowKeys ==
  /\ \A row \in Resource : Key(row.scope, row.hash) \in Keys
  /\ Key(NoRow.scope, NoRow.hash) \notin Keys
<1>1. NoRow.hash = ""
  BY DEF NoRow
<1>2. \A row \in Resource : row.scope \in Scopes /\ row.hash \in Hashes
  BY DEF Resource
<1> QED
  BY <1>1, <1>2, KeyTyped

\* A file holds what its name says.
BlobsTrue == \A k \in Keys : blobs[k] \in {"", k[2]}

\* The file of a row about to be written is there, as RowsHaveFiles has it.
FilesWait == \A p \in Requests :
  req[p].pc \in {"list", "create"} /\ ~req[p].row.hurt => blobs[Blob(p)] # ""

\* Nobody edits a feed that was deleted for good.
NobodyEdits == \A f \in Uids : ended[f] = "yes" => ~Editing(f)

\* The inductive invariant.
IInv == /\ TypeOK /\ RequestsFit /\ IdsApart /\ BlobsTrue /\ FilesWait /\ NobodyEdits
        /\ RowsHaveFiles /\ FilesHaveRows /\ DeletedFeedsStay
-----------------------------------------------------------------------------
(* Steps of one request that write no row. *)

KeyOf(r) == Key(r.row.scope, r.row.hash)
Names == {"list", "create", "delete blob"}   \* places where a request keeps a file

\* What p may turn into without writing a row.
Moves(p, r) ==
  /\ r.pc \in Uploading => \/ req[p].pc \in Uploading /\ r.id = req[p].id
                           \/ uploads' = uploads + 1 /\ r.id = uploads'
  /\ r.pc = "delete row" => r.id <= uploads /\ rows[r.id] # NoRow /\ r.row = rows[r.id]
  /\ r.pc \in {"list", "create"} /\ ~r.row.hurt => blobs'[KeyOf(r)] # ""
  /\ r.pc = "save feed" => ended[r.uid] # "yes"
  /\ r.pc \in {"copy", "stalled"} <=> lock' = p
  /\ req[p].pc \in Names => (r.pc \in Names /\ KeyOf(r) = Blob(p)) \/ Blob(p) \in lost'

\* What the step may do to the tables: the file it adds is that of r.
TablesMove(p, r) ==
  /\ rows' = rows /\ ended' = ended /\ uploads' \in {uploads, uploads + 1}
  /\ \A k \in Keys : blobs'[k] = blobs[k] \/ (k = KeyOf(r) /\ r.pc \in Names /\ blobs'[k] = k[2])
  /\ \A f \in Uids : feeds'[f] = feeds[f] \/ ended[f] # "yes"
  /\ lock' = lock \/ (lock \in {p, ""} /\ lock' \in {p, ""})
  /\ lost \subseteq lost'

\* The step turns p into r and leaves the others as they are.
Becomes(p, r) == RequestsFit' /\ req'[p] = r /\ \A q \in Requests : q # p => req'[q] = req[q]

\* A request that goes on keeps the others as they are.
LEMMA RequestChanges ==
  ASSUME RequestsFit, NEW p \in Requests, NEW r \in Request, Fits(r), req' = [req EXCEPT ![p] = r]
  PROVE  Becomes(p, r)
<1>1. req' \in [Requests -> Request]
  BY DEF RequestsFit
<1>2. \A q \in Requests : req'[q] = IF q = p THEN r ELSE req[q]
  BY DEF RequestsFit
<1> QED
  BY <1>1, <1>2 DEF RequestsFit, Becomes

\* The part of TypeOK that is about requests follows from RequestsFit.
TablesOK ==
  /\ rows \in [Ids -> Resource \cup {NoRow}] /\ blobs \in [Keys -> Bodies \cup {""}]
  /\ temps \in BOOLEAN /\ lock \in Requests \cup {""} /\ uploads \in 0..MaxUploads /\ lost \subseteq Keys
  /\ feeds \in [Uids -> Feed \cup {NoFeed}] /\ ended \in [Uids -> {"no", "yes", "excused"}]
LockHeld == \A p \in Requests : req[p].pc \in {"copy", "stalled"} <=> lock = p

\* TypeOK is its part about the tables, and who holds the lock, once the
\* requests fit; the same holds after a step.
LEMMA TypeParts == RequestsFit => (TypeOK <=> TablesOK /\ LockHeld)
<1> SUFFICES ASSUME RequestsFit PROVE TypeOK <=> TablesOK /\ LockHeld
  OBVIOUS
<1>1. \A p \in Requests :
       /\ req[p].pc \in Working \cup {"idle", "answer"} /\ req[p].user \in Users \cup {""}
       /\ req[p].hash \in Hashes \cup {""} /\ req[p].body \in Bodies \cup {""} /\ req[p].id \in Ids \cup {0}
       /\ req[p].row \in Row
       /\ req[p].feed \in Feed \cup {NoFeed} /\ req[p].out \in Bodies \cup {"", "not found"}
  BY DEF RequestsFit, Request, Places, Calls, Outs
<1> QED
  BY <1>1 DEF TypeOK, TablesOK, LockHeld, Row

\* The type invariant in the next state, part by part.
LEMMA TypePartsAfter == RequestsFit' => (TypeOK' <=> TablesOK' /\ LockHeld')
<1> SUFFICES ASSUME RequestsFit' PROVE TypeOK' <=> TablesOK' /\ LockHeld'
  OBVIOUS
<1>1. \A p \in Requests :
       /\ req'[p].pc \in Working \cup {"idle", "answer"} /\ req'[p].user \in Users \cup {""}
       /\ req'[p].hash \in Hashes \cup {""} /\ req'[p].body \in Bodies \cup {""} /\ req'[p].id \in Ids \cup {0}
       /\ req'[p].row \in Row
       /\ req'[p].feed \in Feed \cup {NoFeed} /\ req'[p].out \in Bodies \cup {"", "not found"}
  BY DEF RequestsFit, Request, Places, Calls, Outs
<1> QED
  BY <1>1 DEF TypeOK, TablesOK, LockHeld, Row

\* A step of one request that writes no row: an upload gets a fresh id, a file
\* that comes is true to its name and has a request that names it.
LEMMA RequestMoves ==
  ASSUME IInv, NEW p \in Requests, NEW r, Becomes(p, r), Moves(p, r), TablesMove(p, r), TablesOK'
  PROVE  IInv'
<1>1. RequestsFit' /\ req'[p] = r /\ \A q \in Requests : q # p => req'[q] = req[q]
  BY DEF Becomes
<1>2. TablesOK /\ LockHeld
  BY TypeParts DEF IInv
<1>u. rows' = rows /\ ended' = ended /\ uploads' \in {uploads, uploads + 1}
  BY DEF TablesMove
<1>n. MaxUploads \in Nat /\ uploads \in Nat /\ uploads' \in Nat /\ uploads <= uploads'
  <2>1. MaxUploads \in Nat
    BY PackagesAssumption DEF PackagesAssumption
  <2>2. uploads \in 0..MaxUploads
    BY <1>2 DEF TablesOK
  <2> QED
    BY <2>1, <2>2, <1>u
<1>4. LockHeld'
  <2>1. p # ""
    BY PackagesAssumption DEF PackagesAssumption
  <2>2. r.pc \in {"copy", "stalled"} <=> lock' = p
    BY DEF Moves
  <2>3. ASSUME NEW q \in Requests PROVE req'[q].pc \in {"copy", "stalled"} <=> lock' = q
    <3>1. CASE q = p
      BY <3>1, <2>2, <1>1
    <3>2. CASE q # p
      <4>1. req'[q] = req[q]
        BY <3>2, <1>1
      <4>2. (lock = q) <=> (lock' = q)
        <5>1. q # ""
          BY PackagesAssumption DEF PackagesAssumption
        <5> QED
          BY <5>1, <3>2, <2>1 DEF TablesMove
      <4> QED
        BY <4>1, <4>2, <1>2 DEF LockHeld
    <3> QED
      BY <3>1, <3>2
  <2> QED
    BY <2>3 DEF LockHeld
<1>h. \A c : c \in HasId <=> c \in Uploading \/ c = "delete row"
  BY DEF HasId
<1>5. IdsApart'
  <2>1. IdsApart
    BY DEF IInv
  <2>0. \A q \in Requests : req[q].pc \in HasId => req[q].id \in Nat /\ req[q].id <= uploads
    <3> SUFFICES ASSUME NEW q \in Requests, req[q].pc \in HasId
                 PROVE  req[q].id \in Nat /\ req[q].id <= uploads
      OBVIOUS
    <3>1. req[q].id \in Ids
      BY <1>h DEF IInv, RequestsFit, Fits
    <3>2. req[q].id \in Nat
      BY <3>1, <1>n DEF Ids
    <3>3. req[q].id <= uploads
      BY <2>1, <1>h DEF IdsApart
    <3> QED
      BY <3>2, <3>3
  <2>a. r.pc \in HasId => r.id \in Ids
    BY <1>1, <1>h DEF RequestsFit, Fits
  <2>b. \A i \in Ids : i \in Nat /\ (i <= uploads => i <= uploads')
    BY <1>n DEF Ids
  <2>c. ASSUME r.id = uploads', uploads' = uploads + 1 PROVE ~(r.id <= uploads) /\ r.id <= uploads'
    BY <2>c, <1>n
  <2>d. \A i \in Ids : rows[i] # NoRow => i <= uploads
    BY <2>1 DEF IdsApart
  <2>e. r.pc \in Uploading => \/ req[p].pc \in Uploading /\ r.id = req[p].id
                              \/ ~(r.id <= uploads) /\ r.id <= uploads'
    BY <2>c DEF Moves
  <2>2. ASSUME r.pc \in Uploading PROVE r.id <= uploads' /\ rows[r.id] = NoRow
    <3>1. r.id \in Ids
      BY <2>2, <2>a, <1>h
    <3>2. CASE req[p].pc \in Uploading /\ r.id = req[p].id
      <4>1. r.id <= uploads /\ rows[r.id] = NoRow
        BY <3>2, <2>1 DEF IdsApart
      <4> QED
        BY <4>1, <3>1, <2>b
    <3>3. CASE ~(r.id <= uploads) /\ r.id <= uploads'
      BY <3>1, <3>3, <2>d
    <3> QED
      BY <2>2, <2>e, <3>2, <3>3
  <2>3. ASSUME NEW a \in Requests, NEW b \in Requests, req'[a].pc \in Uploading,
               req'[b].pc \in HasId, req'[a].id = req'[b].id
        PROVE  a = b
    <3>1. CASE a # p /\ b # p
      BY <3>1, <2>1, <2>3, <1>1 DEF IdsApart
    <3>2. CASE a = p /\ b # p
      <4>0. r.pc \in Uploading /\ r.id = req[b].id /\ req[b].pc \in HasId
        BY <3>2, <2>3, <1>1
      <4>1. req[p].pc \in Uploading /\ r.id = req[p].id
        BY <4>0, <2>0, <2>e
      <4> QED
        BY <4>0, <4>1, <2>1, <3>2 DEF IdsApart
    <3>3. CASE a # p /\ b = p
      <4>0. r.id = req[a].id /\ req[a].pc \in Uploading /\ r.pc \in HasId
        BY <3>3, <2>3, <1>1
      <4>1. CASE r.pc \in Uploading
        <5>1. req[p].pc \in Uploading /\ r.id = req[p].id
          BY <4>0, <4>1, <2>0, <2>e, <1>h
        <5> QED
          BY <5>1, <4>0, <3>3, <2>1, <1>h DEF IdsApart
      <4>2. CASE r.pc = "delete row"
        <5>1. rows[r.id] = NoRow
          BY <4>0, <3>3, <2>1 DEF IdsApart
        <5> QED
          BY <5>1, <4>2 DEF Moves
      <4> QED
        BY <4>0, <4>1, <4>2, <1>h
    <3> QED
      BY <3>1, <3>2, <3>3
  <2>4. ASSUME NEW a \in Requests, req'[a].pc = "delete row"
        PROVE  /\ req'[a].id <= uploads'
               /\ LET row == rows[req'[a].id] IN row = NoRow \/ Key(row.scope, row.hash) = KeyOf(req'[a])
    <3>1. /\ req'[a].id <= uploads
          /\ LET row == rows[req'[a].id] IN row = NoRow \/ Key(row.scope, row.hash) = KeyOf(req'[a])
      BY <2>1, <2>4, <1>1 DEF IdsApart, Moves, KeyOf, Blob
    <3>2. req'[a].id \in Ids
      BY <2>4, <1>1 DEF RequestsFit, Fits, Ids
    <3> QED
      BY <3>1, <3>2, <2>b
  <2>5. \A i \in Ids : rows'[i] # NoRow => i <= uploads'
    BY <2>d, <2>b, <1>u
  <2>6. ASSUME NEW a \in Requests, req'[a].pc \in Uploading
        PROVE  req'[a].id <= uploads' /\ rows'[req'[a].id] = NoRow
    <3>1. CASE a = p
      BY <3>1, <2>6, <2>2, <1>1, <1>u
    <3>2. CASE a # p
      <4>1. req'[a] = req[a] /\ req[a].id <= uploads /\ rows[req[a].id] = NoRow
        BY <3>2, <2>6, <2>1, <1>1 DEF IdsApart
      <4>2. req'[a].id \in Ids
        BY <2>6, <1>1 DEF RequestsFit, Fits, Ids
      <4> QED
        BY <4>1, <4>2, <2>b, <1>u
    <3> QED
      BY <3>1, <3>2
  <2> QED
    BY <2>3, <2>4, <2>5, <2>6, <1>u DEF IdsApart, KeyOf, Blob, Ids
<1>6. \A k \in Keys : blobs[k] # "" => blobs'[k] # ""
  BY PackagesAssumption DEF TablesMove, Keys, PackagesAssumption
<1>7. BlobsTrue'
  BY DEF IInv, BlobsTrue, TablesMove, Keys
<1>8. RowsHaveFiles'
  <2> SUFFICES ASSUME NEW i \in Ids, rows[i] # NoRow, ~rows[i].hurt
               PROVE  blobs'[Key(rows[i].scope, rows[i].hash)] # ""
    BY <1>u DEF RowsHaveFiles, Ids
  <2>1. Key(rows[i].scope, rows[i].hash) \in Keys
    BY <1>2, RowKeys DEF TablesOK
  <2> QED
    BY <2>1, <1>6 DEF IInv, RowsHaveFiles
<1>9. FilesWait'
  <2> SUFFICES ASSUME NEW q \in Requests, q # p, req[q].pc \in {"list", "create"}, ~req[q].row.hurt
               PROVE  blobs'[Blob(q)] # ""
    BY <1>1 DEF FilesWait, Moves, KeyOf, Blob
  <2>1. Blob(q) \in Keys
    BY KeyTyped DEF IInv, RequestsFit, Fits, Uploading, Blob
  <2> QED
    BY <2>1, <1>6 DEF IInv, FilesWait
<1>10. NobodyEdits' /\ DeletedFeedsStay'
  BY <1>1, <1>u DEF IInv, NobodyEdits, Editing, Moves, DeletedFeedsStay, TablesMove
<1>11. FilesHaveRows'
  <2> SUFFICES ASSUME NEW k \in Keys, blobs'[k] # "", k \notin lost', ~ \E i \in Ids : Key(rows[i].scope, rows[i].hash) = k
               PROVE  \E q \in Requests : req'[q].pc \in Names /\ KeyOf(req'[q]) = k
    BY <1>u DEF FilesHaveRows, Names, KeyOf, Blob, Keys, Ids
  <2>1. CASE blobs'[k] # blobs[k]
    BY <2>1, <1>1 DEF TablesMove
  <2>2. CASE blobs[k] # ""
    <3>1. PICK q \in Requests : req[q].pc \in Names /\ Blob(q) = k
      BY <2>2 DEF IInv, FilesHaveRows, Names, TablesMove
    <3> QED
      BY <3>1, <1>1 DEF Moves, KeyOf, Blob
  <2> QED
    BY <2>1, <2>2
<1> QED
  <2>1. TypeOK'
    BY <1>1, <1>4, TypePartsAfter
  <2> QED
    BY <2>1, <1>1, <1>5, <1>7, <1>8, <1>9, <1>10, <1>11 DEF IInv

\* The same for the steps that leave the store and the feeds alone too.
LEMMA QuietMoves ==
  ASSUME IInv, NEW p \in Requests, NEW r, Becomes(p, r), Moves(p, r),
         UNCHANGED <<rows, blobs, uploads, feedVars>>, temps' \in BOOLEAN,
         lock' = lock \/ (lock \in {p, ""} /\ lock' \in {p, ""}), lost \subseteq lost', lost' \subseteq Keys
  PROVE  IInv'
<1>1. TablesOK'
  BY TypeParts DEF IInv, TablesOK, Ids, Keys, feedVars
<1>2. TablesMove(p, r)
  BY DEF TablesMove, feedVars
<1> QED
  BY <1>1, <1>2, RequestMoves

\* What is known of a request in its place.
LEMMA RequestFacts ==
  ASSUME IInv, NEW p \in Requests
  PROVE  /\ RequestsFit /\ TablesOK /\ LockHeld /\ req[p] \in Request /\ Fits(req[p])
         /\ Requests' = Requests /\ p # ""
BY TypeParts, PackagesAssumption DEF IInv, RequestsFit, PackagesAssumption

\* A request that is idle carries nothing.
LEMMA IdleFits == Idle \in Request /\ Fits(Idle)
BY DEF Idle, NoRow, Request, Places, Calls, Outs, Row, Working, Fits, Uploading, Storing

\* What reading a list of entries, and giving an answer, make of a request.
LEMMA ListedFits ==
  ASSUME NEW q \in Request, NEW c \in BOOLEAN
  PROVE  LET r == [q EXCEPT !.pc = "create", !.row.listed = c]
         IN /\ r \in Request /\ r.pc = "create" /\ r.row.hash = q.row.hash /\ r.row.scope = q.row.scope
            /\ r.id = q.id /\ r.body = q.body /\ r.row.hurt = q.row.hurt
<1> DEFINE r == [q EXCEPT !.pc = "create", !.row.listed = c]
<1>1. [q.row EXCEPT !.listed = c] \in Row
  BY DEF Request, Places, Calls, Outs, Row
<1>2. r \in Request
  BY <1>1 DEF Request, Places, Calls, Outs, Working
<1>3. /\ r.pc = "create" /\ r.row.hash = q.row.hash /\ r.row.scope = q.row.scope
      /\ r.id = q.id /\ r.body = q.body /\ r.row.hurt = q.row.hurt
  BY DEF Request, Places, Calls, Outs, Row
<1> QED
  BY <1>2, <1>3

\* A request that goes on to another place.
LEMMA PlaceFits == ASSUME NEW q \in Request, NEW at \in Places PROVE [q EXCEPT !.pc = at] \in Request
BY DEF Request

\* A request that is about to answer.
LEMMA AnswerFits ==
  ASSUME NEW q \in Request, NEW o \in Bodies \cup {"not found"}
  PROVE  LET r == [q EXCEPT !.pc = "answer", !.out = o]
         IN /\ r \in Request /\ r.pc = "answer" /\ r.op = q.op /\ r.row = q.row
            /\ r.user = q.user /\ r.out = o /\ r.hash = q.hash
<1> DEFINE r == [q EXCEPT !.pc = "answer", !.out = o]
<1>1. r \in Request
  <2>1. "answer" \in Places /\ o \in Outs
    BY DEF Places, Outs
  <2> QED
    BY <2>1 DEF Request
<1>2. r.pc = "answer" /\ r.op = q.op /\ r.row = q.row /\ r.user = q.user /\ r.out = o /\ r.hash = q.hash
  BY DEF Request, Places, Calls, Outs
<1> QED
  BY <1>1, <1>2

\* A request whose file is in place under the hash.
LEMMA StoredFits ==
  ASSUME NEW q \in Request, NEW h \in Hashes
  PROVE  LET r == [q EXCEPT !.row.hash = h, !.pc = "list"]
         IN /\ r \in Request /\ r.pc = "list" /\ r.row.hash = h /\ r.row.scope = q.row.scope
            /\ r.id = q.id /\ r.body = q.body
<1> DEFINE w == [q.row EXCEPT !.hash = h]
           r == [q EXCEPT !.row = w, !.pc = "list"]
<1>1. q.row \in Row
  BY DEF Request
<1>2. w \in Row /\ w.hash = h /\ w.scope = q.row.scope
  BY <1>1 DEF Row
<1>3. [q EXCEPT !.row.hash = h, !.pc = "list"] = r
  BY DEF Request
<1> HIDE DEF w
<1>4. "list" \in Places
  BY DEF Places, Working
<1>5. r \in Request
  BY <1>2, <1>4 DEF Request
<1>6. r.pc = "list" /\ r.row = w /\ r.id = q.id /\ r.body = q.body
  BY DEF Request
<1> QED
  BY <1>2, <1>3, <1>5, <1>6

\* A file known by the hash given is not read.
LEMMA PutKnownKeeps ==
  ASSUME IInv, NEW p \in Requests, PutKnown(p)
  PROVE  IInv'
<1> DEFINE r == [req[p] EXCEPT !.row.hash = req[p].hash, !.pc = "list"]
<1>0. RequestsFit /\ TablesOK /\ LockHeld /\ req[p] \in Request /\ Fits(req[p]) /\ p # ""
  BY RequestFacts
<1>1. /\ req[p].pc = "put" /\ lock = "" /\ Known(p) /\ req' = [req EXCEPT ![p] = r]
      /\ UNCHANGED <<fileVars, feedVars>>
  BY DEF PutKnown, Unlocked, AfterPut
<1>2. /\ req[p].hash \in Hashes /\ req[p].row.scope \in Scopes /\ blobs[Key(req[p].row.scope, req[p].hash)] # ""
      /\ req[p].id \in Ids /\ req[p].body \in Bodies
  BY <1>0, <1>1 DEF Known, Fits, Request, Places, Calls, Outs, Uploading, Storing
<1>3. /\ r \in Request /\ r.pc = "list" /\ r.row.hash = req[p].hash /\ r.row.scope = req[p].row.scope
      /\ r.id = req[p].id /\ r.body = req[p].body
  BY <1>0, <1>2, StoredFits
<1> HIDE DEF r
<1>4. Fits(r)
  BY <1>2, <1>3 DEF Fits, Uploading, Storing
<1>5. Moves(p, r)
  BY <1>0, <1>1, <1>2, <1>3 DEF Moves, KeyOf, Blob, Uploading, Storing, Names, fileVars
<1>6. Becomes(p, r)
  BY <1>0, <1>1, <1>3, <1>4, RequestChanges
<1> QED
  BY <1>0, <1>1, <1>5, <1>6, QuietMoves DEF fileVars, TablesOK

\* An upload takes the lock when it begins to copy.
LEMMA PutBeginKeeps ==
  ASSUME IInv, NEW p \in Requests, PutBegin(p)
  PROVE  IInv'
<1> DEFINE r == [req[p] EXCEPT !.pc = "copy"]
<1>0. RequestsFit /\ TablesOK /\ LockHeld /\ req[p] \in Request /\ Fits(req[p]) /\ p # ""
  BY RequestFacts
<1>1. /\ req[p].pc = "put" /\ lock = "" /\ lock' = p /\ req' = [req EXCEPT ![p] = r]
      /\ UNCHANGED <<rows, blobs, temps, uploads, lost, feedVars>>
  BY DEF PutBegin, Unlocked, Goto
<1>3. r \in Request /\ r = [req[p] EXCEPT !.pc = "copy"]
  BY <1>0, PlaceFits DEF Places, Working
<1>4. Fits(r)
  BY <1>0, <1>1 DEF Fits, Uploading, Storing, Request, Places, Calls, Outs
<1>5. Moves(p, r)
  BY <1>0, <1>1 DEF Moves, Request, Places, Calls, Outs, Uploading, Storing, Names
<1> HIDE DEF r
<1>6. Becomes(p, r)
  BY <1>0, <1>1, <1>3, <1>4, RequestChanges
<1> QED
  BY <1>0, <1>1, <1>5, <1>6, QuietMoves DEF TablesOK

\* The temporary file stays, and the lock is released.
LEMMA PutFailsKeeps ==
  ASSUME IInv, NEW p \in Requests, PutFails(p)
  PROVE  IInv'
<1>0. RequestsFit /\ TablesOK /\ LockHeld /\ req[p] \in Request /\ Fits(req[p]) /\ p # ""
  BY RequestFacts
<1>1. /\ req[p].pc \in {"copy", "stalled"} /\ lock' = "" /\ req' = [req EXCEPT ![p] = Idle] /\ temps' = TRUE
      /\ UNCHANGED <<rows, blobs, uploads, lost, feedVars>>
  BY DEF PutFails, Done
<1>2. lock = p
  BY <1>0, <1>1 DEF LockHeld
<1>5. Moves(p, Idle)
  BY <1>0, <1>1 DEF Moves, Idle, Uploading, Storing, Names
<1>6. Becomes(p, Idle)
  BY <1>0, <1>1, IdleFits, RequestChanges
<1> QED
  BY <1>0, <1>1, <1>2, <1>5, <1>6, QuietMoves DEF TablesOK

\* A silent peer changes nothing but the place of its request.
LEMMA StallKeeps ==
  ASSUME IInv, NEW p \in Requests, Stall(p)
  PROVE  IInv'
<1> DEFINE r == [req[p] EXCEPT !.pc = "stalled"]
<1>0. RequestsFit /\ TablesOK /\ LockHeld /\ req[p] \in Request /\ Fits(req[p])
  BY RequestFacts
<1>1. req[p].pc = "copy" /\ req' = [req EXCEPT ![p] = r] /\ UNCHANGED <<fileVars, feedVars>>
  BY DEF Stall, Goto
<1>2. lock = p
  BY <1>0, <1>1 DEF LockHeld
<1>3. r \in Request
  BY <1>0 DEF Request, Places, Calls, Outs, Working
<1>4. Fits(r)
  BY <1>0, <1>1 DEF Fits, Uploading, Storing, Request, Places, Calls, Outs
<1>5. Moves(p, r)
  BY <1>0, <1>1, <1>2 DEF Moves, Request, Places, Calls, Outs, Uploading, Storing, Names, fileVars
<1> HIDE DEF r
<1>6. Becomes(p, r)
  BY <1>0, <1>1, <1>3, <1>4, RequestChanges
<1> QED
  BY <1>0, <1>1, <1>5, <1>6, QuietMoves DEF TablesOK, fileVars

\* The entries are listed, or the file is gone and none are.
LEMMA ListFilesKeeps ==
  ASSUME IInv, NEW p \in Requests, ListFiles(p)
  PROVE  IInv'
<1> DEFINE b == req[p].row.zip /\ GetFile(req[p].row.scope, req[p].row.hash) # "not found"
           r == [req[p] EXCEPT !.pc = "create", !.row.listed = b]
<1>0. RequestsFit /\ TablesOK /\ LockHeld /\ req[p] \in Request /\ Fits(req[p])
  BY RequestFacts
<1>1. req[p].pc = "list" /\ lock = "" /\ req' = [req EXCEPT ![p] = r] /\ UNCHANGED <<fileVars, feedVars>>
  BY DEF ListFiles, Unlocked
<1>b. b \in BOOLEAN
  OBVIOUS
<1> HIDE DEF b
<1>3. /\ r \in Request /\ r.pc = "create" /\ r.row.hash = req[p].row.hash /\ r.row.scope = req[p].row.scope
      /\ r.id = req[p].id /\ r.body = req[p].body /\ r.row.hurt = req[p].row.hurt
  BY <1>0, <1>b, ListedFits
<1> HIDE DEF r
<1>4. Fits(r)
  BY <1>0, <1>1, <1>3 DEF Fits, Uploading, Storing
<1>5. Moves(p, r)
  <2>1. ~r.row.hurt => blobs'[Blob(p)] # ""
    BY <1>1, <1>3 DEF IInv, FilesWait, fileVars
  <2>2. r.pc \in {"copy", "stalled"} <=> lock' = p
    BY <1>1, <1>3, RequestFacts DEF fileVars
  <2> QED
    BY <1>1, <1>3, <2>1, <2>2 DEF Moves, KeyOf, Blob, Uploading, Storing, Names
<1>6. Becomes(p, r)
  BY <1>0, <1>1, <1>3, <1>4, RequestChanges
<1> QED
  BY <1>0, <1>1, <1>5, <1>6, QuietMoves DEF TablesOK, fileVars

\* A request that ends: an answer is given, or the row of a file is not written.
LEMMA EndsKeep ==
  ASSUME IInv, NEW p \in Requests, Answered(p) \/ CreateFails(p)
  PROVE  IInv'
<1>0. RequestsFit /\ TablesOK /\ LockHeld /\ req[p] \in Request /\ Fits(req[p]) /\ p # ""
  BY RequestFacts
<1>1. /\ \/ req[p].pc = "answer" /\ UNCHANGED lost
         \/ req[p].pc = "create" /\ lost' = lost \cup {Blob(p)}
      /\ req' = [req EXCEPT ![p] = Idle] /\ UNCHANGED <<rows, blobs, temps, lock, uploads, feedVars>>
  BY DEF Answered, CreateFails, Done, fileVars
<1>2. lock # p
  BY <1>0, <1>1 DEF LockHeld
<1>3. Blob(p) \in Keys \/ req[p].pc = "answer"
  BY <1>0, <1>1, KeyTyped DEF Blob, Fits, Uploading
<1>5. Moves(p, Idle)
  BY <1>1, <1>2 DEF Moves, Idle, Uploading, Storing, Names
<1>6. Becomes(p, Idle)
  BY <1>0, <1>1, IdleFits, RequestChanges
<1> QED
  BY <1>0, <1>1, <1>3, <1>5, <1>6, QuietMoves DEF TablesOK

\* What is read under the hash asked for is the content of that hash.
LEMMA OpenKeeps ==
  ASSUME IInv, NEW p \in Requests, Open(p)
  PROVE  IInv'
<1> DEFINE asked == IF req[p].op = "content" THEN req[p].hash ELSE req[p].row.hash
           out == GetFile(req[p].row.scope, asked)
           r == [req[p] EXCEPT !.pc = "answer", !.out = out]
<1>0. RequestsFit /\ TablesOK /\ LockHeld /\ req[p] \in Request /\ Fits(req[p])
  BY RequestFacts
<1>1. req[p].pc = "open" /\ req' = [req EXCEPT ![p] = r] /\ UNCHANGED <<fileVars, feedVars>>
  BY DEF Open, Answer
<1>2. /\ asked \in Hashes \cup {""} /\ req[p].row.scope \in Scopes
      /\ req[p].op = "content" => asked = req[p].hash
  BY <1>0, <1>1 DEF Fits, Request, Places, Calls, Outs, Row, Resource
<1> HIDE DEF asked
<1>3. out \in Bodies \cup {"not found"} /\ (out # "not found" => out = Key(req[p].row.scope, asked)[2])
  <2>1. CASE asked = "" \/ blobs[Key(req[p].row.scope, asked)] = ""
    BY <2>1 DEF GetFile
  <2>2. CASE asked # "" /\ blobs[Key(req[p].row.scope, asked)] # ""
    <3>1. Key(req[p].row.scope, asked) \in Keys
      BY <1>2, <2>2, KeyTyped
    <3>2. /\ blobs[Key(req[p].row.scope, asked)] = Key(req[p].row.scope, asked)[2]
          /\ Key(req[p].row.scope, asked)[2] \in Bodies
      BY <3>1, <2>2 DEF IInv, BlobsTrue, Keys
    <3> QED
      BY <3>2, <2>2 DEF GetFile
  <2> QED
    BY <2>1, <2>2
<1>4. req[p].op = "content" => (out # "not found" => out = Key(req[p].row.scope, req[p].hash)[2])
  BY <1>2, <1>3
<1> HIDE DEF out
<1>5. r \in Request /\ r.pc = "answer" /\ r.op = req[p].op /\ r.row = req[p].row /\ r.user = req[p].user
      /\ r.out = out /\ r.hash = req[p].hash
  BY <1>0, <1>3, AnswerFits
<1> HIDE DEF r
<1>6. Fits(r)
  BY <1>0, <1>1, <1>4, <1>5 DEF Fits, Uploading, Storing
<1>7. lock # p
  BY <1>0, <1>1 DEF LockHeld
<1>8. Moves(p, r)
  BY <1>1, <1>5, <1>7 DEF Moves, Uploading, Storing, Names, fileVars
<1>9. Becomes(p, r)
  BY <1>0, <1>1, <1>5, <1>6, RequestChanges
<1> QED
  BY <1>0, <1>1, <1>8, <1>9, QuietMoves DEF TablesOK, fileVars
\* The id of the next upload.
LEMMA NextId ==
  ASSUME MaxUploads \in Nat, uploads \in 0..MaxUploads, uploads < MaxUploads
  PROVE  uploads + 1 \in 0..MaxUploads /\ uploads + 1 \in Ids
BY DEF Ids

\* A new upload: its id is one that no row and no other request has.
LEMMA UploadKeeps ==
  ASSUME IInv, NEW p \in Requests, NEW u \in Users, NEW hash \in Hashes \cup {""}, NEW uid \in Uids \cup {""},
         NEW zip \in BOOLEAN, Upload(p, u, hash, uid, zip)
  PROVE  IInv'
<1>0. RequestsFit /\ TablesOK /\ LockHeld /\ p # ""
  BY RequestFacts
<1>1. PICK body \in Bodies :
        /\ uploads < MaxUploads /\ uploads' = uploads + 1 /\ req[p].pc = "idle"
        /\ req' = [req EXCEPT ![p] =
             [Idle EXCEPT !.pc = "put", !.op = "upload", !.user = u, !.hash = hash, !.body = body,
                          !.id = uploads + 1, !.row = [NoRow EXCEPT !.scope = Scope[u], !.uid = uid, !.zip = zip]]]
        /\ UNCHANGED <<rows, blobs, temps, lock, lost, feedVars>>
  BY DEF Upload, Begin
<1>2. uploads' \in 0..MaxUploads /\ uploads + 1 \in Ids
  <2>1. uploads \in 0..MaxUploads /\ MaxUploads \in Nat
    BY <1>0, PackagesAssumption DEF TablesOK, PackagesAssumption
  <2>2. uploads < MaxUploads /\ uploads' = uploads + 1
    BY <1>1
  <2> QED
    BY <2>1, <2>2, NextId
<1>3. Scope[u] \in Scopes
  BY PackagesAssumption DEF PackagesAssumption
<1> DEFINE row == [NoRow EXCEPT !.scope = Scope[u], !.uid = uid, !.zip = zip]
           r == [Idle EXCEPT !.pc = "put", !.op = "upload", !.user = u, !.hash = hash, !.body = body,
                             !.id = uploads + 1, !.row = row]
<1>4. row \in Row /\ row.scope = Scope[u] /\ ~row.hurt
  BY <1>3 DEF Row, NoRow
<1> HIDE DEF row
<1>5. r \in Request
  BY <1>2, <1>4 DEF Request, Places, Calls, Outs, Idle, Working
<1>6. r.pc = "put" /\ r.id = uploads + 1 /\ r.row = row /\ r.body = body
  BY DEF Idle
<1>7. req' = [req EXCEPT ![p] = r]
  BY <1>1 DEF row
<1> HIDE DEF r
<1>8. Fits(r)
  BY <1>2, <1>3, <1>4, <1>6 DEF Fits, Uploading, Storing
<1>9. Becomes(p, r)
  BY <1>0, <1>5, <1>7, <1>8, RequestChanges
<1>10. lock # p /\ lock' = lock
  BY <1>0, <1>1 DEF LockHeld
<1>11. Moves(p, r)
  <2>1. r.id = uploads'
    BY <1>1, <1>6
  <2> QED
    BY <2>1, <1>1, <1>6, <1>10 DEF Moves, Names
<1>12. TablesOK' /\ TablesMove(p, r)
  <2>1. TablesOK'
    BY <1>0, <1>1, <1>2 DEF TablesOK, Ids, Keys, feedVars
  <2>2. TablesMove(p, r)
    BY <1>1 DEF TablesMove, feedVars
  <2> QED
    BY <2>1, <2>2
<1> QED
  BY <1>9, <1>11, <1>12, RequestMoves

\* The file of an upload is in place, under the hash of what it holds.
LEMMA PutEndsKeeps ==
  ASSUME IInv, NEW p \in Requests, PutEnds(p)
  PROVE  IInv'
<1> DEFINE h == StoredAs(p)
           r == [req[p] EXCEPT !.row.hash = h, !.pc = "list"]
<1>0. RequestsFit /\ TablesOK /\ LockHeld /\ req[p] \in Request /\ Fits(req[p]) /\ p # ""
  BY RequestFacts
<1>1. /\ req[p].pc = "copy" /\ h # "" /\ lock' = "" /\ req' = [req EXCEPT ![p] = r]
      /\ blobs' = [blobs EXCEPT ![Key(req[p].row.scope, h)] = req[p].body]
      /\ UNCHANGED <<rows, temps, uploads, lost, feedVars>>
  BY DEF PutEnds, AfterPut
<1>2. h = req[p].body /\ req[p].body \in Bodies /\ req[p].row.scope \in Scopes /\ req[p].id \in Ids
  BY <1>0, <1>1 DEF StoredAs, Fits, Uploading, Storing
<1>h. h \in Hashes
  BY <1>2, KeyTyped
<1> HIDE DEF h
<1>3. /\ r \in Request /\ r.pc = "list" /\ r.row.hash = h /\ r.row.scope = req[p].row.scope
      /\ r.id = req[p].id /\ r.body = req[p].body
  <2> DEFINE w == req[p]
  <2>1. w \in Request /\ h \in Hashes
    BY <1>0, <1>2, <1>h
  <2> HIDE DEF w
  <2>2. LET t == [w EXCEPT !.row.hash = h, !.pc = "list"]
        IN /\ t \in Request /\ t.pc = "list" /\ t.row.hash = h /\ t.row.scope = w.row.scope
           /\ t.id = w.id /\ t.body = w.body
    BY <2>1, StoredFits
  <2> QED
    BY <2>2 DEF w
<1> HIDE DEF r
<1>4. Fits(r)
  BY <1>2, <1>h, <1>3 DEF Fits, Uploading, Storing
<1>5. Becomes(p, r)
  BY <1>0, <1>1, <1>3, <1>4, RequestChanges
<1>6. KeyOf(r) = Key(req[p].row.scope, h) /\ KeyOf(r) \in Keys /\ KeyOf(r)[2] = h
  <2>1. KeyOf(r) = Key(req[p].row.scope, h)
    BY <1>3 DEF KeyOf
  <2>2. Key(req[p].row.scope, h) = <<req[p].row.scope, h>> /\ Key(req[p].row.scope, h) \in Keys
    BY <1>2, <1>h, KeyTyped
  <2> QED
    BY <2>1, <2>2
<1>7. \A k \in Keys : blobs'[k] = IF k = KeyOf(r) THEN h ELSE blobs[k]
  BY <1>0, <1>1, <1>2, <1>6 DEF TablesOK
<1>8. Moves(p, r)
  <2>1. blobs'[KeyOf(r)] # ""
    BY <1>1, <1>6, <1>7
  <2> QED
    BY <2>1, <1>0, <1>1, <1>3 DEF Moves, Uploading, Storing, Names
<1>9. lock = p
  BY <1>0, <1>1 DEF LockHeld
<1>10. TablesMove(p, r)
  BY <1>1, <1>3, <1>6, <1>7, <1>9 DEF TablesMove, Names, feedVars
<1>11. TablesOK'
  <2>1. blobs' \in [Keys -> Bodies \cup {""}]
    BY <1>0, <1>1, <1>2 DEF TablesOK
  <2> QED
    BY <2>1, <1>0, <1>1 DEF TablesOK, Ids, Keys, feedVars
<1> QED
  BY <1>5, <1>8, <1>10, <1>11, RequestMoves

\* A row that is found is what the request goes on with.
LEMMA FindKeeps ==
  ASSUME IInv, NEW p \in Requests, NEW op \in {"content", "file", "delete"}, NEW u \in Users \cup {""},
         NEW pc \in {"open", "delete row"}, NEW hash \in Hashes \cup {""},
         NEW i \in Ids, rows[i] # NoRow, op = "content" => rows[i].scope \in Readable(u),
         Find(p, op, u, {i}, pc, hash)
  PROVE  IInv'
<1>0. RequestsFit /\ TablesOK /\ LockHeld /\ p # ""
  BY RequestFacts
<1> DEFINE r == [Idle EXCEPT !.pc = pc, !.op = op, !.user = u, !.hash = hash, !.id = i, !.row = rows[i]]
<1>1. req[p].pc = "idle" /\ req' = [req EXCEPT ![p] = r] /\ UNCHANGED <<fileVars, feedVars>>
  BY DEF Find, Begin
<1>2. rows[i] \in Resource /\ rows[i] \in Row
  BY <1>0 DEF TablesOK, Resource, Row
<1>3. r \in Request
  BY <1>2 DEF Request, Places, Calls, Outs, Idle, Working
<1>4. r.pc = pc /\ r.id = i /\ r.row = rows[i] /\ r.op = op /\ r.user = u
  BY DEF Idle
<1> HIDE DEF r
<1>s. rows[i].scope \in Scopes
  BY <1>2 DEF Resource
<1>5. Fits(r)
  BY <1>2, <1>s, <1>4 DEF Fits, Uploading, Storing
<1>6. Becomes(p, r)
  BY <1>0, <1>1, <1>3, <1>5, RequestChanges
<1>7. i <= uploads
  BY DEF IInv, IdsApart
<1>8. lock # p /\ lock' = lock
  BY <1>0, <1>1 DEF LockHeld, fileVars
<1>9. Moves(p, r)
  <2>1. r.id <= uploads
    BY <1>4, <1>7
  <2> QED
    BY <2>1, <1>1, <1>4, <1>8 DEF Moves, Uploading, Storing, Names
<1> QED
  BY <1>0, <1>1, <1>6, <1>9, QuietMoves DEF TablesOK, fileVars

\* An edit of a feed reads its row, and writes it back.
LEMMA FeedPutKeeps ==
  ASSUME IInv, NEW p \in Requests, NEW f \in Uids, getApiFeedPutHandler(p, f)
  PROVE  IInv'
<1>0. RequestsFit /\ TablesOK /\ LockHeld /\ p # ""
  BY RequestFacts
<1> DEFINE r == [Idle EXCEPT !.pc = "save feed", !.op = "feeds", !.uid = f, !.feed = feeds[f]]
<1>1. feeds[f] # NoFeed /\ req[p].pc = "idle" /\ req' = [req EXCEPT ![p] = r] /\ UNCHANGED <<fileVars, feedVars>>
  BY DEF getApiFeedPutHandler, Begin, FeedFound
<1>2. feeds[f] \in Feed
  BY <1>0, <1>1 DEF TablesOK
<1>3. r \in Request
  BY <1>2 DEF Request, Places, Calls, Outs, Idle, NoRow, Row, Working
<1>4. r.pc = "save feed" /\ r.uid = f /\ r.feed = feeds[f]
  BY DEF Idle
<1> HIDE DEF r
<1>5. Fits(r)
  BY <1>2, <1>4 DEF Fits, Uploading, Storing
<1>6. Becomes(p, r)
  BY <1>0, <1>1, <1>3, <1>5, RequestChanges
<1>7. ended[f] # "yes"
  BY <1>1 DEF IInv, DeletedFeedsStay
<1>8. lock # p /\ lock' = lock
  BY <1>0, <1>1 DEF LockHeld, fileVars
<1>9. Moves(p, r)
  BY <1>1, <1>4, <1>7, <1>8 DEF Moves, Uploading, Storing, Names
<1> QED
  BY <1>0, <1>1, <1>6, <1>9, QuietMoves DEF TablesOK, fileVars

\* What the edit writes back is no feed that was deleted for good.
LEMMA FeedPutSavesKeeps ==
  ASSUME IInv, NEW p \in Requests, FeedPutSaves(p)
  PROVE  IInv'
<1>0. RequestsFit /\ TablesOK /\ LockHeld /\ req[p] \in Request /\ Fits(req[p]) /\ p # ""
  BY RequestFacts
<1>1. PICK s \in Scopes, a \in BOOLEAN :
        /\ req[p].pc = "save feed" /\ req' = [req EXCEPT ![p] = Idle]
        /\ feeds' = [feeds EXCEPT ![req[p].uid] = [req[p].feed EXCEPT !.scope = s, !.active = a]]
        /\ UNCHANGED <<fileVars, ended>>
  BY DEF FeedPutSaves, Done, SaveFeed
<1>2. req[p].uid \in Uids /\ req[p].feed \in Feed
  BY <1>0, <1>1 DEF Fits
<1>3. [req[p].feed EXCEPT !.scope = s, !.active = a] \in Feed
  BY <1>2 DEF Feed
<1>4. ended[req[p].uid] # "yes"
  BY <1>1, <1>2 DEF IInv, NobodyEdits, Editing
<1>5. lock # p /\ lock' = lock
  BY <1>0, <1>1 DEF LockHeld, fileVars
<1>6. Moves(p, Idle)
  BY <1>0, <1>1, <1>5 DEF Moves, Idle, Uploading, Storing, Names
<1>7. Becomes(p, Idle)
  BY <1>0, <1>1, IdleFits, RequestChanges
<1>8. TablesOK'
  <2>1. feeds' \in [Uids -> Feed \cup {NoFeed}]
    BY <1>0, <1>1, <1>3 DEF TablesOK
  <2> QED
    BY <2>1, <1>0, <1>1 DEF TablesOK, Ids, Keys, fileVars
<1>9. TablesMove(p, Idle)
  BY <1>0, <1>1, <1>4 DEF TablesMove, TablesOK, fileVars
<1> QED
  BY <1>6, <1>7, <1>8, <1>9, RequestMoves

-----------------------------------------------------------------------------
(* Steps that write rows, and those of feeds. *)

\* The row of an upload is written at its id.
LEMMA CreateKeeps ==
  ASSUME IInv, NEW p \in Requests, Create(p)
  PROVE  IInv'
<1>0. RequestsFit /\ TablesOK /\ LockHeld /\ req[p] \in Request /\ Fits(req[p]) /\ p # ""
  BY RequestFacts
<1>1. /\ req[p].pc = "create" /\ req' = [req EXCEPT ![p] = Idle]
      /\ rows' = [rows EXCEPT ![req[p].id] = req[p].row]
      /\ blobs' = blobs /\ temps' = temps /\ lock' = lock /\ uploads' = uploads /\ lost' = lost
      /\ feeds' = feeds /\ ended' = ended
  BY DEF Create, Done, feedVars
<1> DEFINE n == req[p].id
           row == req[p].row
<1>2. n \in Ids /\ row \in Resource /\ rows[n] = NoRow
  <2>1. n \in Ids /\ row.scope \in Scopes /\ row.hash \in Hashes /\ row \in Row
    BY <1>0, <1>1 DEF Fits, Uploading, Request, Places, Calls, Outs
  <2>2. row \in Resource
    BY <2>1 DEF Row, Resource
  <2>3. rows[n] = NoRow
    BY <1>1 DEF IInv, IdsApart, Uploading
  <2> QED
    BY <2>1, <2>2, <2>3
<1>n. n <= uploads
  BY <1>1 DEF IInv, IdsApart, Uploading
<1>3. RequestsFit' /\ req'[p] = Idle /\ \A q \in Requests : q # p => req'[q] = req[q]
  BY <1>0, <1>1, IdleFits, RequestChanges DEF Becomes
<1>4. \A i \in Ids : rows'[i] = IF i = n THEN row ELSE rows[i]
  BY <1>0, <1>1, <1>2 DEF TablesOK
<1>5. TablesOK'
  <2>1. rows' \in [Ids -> Resource \cup {NoRow}]
    BY <1>0, <1>1, <1>2 DEF TablesOK
  <2> QED
    BY <2>1, <1>0, <1>1 DEF TablesOK, Ids, Keys
<1>i. Idle.pc = "idle"
  BY DEF Idle
<1>6. LockHeld'
  BY <1>0, <1>1, <1>3, <1>i DEF LockHeld
<1> HIDE DEF n, row
<1>7. IdsApart'
  <2>1. IdsApart
    BY DEF IInv
  <2>2. ASSUME NEW q \in Requests, q # p, req[q].pc \in HasId PROVE req[q].id # n
    BY <2>1, <2>2, <1>1 DEF IdsApart, Uploading, n
  <2>3. \A i \in Ids : rows'[i] # NoRow => i <= uploads
    <3>1. \A i \in Ids : rows[i] # NoRow => i <= uploads
      BY <2>1 DEF IdsApart
    <3> QED
      BY <3>1, <1>n, <1>4
  <2>4. ASSUME NEW q \in Requests, req'[q].pc \in HasId
        PROVE  q # p /\ req'[q] = req[q] /\ req[q].id \in Ids /\ rows'[req[q].id] = rows[req[q].id]
    <3>1. q # p /\ req'[q] = req[q]
      BY <2>4, <1>3, <1>i DEF HasId, Uploading, Storing
    <3>2. req[q].id \in Ids
      BY <2>4, <3>1, <1>0 DEF RequestsFit, Fits, HasId
    <3> QED
      BY <3>1, <3>2, <2>2, <2>4, <1>4
  <2>5. \A q \in Requests : req'[q].pc \in Uploading => req'[q].id <= uploads /\ rows'[req'[q].id] = NoRow
    BY <2>1, <2>4 DEF IdsApart, HasId
  <2>6. \A a, b \in Requests : req'[a].pc \in Uploading /\ req'[b].pc \in HasId /\ req'[a].id = req'[b].id => a = b
    BY <2>1, <2>4 DEF IdsApart, HasId
  <2>7. ASSUME NEW q \in Requests, req'[q].pc = "delete row"
        PROVE  /\ req'[q].id <= uploads
               /\ LET x == rows'[req'[q].id] IN x = NoRow \/ Key(x.scope, x.hash) = KeyOf(req'[q])
    <3>1. req'[q].pc \in HasId
      BY <2>7 DEF HasId
    <3>2. /\ req[q].id <= uploads
          /\ LET x == rows[req[q].id] IN x = NoRow \/ Key(x.scope, x.hash) = Blob(q)
      BY <2>1, <2>4, <2>7, <3>1 DEF IdsApart
    <3> QED
      BY <2>4, <3>1, <3>2 DEF KeyOf, Blob
  <2> QED
    BY <2>3, <2>5, <2>6, <2>7, <1>1 DEF IdsApart, KeyOf, Blob, Ids
<1>8. BlobsTrue' /\ DeletedFeedsStay' /\ NobodyEdits' /\ FilesWait'
  <2>1. BlobsTrue' /\ DeletedFeedsStay'
    BY <1>1 DEF IInv, BlobsTrue, DeletedFeedsStay, Keys
  <2>2. NobodyEdits'
    BY <1>1, <1>3, <1>i DEF IInv, NobodyEdits, Editing
  <2>3. FilesWait'
    BY <1>1, <1>3, <1>i DEF IInv, FilesWait, Blob
  <2> QED
    BY <2>1, <2>2, <2>3
<1>9. RowsHaveFiles'
  <2>1. ~row.hurt => blobs[Key(row.scope, row.hash)] # ""
    BY <1>1 DEF IInv, FilesWait, Blob, row
  <2>2. Ids' = Ids
    BY DEF Ids
  <2> QED
    BY <2>1, <2>2, <1>1, <1>4 DEF IInv, RowsHaveFiles
<1>10. FilesHaveRows'
  <2> SUFFICES ASSUME NEW k \in Keys, blobs[k] # "", k \notin lost, ~ \E i \in Ids : Key(rows'[i].scope, rows'[i].hash) = k
               PROVE  \E q \in Requests : req'[q].pc \in Names /\ KeyOf(req'[q]) = k
    BY <1>1 DEF FilesHaveRows, Names, KeyOf, Blob, Keys, Ids
  <2>1. k # Key(row.scope, row.hash)
    BY <1>2, <1>4
  <2>2. ASSUME NEW i \in Ids PROVE Key(rows[i].scope, rows[i].hash) # k
    <3>1. CASE i = n
      <4>1. rows[i] = NoRow
        BY <3>1, <1>2
      <4> QED
        BY <4>1, RowKeys
    <3>2. CASE i # n
      BY <3>2, <1>4
    <3> QED
      BY <3>1, <3>2
  <2>3. PICK q \in Requests : req[q].pc \in Names /\ Blob(q) = k
    BY <2>2 DEF IInv, FilesHaveRows, Names
  <2>4. q # p
    BY <2>1, <2>3 DEF Blob, row
  <2> QED
    BY <2>3, <2>4, <1>3 DEF KeyOf, Blob
<1> QED
  <2>1. TypeOK'
    BY <1>3, <1>5, <1>6, TypePartsAfter
  <2> QED
    BY <2>1, <1>3, <1>7, <1>8, <1>9, <1>10 DEF IInv

\* A row is deleted; its file stays for now, and the request knows its key.
LEMMA DeleteRowKeeps ==
  ASSUME IInv, NEW p \in Requests, DeleteRow(p)
  PROVE  IInv'
<1> DEFINE n == req[p].id
           r == [req[p] EXCEPT !.pc = "delete blob"]
<1>0. RequestsFit /\ TablesOK /\ LockHeld /\ req[p] \in Request /\ Fits(req[p]) /\ p # ""
  BY RequestFacts
<1>1. /\ req[p].pc = "delete row" /\ req' = [req EXCEPT ![p] = r]
      /\ rows' = [rows EXCEPT ![n] = NoRow]
      /\ blobs' = blobs /\ temps' = temps /\ lock' = lock /\ uploads' = uploads /\ lost' = lost
      /\ feeds' = feeds /\ ended' = ended
  BY DEF DeleteRow, Goto, feedVars
<1>2. n \in Ids /\ req[p].row \in Resource
  BY <1>0, <1>1 DEF Fits
<1>a. r \in Request /\ r.pc = "delete blob" /\ r.row = req[p].row
  <2>1. r \in Request
    BY <1>0, PlaceFits DEF Places, Working
  <2> QED
    BY <1>0, <2>1 DEF Request
<1> HIDE DEF r
<1>b. Fits(r)
  BY <1>2, <1>a DEF Fits, Uploading, Storing
<1>3. RequestsFit' /\ req'[p] = r /\ \A q \in Requests : q # p => req'[q] = req[q]
  BY <1>0, <1>1, <1>a, <1>b, RequestChanges DEF Becomes
<1>4. \A i \in Ids : rows'[i] = IF i = n THEN NoRow ELSE rows[i]
  BY <1>0, <1>1, <1>2 DEF TablesOK
<1>5. TablesOK'
  <2>1. rows' \in [Ids -> Resource \cup {NoRow}]
    BY <1>0, <1>1, <1>2 DEF TablesOK
  <2> QED
    BY <2>1, <1>0, <1>1 DEF TablesOK, Ids, Keys
<1>6. LockHeld'
  BY <1>0, <1>1, <1>3, <1>a DEF LockHeld
<1>7. IdsApart'
  <2>1. IdsApart
    BY DEF IInv
  <2>3. \A i \in Ids : rows'[i] # NoRow => i <= uploads
    BY <2>1, <1>4 DEF IdsApart
  <2>4. ASSUME NEW q \in Requests, req'[q].pc \in HasId
        PROVE  /\ q # p /\ req'[q] = req[q] /\ req[q].id \in Ids
               /\ rows'[req[q].id] \in {NoRow, rows[req[q].id]}
    <3>1. q # p /\ req'[q] = req[q]
      BY <2>4, <1>3, <1>a DEF HasId, Uploading, Storing
    <3>2. req[q].id \in Ids
      BY <2>4, <3>1, <1>0 DEF RequestsFit, Fits, HasId
    <3> QED
      BY <3>1, <3>2, <1>4
  <2>5. \A q \in Requests : req'[q].pc \in Uploading => req'[q].id <= uploads /\ rows'[req'[q].id] = NoRow
    BY <2>1, <2>4 DEF IdsApart, HasId
  <2>6. \A x, y \in Requests : req'[x].pc \in Uploading /\ req'[y].pc \in HasId /\ req'[x].id = req'[y].id => x = y
    BY <2>1, <2>4 DEF IdsApart, HasId
  <2>7. ASSUME NEW q \in Requests, req'[q].pc = "delete row"
        PROVE  /\ req'[q].id <= uploads
               /\ LET x == rows'[req'[q].id] IN x = NoRow \/ Key(x.scope, x.hash) = KeyOf(req'[q])
    <3>1. req'[q].pc \in HasId
      BY <2>7 DEF HasId
    <3>2. /\ req[q].id <= uploads
          /\ LET x == rows[req[q].id] IN x = NoRow \/ Key(x.scope, x.hash) = Blob(q)
      BY <2>1, <2>4, <2>7, <3>1 DEF IdsApart
    <3> QED
      BY <2>4, <3>1, <3>2 DEF KeyOf, Blob
  <2> QED
    BY <2>3, <2>5, <2>6, <2>7, <1>1 DEF IdsApart, KeyOf, Blob, Ids
<1>8. BlobsTrue' /\ DeletedFeedsStay' /\ NobodyEdits' /\ FilesWait'
  <2>1. BlobsTrue' /\ DeletedFeedsStay'
    BY <1>1 DEF IInv, BlobsTrue, DeletedFeedsStay, Keys
  <2>2. NobodyEdits'
    BY <1>1, <1>3, <1>a DEF IInv, NobodyEdits, Editing
  <2>3. FilesWait'
    BY <1>1, <1>3, <1>a DEF IInv, FilesWait, Blob
  <2> QED
    BY <2>1, <2>2, <2>3
<1>9. RowsHaveFiles'
  <2>2. Ids' = Ids
    BY DEF Ids
  <2> QED
    BY <2>2, <1>1, <1>4 DEF IInv, RowsHaveFiles
<1>10. FilesHaveRows'
  <2> SUFFICES ASSUME NEW k \in Keys, blobs[k] # "", k \notin lost, ~ \E i \in Ids : Key(rows'[i].scope, rows'[i].hash) = k
               PROVE  \E q \in Requests : req'[q].pc \in Names /\ KeyOf(req'[q]) = k
    BY <1>1 DEF FilesHaveRows, Names, KeyOf, Blob, Keys, Ids
  <2>1. CASE \E i \in Ids : Key(rows[i].scope, rows[i].hash) = k
    <3>1. PICK i \in Ids : Key(rows[i].scope, rows[i].hash) = k
      BY <2>1
    <3>2. i = n
      BY <3>1, <1>4
    <3>4. rows[n] # NoRow
      BY <3>1, <3>2, RowKeys
    <3>5. KeyOf(r) = k
      <4>1. LET x == rows[n] IN x = NoRow \/ Key(x.scope, x.hash) = Blob(p)
        BY <1>1 DEF IInv, IdsApart
      <4> QED
        BY <4>1, <3>1, <3>2, <3>4, <1>a DEF Blob, KeyOf
    <3> QED
      BY <3>5, <1>a, <1>3 DEF Names
  <2>2. CASE ~ \E i \in Ids : Key(rows[i].scope, rows[i].hash) = k
    <3>1. PICK q \in Requests : req[q].pc \in Names /\ Blob(q) = k
      BY <2>2 DEF IInv, FilesHaveRows, Names
    <3>2. q # p
      BY <3>1, <1>1 DEF Names
    <3> QED
      BY <3>1, <3>2, <1>3 DEF KeyOf, Blob
  <2> QED
    BY <2>1, <2>2
<1> QED
  <2>1. TypeOK'
    BY <1>3, <1>5, <1>6, TypePartsAfter
  <2> QED
    BY <2>1, <1>3, <1>7, <1>8, <1>9, <1>10 DEF IInv

\* r is q, but that its row is hurt.
HurtOf(q, r) ==
  /\ r.pc = q.pc /\ r.op = q.op /\ r.user = q.user /\ r.hash = q.hash /\ r.uid = q.uid /\ r.body = q.body
  /\ r.id = q.id /\ r.feed = q.feed /\ r.out = q.out
  /\ r.row.scope = q.row.scope /\ r.row.hash = q.row.hash /\ r.row.hurt

\* A request whose row is hurt is as it was but for that.
LEMMA HurtFits ==
  ASSUME NEW q \in Request, NEW r, r = [q EXCEPT !.row.hurt = TRUE]
  PROVE  r \in Request /\ HurtOf(q, r)
<1>1. [q.row EXCEPT !.hurt = TRUE] \in Row
  BY DEF Request, Places, Calls, Outs, Row
<1>2. r \in Request
  BY <1>1 DEF Request, Places, Calls, Outs
<1>3. r.row = [q.row EXCEPT !.hurt = TRUE]
  BY DEF Request, Places, Calls, Outs
<1>4. /\ r.pc = q.pc /\ r.op = q.op /\ r.user = q.user /\ r.hash = q.hash /\ r.uid = q.uid /\ r.body = q.body
      /\ r.id = q.id /\ r.feed = q.feed /\ r.out = q.out
  BY DEF Request, Places, Calls, Outs
<1>5. r.row.scope = q.row.scope /\ r.row.hash = q.row.hash /\ r.row.hurt
  BY <1>3 DEF Request, Places, Calls, Outs, Row
<1> QED
  BY <1>2, <1>4, <1>5 DEF HurtOf

\* A file is deleted: rows that still name it are hurt, and so are the
\* requests about to write such a row.
LEMMA DeleteBlobKeeps ==
  ASSUME IInv, NEW p \in Requests, DeleteBlob(p)
  PROVE  IInv'
<1> DEFINE k == Blob(p)
<1>0. RequestsFit /\ TablesOK /\ LockHeld /\ req[p] \in Request /\ Fits(req[p]) /\ p # ""
  BY RequestFacts
<1>1. /\ req[p].pc = "delete blob" /\ lock = ""
      /\ blobs' = [blobs EXCEPT ![k] = ""] /\ lost' = lost \ {k}
      /\ rows' = [i \in Ids |-> IF Key(rows[i].scope, rows[i].hash) = k THEN [rows[i] EXCEPT !.hurt = TRUE]
                                ELSE rows[i]]
      /\ req' = [q \in Requests |-> IF q = p THEN Idle
                   ELSE IF req[q].pc \in {"list", "create"} /\ KeyOf(req[q]) = k
                        THEN [req[q] EXCEPT !.row.hurt = TRUE] ELSE req[q]]
      /\ temps' = temps /\ lock' = lock /\ uploads' = uploads /\ feeds' = feeds /\ ended' = ended
  BY DEF DeleteBlob, Unlocked, BlobOf, Blob, KeyOf, feedVars
<1>2. k \in Keys
  BY <1>0, <1>1, RowKeys DEF Fits, Blob
<1> HIDE DEF k
<1>3. \A c \in Keys : blobs'[c] = IF c = k THEN "" ELSE blobs[c]
  BY <1>0, <1>1, <1>2 DEF TablesOK
\* What becomes of a row, and of a request.
<1>4. ASSUME NEW i \in Ids
      PROVE  /\ rows'[i] = NoRow <=> rows[i] = NoRow
             /\ rows[i] # NoRow => rows'[i] \in Resource
             /\ rows'[i].scope = rows[i].scope /\ rows'[i].hash = rows[i].hash
             /\ Key(rows[i].scope, rows[i].hash) = k => rows'[i].hurt
             /\ Key(rows[i].scope, rows[i].hash) # k => rows'[i] = rows[i]
  <2>1. CASE Key(rows[i].scope, rows[i].hash) = k
    <3>2. rows[i] \in Resource
      BY <2>1, <1>0, <1>2, RowKeys DEF TablesOK
    <3>3. rows'[i] = [rows[i] EXCEPT !.hurt = TRUE]
      BY <2>1, <1>1
    <3>4. rows'[i] \in Resource /\ rows'[i].scope = rows[i].scope /\ rows'[i].hash = rows[i].hash /\ rows'[i].hurt
      BY <3>2, <3>3 DEF Resource
    <3>5. rows'[i] # NoRow /\ rows[i] # NoRow
      BY <2>1, <3>4, <1>2, RowKeys
    <3> QED
      BY <2>1, <3>4, <3>5
  <2>2. CASE Key(rows[i].scope, rows[i].hash) # k
    <3>1. rows'[i] = rows[i]
      BY <2>2, <1>1
    <3> QED
      BY <3>1, <2>2, <1>0 DEF TablesOK
  <2> QED
    BY <2>1, <2>2
<1>5. ASSUME NEW q \in Requests, q # p
      PROVE  /\ req'[q] \in Request /\ Fits(req'[q])
             /\ req'[q].pc = req[q].pc /\ req'[q].id = req[q].id /\ req'[q].uid = req[q].uid
             /\ KeyOf(req'[q]) = KeyOf(req[q])
             /\ req[q].pc \in {"list", "create"} /\ KeyOf(req[q]) = k => req'[q].row.hurt
             /\ ~(req[q].pc \in {"list", "create"} /\ KeyOf(req[q]) = k) => req'[q] = req[q]
  <2>0. req[q] \in Request /\ Fits(req[q])
    BY <1>0 DEF RequestsFit
  <2>1. CASE req[q].pc \in {"list", "create"} /\ KeyOf(req[q]) = k
    <3>1. req'[q] = [req[q] EXCEPT !.row.hurt = TRUE]
      BY <2>1, <1>5, <1>1
    <3>2. req'[q] \in Request /\ HurtOf(req[q], req'[q])
      BY <2>0, <3>1, HurtFits
    <3>3. Fits(req'[q])
      BY <2>0, <2>1, <3>2 DEF HurtOf, Fits, Uploading, Storing
    <3> QED
      BY <2>1, <3>2, <3>3 DEF HurtOf, KeyOf
  <2>2. CASE ~(req[q].pc \in {"list", "create"} /\ KeyOf(req[q]) = k)
    <3>1. req'[q] = req[q]
      BY <2>2, <1>5, <1>1
    <3> QED
      BY <3>1, <2>0, <2>2
  <2> QED
    BY <2>1, <2>2
<1>6. req'[p] = Idle /\ req' \in [Requests -> Request]
  <2>1. req'[p] = Idle
    BY <1>1
  <2>2. \A q \in Requests : req'[q] \in Request
    BY <2>1, <1>5, IdleFits
  <2>3. req' = [q \in Requests |-> req'[q]]
    BY <1>1
  <2> QED
    BY <2>1, <2>2, <2>3
<1>i. Idle.pc = "idle"
  BY DEF Idle
<1>7. RequestsFit'
  BY <1>5, <1>6, IdleFits DEF RequestsFit
<1>8. TablesOK'
  <2>1. rows' \in [Ids -> Resource \cup {NoRow}]
    <3>1. \A i \in Ids : rows'[i] \in Resource \cup {NoRow}
      BY <1>4
    <3>2. rows' = [i \in Ids |-> rows'[i]]
      BY <1>1
    <3> QED
      BY <3>1, <3>2
  <2>2. blobs' \in [Keys -> Bodies \cup {""}]
    BY <1>0, <1>1 DEF TablesOK
  <2> QED
    BY <2>1, <2>2, <1>0, <1>1 DEF TablesOK, Ids, Keys
<1>9. LockHeld'
  <2>1. ASSUME NEW q \in Requests PROVE req'[q].pc \in {"copy", "stalled"} <=> lock' = q
    <3>1. CASE q = p
      BY <3>1, <1>0, <1>1, <1>6, <1>i
    <3>2. CASE q # p
      BY <3>2, <1>0, <1>1, <1>5 DEF LockHeld
    <3> QED
      BY <3>1, <3>2
  <2> QED
    BY <2>1 DEF LockHeld
<1>10. IdsApart'
  <2>1. IdsApart
    BY DEF IInv
  <2>2. ASSUME NEW q \in Requests, req'[q].pc \in HasId
        PROVE  /\ q # p /\ req[q].pc = req'[q].pc /\ req'[q].id = req[q].id /\ req[q].id \in Ids
               /\ KeyOf(req'[q]) = KeyOf(req[q])
    <3>1. q # p
      BY <2>2, <1>6, <1>i DEF HasId, Uploading, Storing
    <3>2. req[q].pc \in HasId
      BY <2>2, <3>1, <1>5
    <3>3. req[q].id \in Ids
      BY <3>2, <1>0 DEF RequestsFit, Fits, HasId
    <3> QED
      BY <3>1, <3>3, <1>5
  <2>3. \A i \in Ids : rows'[i] # NoRow => i <= uploads
    <3>1. \A i \in Ids : rows[i] # NoRow => i <= uploads
      BY <2>1 DEF IdsApart
    <3> QED
      BY <3>1, <1>4
  <2>4. ASSUME NEW q \in Requests, req'[q].pc \in Uploading
        PROVE  req'[q].id <= uploads /\ rows'[req'[q].id] = NoRow
    <3>1. req'[q].pc \in HasId
      BY <2>4 DEF HasId
    <3>2. req[q].id <= uploads /\ rows[req[q].id] = NoRow
      BY <2>1, <2>2, <2>4, <3>1 DEF IdsApart
    <3> QED
      BY <2>2, <3>1, <3>2, <1>4
  <2>5. \A x, y \in Requests : req'[x].pc \in Uploading /\ req'[y].pc \in HasId /\ req'[x].id = req'[y].id => x = y
    <3> SUFFICES ASSUME NEW x \in Requests, NEW y \in Requests,
                        req'[x].pc \in Uploading, req'[y].pc \in HasId, req'[x].id = req'[y].id
                 PROVE  x = y
      OBVIOUS
    <3>1. req'[x].pc \in HasId
      BY DEF HasId
    <3> QED
      BY <3>1, <2>1, <2>2 DEF IdsApart
  <2>6. ASSUME NEW q \in Requests, req'[q].pc = "delete row"
        PROVE  /\ req'[q].id <= uploads
               /\ LET x == rows'[req'[q].id] IN x = NoRow \/ Key(x.scope, x.hash) = KeyOf(req'[q])
    <3>1. req'[q].pc \in HasId
      BY <2>6 DEF HasId
    <3>2. /\ req[q].id <= uploads
          /\ LET x == rows[req[q].id] IN x = NoRow \/ Key(x.scope, x.hash) = Blob(q)
      BY <2>1, <2>2, <2>6, <3>1 DEF IdsApart
    <3> QED
      BY <2>2, <3>1, <3>2, <1>4 DEF KeyOf, Blob
  <2> QED
    BY <2>3, <2>4, <2>5, <2>6, <1>1 DEF IdsApart, KeyOf, Blob, Ids
<1>11. BlobsTrue' /\ DeletedFeedsStay'
  <2>1. BlobsTrue'
    BY <1>3 DEF IInv, BlobsTrue, Keys
  <2>2. DeletedFeedsStay'
    BY <1>1 DEF IInv, DeletedFeedsStay
  <2> QED
    BY <2>1, <2>2
<1>12. NobodyEdits'
  BY <1>1, <1>5, <1>6, <1>i DEF IInv, NobodyEdits, Editing
<1>13. FilesWait'
  <2> SUFFICES ASSUME NEW q \in Requests, req'[q].pc \in {"list", "create"}, ~req'[q].row.hurt
               PROVE  blobs'[KeyOf(req'[q])] # ""
    BY DEF FilesWait, Blob, KeyOf
  <2>1. q # p
    BY <1>6, <1>i
  <2>2. req'[q] = req[q] /\ KeyOf(req[q]) # k
    BY <2>1, <1>5
  <2>3. KeyOf(req[q]) \in Keys
    BY <2>2, <1>0, KeyTyped DEF RequestsFit, Fits, Uploading, KeyOf
  <2>4. blobs[KeyOf(req[q])] # ""
    BY <2>2 DEF IInv, FilesWait, Blob, KeyOf
  <2> QED
    BY <2>2, <2>3, <2>4, <1>3
<1>14. RowsHaveFiles'
  <2> SUFFICES ASSUME NEW i \in Ids, rows'[i] # NoRow, ~rows'[i].hurt
               PROVE  blobs'[Key(rows'[i].scope, rows'[i].hash)] # ""
    BY DEF RowsHaveFiles, Ids
  <2>1. rows[i] # NoRow /\ rows'[i] = rows[i] /\ Key(rows[i].scope, rows[i].hash) # k
    BY <1>4
  <2>2. Key(rows[i].scope, rows[i].hash) \in Keys
    BY <2>1, <1>0, RowKeys DEF TablesOK
  <2>3. blobs[Key(rows[i].scope, rows[i].hash)] # ""
    BY <2>1 DEF IInv, RowsHaveFiles
  <2> QED
    BY <2>1, <2>2, <2>3, <1>3
<1>15. FilesHaveRows'
  <2> SUFFICES ASSUME NEW c \in Keys, blobs'[c] # "", c \notin lost', ~ \E i \in Ids : Key(rows'[i].scope, rows'[i].hash) = c
               PROVE  \E q \in Requests : req'[q].pc \in Names /\ KeyOf(req'[q]) = c
    BY DEF FilesHaveRows, Names, KeyOf, Blob, Keys, Ids
  <2>1. c # k /\ blobs[c] # "" /\ c \notin lost
    BY <1>1, <1>3
  <2>2. ~ \E i \in Ids : Key(rows[i].scope, rows[i].hash) = c
    BY <1>4
  <2>3. PICK q \in Requests : req[q].pc \in Names /\ Blob(q) = c
    BY <2>1, <2>2 DEF IInv, FilesHaveRows, Names
  <2>4. q # p
    BY <2>1, <2>3 DEF k
  <2> QED
    BY <2>3, <2>4, <1>5 DEF Blob, KeyOf
<1> QED
  <2>1. TypeOK'
    BY <1>7, <1>8, <1>9, TypePartsAfter
  <2> QED
    BY <2>1, <1>7, <1>10, <1>11, <1>12, <1>13, <1>14, <1>15 DEF IInv

\* The steps of the feeds table alone.
LEMMA FeedsKeep ==
  ASSUME IInv, NEW f \in Uids,
         getApiFeedDeleteHandler(f) \/ \E u \in Users : getVideoPostHandler(u, f) \/ getApiFeedPostHandler(u, f)
  PROVE  IInv'
<1>0. RequestsFit /\ TablesOK /\ LockHeld
  BY TypeParts DEF IInv
<1>1. UNCHANGED <<fileVars, req>>
  BY DEF getApiFeedDeleteHandler, getVideoPostHandler, getApiFeedPostHandler
<1>u. /\ rows' = rows /\ blobs' = blobs /\ temps' = temps /\ lock' = lock /\ uploads' = uploads /\ lost' = lost
      /\ req' = req
  BY <1>1 DEF fileVars
\* Only the row of f changes; a deleted row is gone, unless it is excused.
<1>2. /\ feeds' \in [Uids -> Feed \cup {NoFeed}] /\ ended' \in [Uids -> {"no", "yes", "excused"}]
      /\ \A g \in Uids : g # f => feeds'[g] = feeds[g] /\ ended'[g] = ended[g]
      /\ ended'[f] = "yes" => feeds'[f] = NoFeed /\ ~Editing(f)
  <2>0. feeds \in [Uids -> Feed \cup {NoFeed}] /\ ended \in [Uids -> {"no", "yes", "excused"}]
    BY <1>0 DEF TablesOK
  <2>1. CASE getApiFeedDeleteHandler(f)
    <3>1. /\ feeds' = IF feeds[f].active THEN [feeds EXCEPT ![f] = NoFeed] ELSE feeds
          /\ ended' = [ended EXCEPT ![f] = IF Editing(f) \/ ~feeds[f].active THEN "excused" ELSE "yes"]
      BY <2>1 DEF getApiFeedDeleteHandler, Deleted
    <3> QED
      BY <2>0, <3>1
  <2>2. CASE \E u \in Users : getVideoPostHandler(u, f) \/ getApiFeedPostHandler(u, f)
    <3>1. PICK u \in Users : getVideoPostHandler(u, f) \/ getApiFeedPostHandler(u, f)
      BY <2>2
    <3>2. PICK s \in Scopes, a \in BOOLEAN :
            feeds' = [feeds EXCEPT ![f] = [scope |-> s, user |-> u, active |-> a]]
      <4>1. Scope[u] \in Scopes
        BY PackagesAssumption DEF PackagesAssumption
      <4> QED
        BY <3>1, <4>1 DEF getVideoPostHandler, getApiFeedPostHandler, SaveFeed
    <3>3. ended' = [ended EXCEPT ![f] = "no"]
      BY <3>1 DEF getVideoPostHandler, getApiFeedPostHandler
    <3>4. [scope |-> s, user |-> u, active |-> a] \in Feed
      BY DEF Feed
    <3> QED
      BY <2>0, <3>2, <3>3, <3>4
  <2> QED
    BY <2>1, <2>2
<1>3. RequestsFit' /\ TablesOK' /\ LockHeld'
  BY <1>0, <1>u, <1>2 DEF RequestsFit, Request, Places, Calls, Outs, Fits, TablesOK, LockHeld, Ids, Keys
<1>4. IdsApart' /\ BlobsTrue' /\ FilesWait' /\ RowsHaveFiles' /\ FilesHaveRows'
  BY <1>u DEF IInv, IdsApart, BlobsTrue, FilesWait, RowsHaveFiles, FilesHaveRows, Blob, Keys, Ids
<1>5. NobodyEdits' /\ DeletedFeedsStay'
  BY <1>u, <1>2 DEF IInv, NobodyEdits, Editing, DeletedFeedsStay
<1> QED
  BY <1>3, <1>4, <1>5, TypePartsAfter DEF IInv

-----------------------------------------------------------------------------
(* The theorems. *)

\* Nothing is there at the start.
LEMMA InitHolds == Init => IInv
<1> SUFFICES ASSUME Init PROVE IInv
  OBVIOUS
<1>1. RequestsFit /\ \A p \in Requests : req[p] = Idle
  BY IdleFits DEF Init, RequestsFit
<1>2. TablesOK
  <2>1. uploads \in 0..MaxUploads
    <3>1. uploads = 0 /\ MaxUploads \in Nat
      BY PackagesAssumption DEF Init, PackagesAssumption
    <3> QED
      BY <3>1
  <2> QED
    BY <2>1 DEF Init, TablesOK
<1>i. Idle.pc = "idle"
  BY DEF Idle
<1>3. LockHeld
  BY <1>1, <1>i, PackagesAssumption DEF LockHeld, Init, PackagesAssumption
<1>4. IdsApart
  BY <1>1, <1>i DEF IdsApart, Init, HasId, Uploading, Storing
<1>5. BlobsTrue /\ FilesWait /\ NobodyEdits /\ RowsHaveFiles /\ FilesHaveRows /\ DeletedFeedsStay
  BY <1>1, <1>i DEF Init, BlobsTrue, FilesWait, NobodyEdits, Editing, RowsHaveFiles, FilesHaveRows,
     DeletedFeedsStay
<1> QED
  BY <1>1, <1>2, <1>3, <1>4, <1>5, TypeParts DEF IInv

\* The three operations that find a row.
LEMMA FindersKeep ==
  ASSUME IInv, NEW p \in Requests,
         \/ getApiFileHandler(p) \/ getApiZipFileHandler(p) \/ getApiFileDeleteHandler(p)
         \/ \E u \in Users : getContentGetHandler(p, u)
  PROVE  IInv'
<1>1. CASE getApiFileHandler(p)
  <2>1. PICK i \in Ids : rows[i] # NoRow /\ Find(p, "file", "", {i}, "open", "")
    BY <1>1 DEF getApiFileHandler, Find
  <2> QED
    BY <2>1, FindKeeps
<1>2. CASE getApiZipFileHandler(p)
  <2>1. PICK i \in Ids : rows[i].zip /\ Find(p, "file", "", {i}, "open", "")
    BY <1>2 DEF getApiZipFileHandler, Find
  <2>2. ~NoRow.zip
    BY DEF NoRow
  <2>3. rows[i] # NoRow
    BY <2>1, <2>2
  <2> QED
    BY <2>1, <2>3, FindKeeps
<1>3. CASE getApiFileDeleteHandler(p)
  <2>1. PICK i \in Ids : rows[i] # NoRow /\ Find(p, "delete", "", {i}, "delete row", "")
    BY <1>3 DEF getApiFileDeleteHandler, Find
  <2> QED
    BY <2>1, FindKeeps
<1>4. CASE \E u \in Users : getContentGetHandler(p, u)
  <2>1. PICK u \in Users, hash \in Hashes \cup {""}, uid \in Uids \cup {""} :
          Find(p, "content", u, Where(u, hash, uid), "open", hash)
    BY <1>4 DEF getContentGetHandler
  <2>2. PICK i \in Where(u, hash, uid) : Find(p, "content", u, {i}, "open", hash)
    BY <2>1 DEF Find
  <2>3. i \in Ids /\ rows[i] # NoRow /\ rows[i].scope \in Readable(u)
    BY <2>2 DEF Where, Readable
  <2> QED
    BY <2>2, <2>3, FindKeeps
<1> QED
  BY <1>1, <1>2, <1>3, <1>4

\* Every step keeps the invariant.
LEMMA NextKeeps == IInv /\ [Next]_vars => IInv'
<1> SUFFICES ASSUME IInv, [Next]_vars PROVE IInv'
  OBVIOUS
<1>1. ASSUME NEW p \in Requests, NEW u \in Users,
             getMissionUploadHandler(p, u) \/ getUploadHandler(p, u) \/ getContentGetHandler(p, u)
      PROVE  IInv'
  <2>1. CASE getMissionUploadHandler(p, u)
    BY <2>1, UploadKeeps DEF getMissionUploadHandler
  <2>2. CASE getUploadHandler(p, u)
    BY <2>2, UploadKeeps DEF getUploadHandler
  <2>3. CASE getContentGetHandler(p, u)
    BY <2>3, FindersKeep
  <2> QED
    BY <1>1, <2>1, <2>2, <2>3
<1>2. ASSUME NEW p \in Requests, Work(p) \/ Stall(p)
      PROVE  IInv'
  BY <1>2, PutKnownKeeps, PutBeginKeeps, PutEndsKeeps, PutFailsKeeps, ListFilesKeeps, CreateKeeps, EndsKeep,
     OpenKeeps, DeleteRowKeeps, DeleteBlobKeeps, FeedPutSavesKeeps, StallKeeps
     DEF Work, Store
<1>3. ASSUME NEW p \in Requests, getApiFileHandler(p) \/ getApiZipFileHandler(p) \/ getApiFileDeleteHandler(p)
      PROVE  IInv'
  BY <1>3, FindersKeep
<1>4. ASSUME NEW f \in Uids,
             \/ \E u \in Users : getVideoPostHandler(u, f) \/ getApiFeedPostHandler(u, f)
             \/ \E p \in Requests : getApiFeedPutHandler(p, f)
             \/ getApiFeedDeleteHandler(f)
      PROVE  IInv'
  BY <1>4, FeedsKeep, FeedPutKeeps
<1>5. CASE UNCHANGED vars
  <2>1. /\ rows' = rows /\ blobs' = blobs /\ temps' = temps /\ lock' = lock /\ uploads' = uploads /\ lost' = lost
        /\ req' = req /\ feeds' = feeds /\ ended' = ended
    BY <1>5 DEF vars, fileVars, feedVars
  <2>2. RequestsFit /\ TablesOK /\ LockHeld
    BY TypeParts DEF IInv
  <2>3. RequestsFit' /\ TablesOK' /\ LockHeld'
    BY <2>1, <2>2 DEF RequestsFit, Request, Places, Calls, Outs, Fits, TablesOK, LockHeld, Ids, Keys
  <2>4. IdsApart' /\ BlobsTrue' /\ FilesWait' /\ RowsHaveFiles' /\ FilesHaveRows'
    BY <2>1 DEF IInv, IdsApart, BlobsTrue, FilesWait, RowsHaveFiles, FilesHaveRows, Blob, Keys, Ids
  <2>5. NobodyEdits' /\ DeletedFeedsStay'
    BY <2>1 DEF IInv, NobodyEdits, Editing, DeletedFeedsStay
  <2> QED
    BY <2>3, <2>4, <2>5, TypePartsAfter DEF IInv
<1> QED
  BY <1>1, <1>2, <1>3, <1>4, <1>5 DEF Next

\* The inductive invariant holds, whatever the order of the steps of the
\* requests between the database and the store (blob_manager.go:128-169, admin_api.go:526-549).
THEOREM Invariance == Spec => []IInv
<1>1. Init => IInv
  BY InitHolds
<1>2. IInv /\ [Next]_vars => IInv'
  BY NextKeeps
<1> QED
  BY <1>1, <1>2, PTL DEF Spec

\* The tables and the store say what was uploaded and deleted: a row has its
\* file unless that was deleted for another row, a file has a row or a request
\* that goes on, and deleted feeds stay so (admin_api.go:544-547, 834-844).
THEOREM StoreIsTrue == Spec => []StoreAgrees
<1>1. IInv => StoreAgrees
  BY DEF IInv, StoreAgrees
<1> QED
  BY <1>1, Invariance, PTL

\* Who asks for a hash is given its content, from a scope the user may read,
\* whatever was deleted and stored again in between; who asks for another name
\* is given the file its path leads to, unchecked (marti_api.go:366-408,
\* blob_manager.go:39-47).
THEOREM AnswersAreTrue == Spec => []AnswersAreRight
<1>1. ASSUME IInv, NEW p \in Requests, req[p].pc = "answer", req[p].op = "content", req[p].out # "not found"
      PROVE  LET file == Key(req[p].row.scope, req[p].hash)
             IN /\ req[p].out = file[2]
                /\ req[p].hash \in Bodies =>
                     req[p].out = req[p].hash /\ file[1] \in {Scope[req[p].user]} \cup ReadScopes[req[p].user]
  <2>1. req[p].out = Key(req[p].row.scope, req[p].hash)[2] /\ req[p].row.scope \in Readable(req[p].user)
    BY <1>1 DEF IInv, RequestsFit, Fits
  <2>2. req[p].row.scope \in Scopes
    BY <1>1 DEF IInv, RequestsFit, Fits
  <2>3. ASSUME req[p].hash \in Bodies
        PROVE  Key(req[p].row.scope, req[p].hash) = <<req[p].row.scope, req[p].hash>>
    BY <2>2, <2>3, KeyTyped
  <2> QED
    BY <2>1, <2>3 DEF Readable
<1>2. IInv => AnswersAreRight
  BY <1>1 DEF AnswersAreRight
<1> QED
  BY <1>2, Invariance, PTL
=============================================================================
