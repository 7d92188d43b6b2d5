------------------------------ MODULE Profiles ------------------------------
(***************************************************************************)
(* Profiles: what a device is configured with when it connects or enrols.  *)
(*                                                                         *)
(* The table has a row for a login and a uid, "*" standing for all.  A     *)
(* device's request reads four rows, one statement after the other, and    *)
(* merges them, the more particular over the general.  Administrators      *)
(* create, replace and delete rows meanwhile; PUT reads the row and saves  *)
(* it in a second statement.  A statement that fails is logged, and One    *)
(* returns an empty row as if it were there.                               *)
(*                                                                         *)
(* A row gives options by name.  Callsign, team, role and type of a row    *)
(* are options with names of their own, Named, and are not always given.   *)
(* No uid or login is "*", which the source does not forbid: checkUID has  *)
(* only a list of those it refuses.                                        *)
(***************************************************************************)
EXTENDS Naturals, SequencesExt, FiniteSets

CONSTANTS Logins, Uids,
          Options,   \* names of options
          Named,     \* those that are columns: locationCallsign, locationTeam, ...
          Known,     \* those prefs.go knows
          Values,
          Rows,      \* the rows an administrator may write, [columns, options]
          First,     \* tables at the start
          Admins, Devices,   \* requests
          MaxFaults  \* bound: statements that fail

Keys == (Logins \cup {"*", ""}) \X (Uids \cup {"*", ""})
Stray == <<"", "">>
NoRow == [columns |-> [n \in {} |-> ""], options |-> [n \in {} |-> ""], there |-> FALSE]
Empty == [NoRow EXCEPT !.there = TRUE]

ASSUME ProfilesAssumption ==
  /\ Named \subseteq Options /\ Known \subseteq Options
  /\ "" \notin Logins \cup Uids \cup Values /\ "*" \notin Logins \cup Uids
  /\ \A row \in Rows : /\ DOMAIN row.columns \subseteq Named /\ Range(row.columns) \subseteq Values
                       /\ DOMAIN row.options \subseteq Options /\ Range(row.options) \subseteq Values
                       /\ row.there
  /\ First \subseteq [Keys -> Rows \cup {NoRow}]
  /\ \A t \in First, k \in Keys : t[k].there => "" \notin {k[1], k[2]}
  /\ MaxFaults \in Nat

VARIABLES table,   \* the profiles table
          past,    \* what it was, from the start until now
          req,     \* what each request is doing
          faults   \* statements that failed

vars == <<table, past, req, faults>>

Idle == [op |-> "", login |-> "", uid |-> "", row |-> NoRow, enrol |-> FALSE,
         got |-> <<>>, since |-> 0, until |-> 0, failed |-> FALSE, prefs |-> <<>>]
Finished == [Idle EXCEPT !.op = "finished"]
-----------------------------------------------------------------------------
(* One option map over another (maps.Copy). *)
Over(f, g) == [n \in DOMAIN f \cup DOMAIN g |-> IF n \in DOMAIN g THEN g[n] ELSE f[n]]

\* Columns that are not empty, then the options of the row; those of later rows win.
profileOpts(callsign, general, special) ==
  LET opts(row) == IF callsign THEN Over(row.columns, row.options) ELSE row.options
  IN  Over(opts(general), opts(special))

\* Mutant: columns are given at every connection.
MergedOptionsAlways(got, enrol) ==
  Over(Over(profileOpts(TRUE, got[1], got[2]), profileOpts(TRUE, got[3], got[4])),
       [n \in {"deviceProfileEnableOnConnect"} |-> "true"])

\* Only rows for this very device give a callsign when it is not enrolling.
MergedOptions(got, enrol) ==
  Over(Over(profileOpts(enrol, got[1], got[2]), profileOpts(TRUE, got[3], got[4])),
       [n \in {"deviceProfileEnableOnConnect"} |-> "true"])

\* GetEntry has no entry for a key it does not know.
Content(opts) == [n \in DOMAIN opts \cap Known |-> opts[n]]

\* The rows a query matches: an empty login or uid is no condition.
Where(t, login, uid) ==
  {t[k] : k \in {j \in Keys : /\ t[j].there
                              /\ login # "" => j[1] = login
                              /\ uid # "" => j[2] = uid}}

\* One: some row that matches, or nil.
One(t, login, uid) == IF Where(t, login, uid) = {} THEN {NoRow} ELSE Where(t, login, uid)
-----------------------------------------------------------------------------
Init == /\ table \in First
        /\ past = <<table>>
        /\ req = [r \in Admins \cup Devices |-> Idle]
        /\ faults = 0

Write(k, row) == /\ table' = [table EXCEPT ![k] = row]
                 /\ past' = Append(past, table')

Fails == faults < MaxFaults /\ faults' = faults + 1
Works == UNCHANGED faults
Reading == UNCHANGED <<table, past>>

Ask(r, login, uid, enrol) ==
  /\ req[r].op = ""
  /\ req' = [req EXCEPT ![r] = [Idle EXCEPT !.op = "ask", !.login = login, !.uid = uid,
                                            !.enrol = enrol, !.since = Len(past)]]
  /\ Reading /\ Works

getProfileConnectionHandler(r, login, uid) == Ask(r, login, uid, FALSE)
getProfileEnrollmentHandler(r, login, uid) == Ask(r, login, uid, TRUE)

\* The four reads of GetProfileFiles, in their order.
ReadRow(r) ==
  LET n == Len(req[r].got)
      login == <<"*", req[r].login, "*", req[r].login>>[n + 1]
      uid == <<"*", "*", req[r].uid, req[r].uid>>[n + 1]
  IN  /\ req[r].op = "ask" /\ n < 4
      /\ \/ /\ \E row \in One(table, login, uid) : req' = [req EXCEPT ![r].got = Append(@, row)]
            /\ Works
         \/ /\ req' = [req EXCEPT ![r].got = Append(@, Empty), ![r].failed = TRUE]
            /\ Fails
      /\ Reading

\* The preferences go into the package of the answer.
Answer(r) ==
  /\ req[r].op = "ask" /\ Len(req[r].got) = 4
  /\ req' = [req EXCEPT ![r].op = "answered", ![r].until = Len(past),
                        ![r].prefs = Content(MergedOptions(req[r].got, req[r].enrol))]
  /\ Reading /\ Works

\* getApiProfilePostHandler: what is not given is for all; a row that is there is an error.
Post(r, login, uid, row) ==
  LET k == <<IF login = "" THEN "*" ELSE login, IF uid = "" THEN "*" ELSE uid>> IN
  /\ req[r].op = ""
  /\ IF table[k].there THEN Reading ELSE Write(k, row)
  /\ req' = [req EXCEPT ![r] = Finished]
  /\ Works

\* Mutant: a row that is not there is saved all the same.
PutReadAnyway(r, login, uid, row) ==
  /\ req[r].op = ""
  /\ req' = [req EXCEPT ![r] = [Idle EXCEPT !.op = "put", !.login = login, !.uid = uid,
                                            !.row = row, !.since = Len(past)]]
  /\ Reading /\ Works

\* getApiProfilePutHandler reads the row; an empty one, after a failure, has no login or uid.
PutRead(r, login, uid, row) ==
  /\ req[r].op = ""
  /\ LET put(l, u) == [Idle EXCEPT !.op = "put", !.login = l, !.uid = u, !.row = row,
                                   !.since = Len(past)] IN
     \/ /\ Works
        /\ req' = [req EXCEPT ![r] = IF table[<<login, uid>>].there THEN put(login, uid)
                                     ELSE Finished]
     \/ Fails /\ req' = [req EXCEPT ![r] = put("", "")]
  /\ Reading

\* ForceSave writes all columns, and the row itself if it has gone.
PutSave(r) ==
  /\ req[r].op = "put"
  /\ Write(<<req[r].login, req[r].uid>>, req[r].row)
  /\ req' = [req EXCEPT ![r] = Finished]
  /\ Works

\* getApiProfileDeleteHandler.
Delete(r, login, uid) ==
  /\ req[r].op = ""
  /\ Write(<<login, uid>>, NoRow)
  /\ req' = [req EXCEPT ![r] = Finished]
  /\ Works

DeviceStep(r) == \/ \E login \in Logins, uid \in Uids \cup {""} :
                      \/ getProfileConnectionHandler(r, login, uid)
                      \/ getProfileEnrollmentHandler(r, login, uid)
                 \/ ReadRow(r) \/ Answer(r)
AdminStep(r) == \/ \E login \in Logins \cup {"*"}, uid \in Uids \cup {"*"}, row \in Rows :
                     PutRead(r, login, uid, row) \/ Delete(r, login, uid)
                \/ \E login \in Logins \cup {"*", ""}, uid \in Uids \cup {"*", ""}, row \in Rows :
                     Post(r, login, uid, row)
                \/ PutSave(r)

Next == \/ \E r \in Devices : DeviceStep(r)
        \/ \E r \in Admins : AdminStep(r)
Spec == Init /\ [][Next]_vars
-----------------------------------------------------------------------------
(* Properties. *)

(* The model's shape. *)
TypeOK == /\ table \in [Keys -> Rows \cup {NoRow}] /\ Last(past) = table
          /\ \A r \in DOMAIN req : /\ req[r].op \in {"", "ask", "answered", "put", "finished"}
                                   /\ Len(req[r].got) <= 4
          /\ faults \in 0..MaxFaults

(* What a device is due from a table: each option from the row that is the most particular
   among those that give it; a row gives its columns when it is for the very device or the
   device enrols, and an option of a column's name wins over the column. *)
Ranked(login, uid) == <<<<login, uid>>, <<"*", uid>>, <<login, "*">>, <<"*", "*">>>>
Gives(t, k, n, enrol) == \/ n \in DOMAIN t[k].options
                         \/ n \in DOMAIN t[k].columns /\ (k[2] # "*" \/ enrol)
Given(t, k, n) == IF n \in DOMAIN t[k].options THEN t[k].options[n] ELSE t[k].columns[n]
Due(t, login, uid, enrol) ==
  LET ranks(n) == {i \in 1..4 : Gives(t, Ranked(login, uid)[i], n, enrol)}
      best(n) == CHOOSE i \in ranks(n) : \A j \in ranks(n) : i <= j
  IN  [n \in {m \in Known : m = "deviceProfileEnableOnConnect" \/ ranks(m) # {}} |->
         IF n = "deviceProfileEnableOnConnect" THEN "true"
         ELSE Given(t, Ranked(login, uid)[best(n)], n)]

(* A device is given what it is due from the table as it was at one moment of its request,
   if a single row was written meanwhile and no statement failed (GetProfileFiles reads row
   after row; with two writes it may see the second and not the first).  A device that does
   not say its uid is given the rows of some device. *)
AnswerIsOfOneMoment ==
  \A r \in Devices :
    /\ req[r].op = "answered" /\ ~req[r].failed /\ req[r].uid # ""
    /\ req[r].until - req[r].since <= 1
    => \E i \in req[r].since..req[r].until :
         req[r].prefs = Due(past[i], req[r].login, req[r].uid, req[r].enrol)

(* A profile that was not there appears by POST only, or by a PUT that found it and was
   overtaken by a DELETE (ForceSave inserts what is missing); or by one whose read failed. *)
NothingFromNowhere ==
  [][\A k \in Keys :
       ~table[k].there /\ table'[k].there =>
         \E r \in Admins :
           /\ req'[r] # req[r]
           /\ \/ req[r].op = ""
              \/ k = Stray
              \/ \E i \in req[r].since..Len(past) : past[i][k].there]_vars

(* Without a failed statement every row has a login and a uid, so that a device can be given
   it and an administrator can reach it: a PUT whose read failed saves the empty row it was
   handed. *)
StraysNeedFaults == \A k \in Keys : table[k].there /\ "" \in {k[1], k[2]} => k = Stray /\ faults > 0

(* The table holds what administrators meant it to hold. *)
RowsAreMeant == [](TypeOK /\ StraysNeedFaults) /\ NothingFromNowhere
=============================================================================
