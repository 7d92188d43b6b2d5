----------------------------- MODULE MCMissions -----------------------------
(***************************************************************************)
(* Missions for TLC: users of two scopes, the second of whom reads the     *)
(* first.  One run covers several small instances: the scenario, chosen at *)
(* the start, says which operations go on and how far.                     *)
(***************************************************************************)
EXTENDS Missions

CONSTANTS h1, h2

VARIABLE scenario

MCScope == [u \in Users |-> IF u = "ann" THEN "red" ELSE "blue"]
MCReadScopes == [u \in Users |-> IF u = "ann" THEN {} ELSE {"red"}]
MCStored == {<<"red", "h1">>}
MCResourceId == [r \in Stored |-> 2]

Editing == {"put", "remove", "point", "drop"}
Small == [ops |-> {"create"}, reads |-> FALSE, scopes |-> {"red"}, kinds |-> {"open"}, clients |-> {1},
          handlers |-> {h1}, missions |-> 1, log |-> 4, faults |-> 0]

Scenarios == {
  \* who may subscribe, in two scopes
  [Small EXCEPT !.ops = {"create", "delete", "subscribe", "unsubscribe"}, !.scopes = Scopes,
                !.kinds = {"password", "invite only"}, !.handlers = {h1, h2}, !.missions = 2],
  \* a metadata request writes the row of a mission
  [Small EXCEPT !.ops = {"create", "subscribe", "metadata"}, !.scopes = Scopes,
                !.kinds = {"open", "invite only"}, !.missions = 2],
  \* clients follow a mission the loop and a handler change
  [Small EXCEPT !.ops = {"create", "subscribe", "unsubscribe", "remove", "point", "drop"},
                !.reads = TRUE, !.clients = {1, 2}],
  \* statements fail
  [Small EXCEPT !.ops = {"create"} \cup Editing, !.faults = 1],
  \* a mission is deleted under other requests
  [Small EXCEPT !.ops = {"create", "delete", "subscribe", "invite", "uninvite", "put", "point"},
                !.handlers = {h1, h2}, !.log = 2]}

Within(s) ==
  /\ \A p \in Procs : /\ req[p].op \in s.ops \cup {""} /\ req[p].uid \in s.clients \cup {0}
                      /\ p \notin s.handlers \cup {Loop} => req[p] = Idle
                      /\ req[p].new \in [scope : s.scopes \cup {""}, name : Names \cup {""}, kind : s.kinds \cup {""}, creator : Nat]
  /\ \A m \in Ids : /\ m > s.missions => missions[m] = None
                    /\ missions[m].creator \in s.clients \cup {0} /\ missions[m].kind \in s.kinds \cup {""}
  /\ Cardinality(log) <= s.log /\ faults <= s.faults

MCInit == Init /\ scenario \in Scenarios
MCNext == /\ Next /\ UNCHANGED scenario /\ Within(scenario)'
          /\ "metadata" \in scenario.ops \/ edited' = {}
          /\ scenario.reads \/ (follows' \subseteq follows /\ (belief' # belief => req' # req))
MCSpec == MCInit /\ [][MCNext]_<<vars, scenario>>
=============================================================================
