----------------------------- MODULE MCAccounts -----------------------------
(***************************************************************************)
(* Accounts for TLC.  The scenario chosen at the start says which requests *)
(* are made, and how far the clock goes.                                   *)
(***************************************************************************)
EXTENDS Accounts

CONSTANTS p1, p2

VARIABLE scenario

MCFirst == [l \in Logins |-> IF l = "admin" THEN [ver |-> 1, disabled |-> FALSE, admin |-> TRUE, pw |-> "a"]
                             ELSE NoDevice]

MCFirstCerts == [s \in Serials |-> IF s = 1 THEN [login |-> "admin", uid |-> "u", extra |-> FALSE] ELSE NoCert]

Scenario(ops, time, vers, pws, fails) ==
  [ops |-> ops, time |-> time, vers |-> vers, pws |-> pws, fails |-> fails, token |-> "put" \in ops]
Scenarios == {Scenario({"connect", "put"}, 4, 2, {}, 0),
              Scenario({"connect", "put"}, 1, 3, {"a", "b"}, 1),
              Scenario({"connect", "sign"}, 0, 1, {"a", "b"}, 1),
              Scenario({"login", "post"}, 3, 1, {"a"}, 1),
              Scenario({"login", "api", "restart"}, 2, 1, {"a", "b"}, 1)}

MCInit == /\ scenario \in Scenarios
          /\ Init /\ (scenario.token <=> tokens["admin"] = 0)
MCNext == /\ Next /\ UNCHANGED scenario
          /\ now' <= scenario.time /\ faults' <= scenario.fails
          /\ \A l \in Logins : devices'[l].ver + Cardinality({p \in Of({"put", "post"})' : req'[p].target = l}) <= scenario.vers
          /\ \A p \in Requests : req'[p].op \in scenario.ops \cup {""} /\ req'[p].pw \in scenario.pws \cup {""}
          /\ \A p \in Requests : req'[p].target = "ann" => "post" \in scenario.ops
          /\ "restart" \in scenario.ops \/ ~Restart
MCSpec == MCInit /\ [][MCNext]_<<vars, scenario>>
=============================================================================
