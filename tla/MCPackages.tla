----------------------------- MODULE MCPackages -----------------------------
(***************************************************************************)
(* Packages for TLC: files of two scopes, or feeds; the scenario chosen at *)
(* the start says which.                                                   *)
(***************************************************************************)
EXTENDS Packages

CONSTANTS p1, p2

VARIABLE scenario

MCScope == [u \in Users |-> IF u = "ann" THEN "red" ELSE "blue"]
MCReadScopes == [u \in Users |-> IF u = "ann" THEN {} ELSE {"red"}]

\* In either scope "up" leads to a file of the second.
MCPath == [k \in Scopes \X Hashes |-> IF k[2] = "up" THEN <<"blue", "x">> ELSE k]

Scenarios == {{"upload", "content", "delete"}, {"upload", "file", "delete"}, {"feeds"}}

MCInit == Init /\ scenario \in Scenarios
MCNext == /\ Next /\ UNCHANGED scenario
          /\ \A p \in Requests : req'[p].op \in scenario \cup {""}
          /\ "feeds" \in scenario \/ UNCHANGED feedVars
MCSpec == MCInit /\ [][MCNext]_<<vars, scenario>> /\ Fairness
=============================================================================
