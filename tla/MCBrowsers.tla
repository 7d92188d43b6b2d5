----------------------------- MODULE MCBrowsers -----------------------------
(***************************************************************************)
(* Browsers for TLC: a page while items change, or a WebTAK client; the    *)
(* scenario chosen at the start says which.                                *)
(***************************************************************************)
EXTENDS Browsers

CONSTANTS p1, p2, map1, tak1

VARIABLE scenario

MCKind == [h \in Handlers |-> IF h = map1 THEN "map" ELSE "tak"]

Scenarios == {[who |-> map1, kinds |-> {"save", "remove", "fade", "mark"}, ops |-> 3],
              [who |-> tak1, kinds |-> {"send"}, ops |-> 2]}

MCInit == Init /\ scenario \in Scenarios
MCNext == /\ Next /\ UNCHANGED scenario /\ ops' <= scenario.ops
          /\ \A p \in Writers : op'[p].kind \in scenario.kinds \cup {"idle"}
          /\ \A h \in Handlers \ {scenario.who} : UNCHANGED <<conn[h], page[h], tak[h]>>
MCSpec == MCInit /\ [][MCNext]_<<vars, scenario>> /\ Fairness
=============================================================================
