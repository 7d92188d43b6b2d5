------------------------------ MODULE MCRouter ------------------------------
(* Small instances of Router for TLC. *)
EXTENDS Router, TLC

CONSTANTS red1, blue1, u1, u2, cs

TwoConns == {red1, blue1}
MCCallsign == [u \in Uids |-> cs]
MCHome == [c \in Conns |-> IF c = blue1 THEN "blue" ELSE "red"]
\* The device of blue1 has "red" in its ReadScope.
MCVisible == [c \in Conns |-> IF c = blue1 THEN {"red", "blue"} ELSE {"red"}]
ToSome == {Broadcast, << <<"callsign", cs>> >>, << <<"uid", u1>>, <<"uid", u2>> >>}
=============================================================================
