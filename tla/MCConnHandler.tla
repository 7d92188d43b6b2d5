---------------------------- MODULE MCConnHandler ----------------------------
(* Small instances of ConnHandler for TLC. *)
EXTENDS ConnHandler, TLC

CONSTANTS u1, u2, b1, s1, s2

MCUids == {u1, u2, b1}
MCBlocked == {b1}
OneSender == {s1}

ContactSymmetry == Permutations({u1, u2})
=============================================================================
