---------------------------- MODULE MCPresence ----------------------------
(***************************************************************************)
(* Two small instances of Presence for TLC, chosen at the start: one       *)
(* connection whose peer publishes MaxMsgs messages, or two connections of *)
(* a contact with one message less.                                        *)
(***************************************************************************)
EXTENDS Presence

CONSTANTS u1, c1, c2, m1

VARIABLE both

MCOwner == [c \in Conns |-> u1]
MCTo == [m \in Chats |-> u1]

Within == IF both THEN published < MaxMsgs ELSE state[c2] = "new"

MCInit == Init /\ both \in BOOLEAN
MCNext == Next /\ UNCHANGED both /\ Within'
MCSpec == MCInit /\ [][MCNext]_<<vars, both>> /\ Fairness
=============================================================================
