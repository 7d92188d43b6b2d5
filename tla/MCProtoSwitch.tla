---------------------------- MODULE MCProtoSwitch ----------------------------
(* Small instances of ProtoSwitch for TLC. *)
EXTENDS ProtoSwitch, TLC

CONSTANTS sLoop,     \* the message loop of the server
          cPos       \* the position sender of the client

MCOwner == (sLoop :> Server) @@ (cPos :> Client)
=============================================================================
