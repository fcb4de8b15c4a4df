--------------------------- MODULE MCConnections ---------------------------
(***************************************************************************)
(* Instances of the connections for TLC.                                   *)
(***************************************************************************)
EXTENDS ConnectionsProperties
=============================================================================
