----------------------------- MODULE MCIoRouter -----------------------------
(***************************************************************************)
(* Instances of the I/O router for TLC.                                    *)
(***************************************************************************)
EXTENDS IoRouterProperties, TLC

Perms == Permutations(Session)
=============================================================================
