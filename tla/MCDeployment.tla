---------------------------- MODULE MCDeployment ----------------------------
(***************************************************************************)
(* A small instance of Deployment for TLC: a replica of an older release   *)
(* beside one of the newest.                                               *)
(***************************************************************************)
EXTENDS Deployment, TLC

CONSTANTS old, new

MCRelease == (old :> 1) @@ (new :> 2)
=============================================================================
