---------------------------- MODULE MCDeployment ----------------------------
(***************************************************************************)
(* Deployment on small instances.                                          *)
(***************************************************************************)
EXTENDS Deployment

CONSTANTS p1, p2, j1, j2
=============================================================================
