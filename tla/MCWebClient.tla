---------------------------- MODULE MCWebClient ----------------------------
(***************************************************************************)
(* WebClient on small instances.                                           *)
(***************************************************************************)
EXTENDS WebClient

CONSTANTS t1, t2, l1, l2
=============================================================================
