-------------------------- MODULE MCOAuthAccounts --------------------------
(***************************************************************************)
(* OAuthAccounts on a small instance.  The run checks a liveness property, *)
(* so no symmetry is declared.                                             *)
(***************************************************************************)
EXTENDS OAuthAccounts

CONSTANTS r1, r2, u1, u2, e1, e2, google, github, x1, s1, s2
=============================================================================
