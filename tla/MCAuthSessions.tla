--------------------------- MODULE MCAuthSessions ---------------------------
(***************************************************************************)
(* AuthSessions on small instances.  Lanes, jtis, user ids and addresses   *)
(* are only ever compared for equality, so TLC may permute them.           *)
(***************************************************************************)
EXTENDS AuthSessions, TLC

CONSTANTS r1, r2, u1, u2, e1, e2, j1, j2, j3

MCSymmetry ==
    Permutations(Requests) \union Permutations(UserIds)
        \union Permutations(Emails) \union Permutations(Jtis)
=============================================================================
