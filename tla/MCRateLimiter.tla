--------------------------- MODULE MCRateLimiter ---------------------------
(***************************************************************************)
(* RateLimiter on small instances: one proxy that is trusted, one address  *)
(* that is not, and the unknown peer.                                      *)
(***************************************************************************)
EXTENDS RateLimiter, TLC

CONSTANTS l1, l2, l3, proxy, host

\* The host directly, the host with a header it has made up, and the host by
\* way of the proxy.
MCConnections == {<<host, None>>, <<host, proxy>>, <<proxy, host>>}

MCSymmetry == Permutations(Requests)
=============================================================================
