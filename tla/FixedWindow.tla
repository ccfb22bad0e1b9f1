---------------------------- MODULE FixedWindow ----------------------------
(***************************************************************************)
(* The abstract promise of the rate limiter, with no Redis commands, no    *)
(* faults and no requests in flight: per key, a count that says whether    *)
(* the next request is within the limit, and a window that is started once *)
(* after the first hit, runs down with time whatever is counted meanwhile, *)
(* and takes the count with it when it ends.  A window may start late, or  *)
(* never, which is what a lost EXPIRE comes to.  RateLimiter implements    *)
(* this specification.                                                     *)
(***************************************************************************)
EXTENDS Integers

CONSTANTS Keys,      \* whom requests are counted under
          Limit,     \* hits a window has room for
          Window,    \* its length, in ticks
          None       \* no window is running

VARIABLES hits,      \* per key, the hits of its window; Limit + 1 is "too many"
          left       \* per key, what is left of its window, or None

windowVars == <<hits, left>>

WindowInit ==
    /\ hits = [k \in Keys |-> 0]
    /\ left = [k \in Keys |-> None]

Admit(k) ==
    /\ hits[k] < Limit
    /\ hits' = [hits EXCEPT ![k] = @ + 1]
    /\ UNCHANGED left

Refuse(k) ==
    /\ hits[k] >= Limit
    /\ hits' = [hits EXCEPT ![k] = Limit + 1]
    /\ UNCHANGED left

\* A window that is running is never started again.
StartWindow(k) ==
    /\ hits[k] > 0
    /\ left[k] = None
    /\ left' = [left EXCEPT ![k] = Window]
    /\ UNCHANGED hits

Elapse ==
    /\ hits' = [k \in Keys |-> IF left[k] = 1 THEN 0 ELSE hits[k]]
    /\ left' = [k \in Keys |-> IF left[k] \in {None, 1} THEN None ELSE left[k] - 1]

WindowNext ==
    \/ \E k \in Keys : Admit(k) \/ Refuse(k) \/ StartWindow(k)
    \/ Elapse

WindowSpec == WindowInit /\ [][WindowNext]_windowVars
=============================================================================
