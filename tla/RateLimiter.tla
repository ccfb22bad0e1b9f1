---------------------------- MODULE RateLimiter ----------------------------
(***************************************************************************)
(* The fixed-window limiter of app/core/rate_limiter.py in front of every  *)
(* /auth route: INCR a counter in Redis, EXPIRE it when this request was   *)
(* the first, and refuse above max_requests.  Each Redis command is one    *)
(* action; between two of them other requests run, keys expire, Redis can  *)
(* fail before or after it has executed the command, and the process can   *)
(* die.  Redis runs one command at a time, and counts down time to live    *)
(* by itself.                                                              *)
(***************************************************************************)
EXTENDS Integers

CONSTANTS Requests,        \* lanes: requests that can be in flight at once
          Addresses,       \* IP addresses
          None,            \* no address, no header, no time to live
          Connections,     \* pairs of a peer and the address its header gives
          TrustedProxies,  \* trusted_proxy_cidrs; empty if not trust_proxy_headers
          MaxRequests,     \* rate_limit_auth_requests
          Window           \* rate_limit_auth_window_seconds, in ticks

\* request.client may be None; it is then counted under "unknown".
Peers == Addresses \union {None}

ASSUME LimiterAssumption ==
    /\ Connections \subseteq Peers \X Peers
    /\ None \notin Addresses \union Nat
    /\ TrustedProxies \subseteq Addresses
    /\ MaxRequests \in Nat
    /\ Window \in Nat \ {0}

VARIABLES
    failClosed,  \* rate_limit_fail_closed
    counters,    \* the keys ratelimit:auth:<identifier>; count 0 is no key
    lane,        \* the dependency of each request in flight
    orphaned,    \* history: keys whose EXPIRE was lost to a fault
    grants       \* history: per peer that is no proxy, how long ago its last
                 \* requests within the limit were, the latest first

vars == <<failClosed, counters, lane, orphaned, grants>>

-----------------------------------------------------------------------------
\* Peers whose headers are not believed.
Strangers == Peers \ TrustedProxies

\* Bound of the model: counters above it only differ in how far above they
\* are.  The code compares a count with 1 and with MaxRequests.
CountCap == MaxRequests + 2

\* EXPIRE and TTL see no key when the count is 0.
NoKey   == [count |-> 0, ttl |-> None]
Counter == [count : 0..CountCap, ttl : (1..Window) \union {None}]

\* Bound of the history: it goes one request further back than the properties
\* count, and an age of Window stands for that age and more.
Recent == 1..(2 * MaxRequests + 1)

Idle == [pc |-> "idle", peer |-> None, key |-> None, count |-> 0, verdict |-> 0]
Lane == [pc : {"idle", "incr", "expire", "ttl", "done"}, peer : Peers, key : Peers,
         count : 0..CountCap, verdict : {0, 200, 429, 503}]

\* Mutant: the header is believed whoever sends it.
AnyForwardedFor(peer, forwarded) == IF forwarded # None THEN forwarded ELSE peer

\* get_client_ip.  forwarded is the first address of X-Forwarded-For, None if
\* there is no header or that is no address.
ClientIP(peer, forwarded) ==
    IF forwarded # None /\ peer \in TrustedProxies THEN forwarded ELSE peer

Init ==
    /\ failClosed \in BOOLEAN
    /\ counters = [k \in Peers |-> NoKey]
    /\ lane = [l \in Requests |-> Idle]
    /\ orphaned = {}
    /\ grants = [p \in Strangers |-> [i \in Recent |-> Window]]

-----------------------------------------------------------------------------
Key(l) == lane[l].key

Become(l, pc, count, verdict) ==
    lane' = [lane EXCEPT ![l] = [pc |-> pc, peer |-> @.peer, key |-> @.key,
                                 count |-> count, verdict |-> verdict]]

\* The dependency goes on to its next command, with the count INCR returned.
Goto(l, pc, count) == Become(l, pc, count, 0)

\* The dependency is done: the route runs (200) or the request is refused.
Decide(l, count, verdict) == Become(l, "done", count, verdict)

\* Mutant: a Redis error lets the request through whatever the setting.
AlwaysOpen(l, count) == Decide(l, count, 200)

\* except RedisError
OnRedisError(l, count) == Decide(l, count, IF failClosed THEN 503 ELSE 200)

\* What the dependency does once the counter is known to expire.
Compare(l, count) ==
    IF count > MaxRequests THEN Goto(l, "ttl", count) ELSE Decide(l, count, 200)

Arrive(l, peer, forwarded) ==
    /\ lane[l].pc = "idle"
    /\ lane' = [lane EXCEPT ![l] =
                   [pc |-> "incr", peer |-> peer, key |-> ClientIP(peer, forwarded),
                    count |-> 0, verdict |-> 0]]
    /\ UNCHANGED <<failClosed, counters, orphaned, grants>>

\* What the history makes of a count (a proxy's requests are not in its domain).
Granted(l, count) ==
    IF count <= MaxRequests /\ lane[l].peer \in Strangers
    THEN [grants EXCEPT ![lane[l].peer] =
             [i \in Recent |-> IF i = 1 THEN 0 ELSE @[i - 1]]]
    ELSE grants

Incremented(k) == IF counters[k].count < CountCap
                  THEN counters[k].count + 1 ELSE CountCap

\* Redis executes INCR, which leaves the time to live alone.
Counted(k) ==
    counters' = [counters EXCEPT ![k] = [count |-> Incremented(k), ttl |-> @.ttl]]

\* Mutant: no EXPIRE follows the first INCR.
IncrNeverExpires(l) ==
    /\ lane[l].pc = "incr"
    /\ Counted(Key(l))
    /\ Compare(l, Incremented(Key(l)))
    /\ grants' = Granted(l, Incremented(Key(l)))
    /\ UNCHANGED <<failClosed, orphaned>>

\* Mutant: every request pushes the expiry back.
IncrAlwaysExpires(l) ==
    /\ lane[l].pc = "incr"
    /\ Counted(Key(l))
    /\ Goto(l, "expire", Incremented(Key(l)))
    /\ grants' = Granted(l, Incremented(Key(l)))
    /\ UNCHANGED <<failClosed, orphaned>>

Incr(l) ==
    /\ lane[l].pc = "incr"
    /\ Counted(Key(l))
    /\ LET count == Incremented(Key(l)) IN
       /\ IF count = 1 THEN Goto(l, "expire", count) ELSE Compare(l, count)
       /\ grants' = Granted(l, count)
    /\ UNCHANGED <<failClosed, orphaned>>

\* RedisError from INCR: it was not executed, or its answer was lost.
IncrFails(l) ==
    /\ lane[l].pc = "incr"
    /\ \/ UNCHANGED <<counters, orphaned>>
       \/ /\ Counted(Key(l))
          /\ orphaned' = IF counters[Key(l)].count = 0
                         THEN orphaned \union {Key(l)} ELSE orphaned
    /\ OnRedisError(l, 0)
    /\ UNCHANGED <<failClosed, grants>>

\* Mutant: the window is taken for minutes.
ExpiringInMinutes(k) ==
    counters' = [counters EXCEPT ![k] =
                    IF @.count = 0 THEN @ ELSE [count |-> @.count, ttl |-> 60 * Window]]

\* Redis executes EXPIRE: nothing, if the key is gone.
Expiring(k) ==
    counters' = [counters EXCEPT ![k] =
                    IF @.count = 0 THEN @ ELSE [count |-> @.count, ttl |-> Window]]

Expire(l) ==
    /\ lane[l].pc = "expire"
    /\ Expiring(Key(l))
    /\ Compare(l, lane[l].count)
    /\ UNCHANGED <<failClosed, orphaned, grants>>

\* RedisError from EXPIRE: it was not executed, or its answer was lost.
ExpireFails(l) ==
    /\ lane[l].pc = "expire"
    /\ \/ /\ orphaned' = orphaned \union {Key(l)}
          /\ UNCHANGED counters
       \/ /\ Expiring(Key(l))
          /\ UNCHANGED orphaned
    /\ OnRedisError(l, lane[l].count)
    /\ UNCHANGED <<failClosed, grants>>

\* TTL only fills in retry_after_seconds.
Ttl(l) ==
    /\ lane[l].pc = "ttl"
    /\ Decide(l, lane[l].count, 429)
    /\ UNCHANGED <<failClosed, counters, orphaned, grants>>

\* RedisError from TTL: with fail-open settings the request over the limit
\* goes through.
TtlFails(l) ==
    /\ lane[l].pc = "ttl"
    /\ OnRedisError(l, lane[l].count)
    /\ UNCHANGED <<failClosed, counters, orphaned, grants>>

\* The request leaves the dependency.
Leave(l) ==
    /\ lane[l].pc = "done"
    /\ lane' = [lane EXCEPT ![l] = Idle]
    /\ UNCHANGED <<failClosed, counters, orphaned, grants>>

\* The process dies between two commands.
Crash(l) ==
    /\ lane[l].pc \in {"incr", "expire", "ttl"}
    /\ lane' = [lane EXCEPT ![l] = Idle]
    /\ orphaned' = IF lane[l].pc = "expire"
                   THEN orphaned \union {Key(l)} ELSE orphaned
    /\ UNCHANGED <<failClosed, counters, grants>>

\* Redis drops a key whose time to live is over.
Aged(c) == IF c.ttl = None THEN c
           ELSE IF c.ttl = 1 THEN NoKey
           ELSE [count |-> c.count, ttl |-> c.ttl - 1]

Older(ages) == [i \in Recent |-> IF ages[i] < Window THEN ages[i] + 1 ELSE Window]

Tick ==
    /\ counters' = [k \in Peers |-> Aged(counters[k])]
    /\ grants' = [p \in Strangers |-> Older(grants[p])]
    /\ UNCHANGED <<failClosed, lane, orphaned>>

-----------------------------------------------------------------------------
Progress(l) ==
    \/ Incr(l)
    \/ IncrFails(l)
    \/ Expire(l)
    \/ ExpireFails(l)
    \/ Ttl(l)
    \/ TtlFails(l)
    \/ Leave(l)

Next ==
    \/ \E l \in Requests, c \in Connections : Arrive(l, c[1], c[2])
    \/ \E l \in Requests : Progress(l) \/ Crash(l)
    \/ Tick

Spec == Init /\ [][Next]_vars

\* Time passes, and a request in the dependency gets its next answer or error.
Fairness == WF_vars(Tick) /\ \A l \in Requests : WF_vars(Progress(l))

LiveSpec == Spec /\ Fairness

-----------------------------------------------------------------------------
(* What the limiter promises.                                              *)

\* Every variable keeps to its shape, and no counter outgrows its cap.
TypeOK ==
    /\ failClosed \in BOOLEAN
    /\ counters \in [Peers -> Counter]
    /\ lane \in [Requests -> Lane]
    /\ orphaned \subseteq Peers
    /\ grants \in [Strangers -> [Recent -> 0..Window]]

\* A counter that will not expire is about to be given its time to live by
\* exactly one request, or that request met a fault: however requests for one
\* key interleave, none is left for the next one to set.
ExpiryAccounted ==
    \A k \in Peers :
        counters[k].count > 0 /\ counters[k].ttl = None =>
            \/ k \in orphaned
            \/ \E l \in Requests :
                  /\ lane[l].pc = "expire" /\ lane[l].key = k
                  /\ \A m \in Requests \ {l} :
                        lane[m].pc = "expire" => lane[m].key # k

\* Whatever headers a peer sends that is no trusted proxy, and whatever fails,
\* no more than twice max_requests of its requests find their count within the
\* limit in any span of the window's length (with fail-closed settings no others
\* run): two fixed windows can meet inside it, never three.
TwiceTheLimit ==
    \A p \in Strangers : grants[p][2 * MaxRequests + 1] = Window

\* With fail-closed settings a request runs only if Redis counted it and the
\* count was within the limit; a 429 always stems from a count over the limit.
CountedOrRefused ==
    \A l \in Requests :
        /\ failClosed /\ lane[l].verdict = 200 =>
               lane[l].count \in 1..MaxRequests
        /\ lane[l].verdict = 429 => lane[l].count > MaxRequests

\* A count as far as the limit tells counts apart.
UpToTooMany(count) == IF count > MaxRequests THEN MaxRequests + 1 ELSE count

\* However commands interleave and fail, each key keeps one fixed window: it is
\* started when none is running, nothing that is counted prolongs it, and only
\* its end clears the count.
FixedWindows == INSTANCE FixedWindow WITH
    Keys  <- Peers,
    Limit <- MaxRequests,
    hits  <- [k \in Peers |-> UpToTooMany(counters[k].count)],
    left  <- [k \in Peers |-> counters[k].ttl]

WindowImplemented == FixedWindows!WindowSpec

\* An address over the limit is let in again, unless a fault took its EXPIRE:
\* refused requests raise the counter but never put its end off.
BlockedThenFree ==
    \A k \in Peers :
        (counters[k].count > MaxRequests) ~> (counters[k] = NoKey \/ k \in orphaned)

-----------------------------------------------------------------------------
(* What README.md says of it, and the code does not do.                    *)

\* README.md:373 and 833: a sliding window counts the requests of the last
\* 60 seconds, and refuses once they exceed the limit.
SlidingWindow ==
    \A p \in Strangers : grants[p][MaxRequests + 1] = Window

\* README.md:373: only the last 60 seconds count, so that a block ends.
BlocksEnd ==
    \A k \in Peers : (counters[k].count > MaxRequests) ~> (counters[k] = NoKey)
=============================================================================
