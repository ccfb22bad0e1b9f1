------------------------- MODULE RateLimiterProofs -------------------------
(***************************************************************************)
(* What the limiter guarantees for any number of requests, addresses,      *)
(* limit and window, proved from the inductive invariants IInv and, for    *)
(* what is about the history, HInv.                                        *)
(*                                                                         *)
(* ExpiryAccounted is not inductive: that only one request is about to set *)
(* an expiry rests on the key still being there without one for as long as *)
(* that request is suspended (Waiting), which in turn rests on nobody else *)
(* being able to set it.                                                   *)
(***************************************************************************)
EXTENDS RateLimiter, TLAPS

\* The part of TypeOK the argument needs; it leaves out the history.
ShapeOK ==
    /\ counters \in [Peers -> Counter]
    /\ lane \in [Requests -> Lane]

\* Where the dependency is suspended, and what its count then is.
CountOK(q) ==
    /\ q.pc = "expire" => q.count = 1
    /\ q.pc = "ttl" => q.count > MaxRequests
    /\ q.pc # "done" => q.verdict = 0
    /\ failClosed /\ q.verdict = 200 => q.count \in 1..MaxRequests
    /\ q.verdict = 429 => q.count > MaxRequests

\* The key of a request that is about to set its expiry has none yet.
Waiting(q) ==
    q.pc = "expire" => counters[q.key].count > 0 /\ counters[q.key].ttl = None

\* No two requests are about to set the same expiry.
Apart ==
    \A l, m \in Requests :
        l # m /\ lane[l].pc = "expire" /\ lane[m].pc = "expire"
            => lane[l].key # lane[m].key

IInv ==
    /\ ShapeOK
    /\ \A k \in Peers : counters[k].count = 0 => counters[k].ttl = None
    /\ \A l \in Requests : CountOK(lane[l]) /\ Waiting(lane[l])
    /\ Apart
    /\ ExpiryAccounted

-----------------------------------------------------------------------------
LEMMA InitOK == Init => IInv
<1> SUFFICES ASSUME Init
             PROVE  IInv
  OBVIOUS
<1>1. ShapeOK
  BY LimiterAssumption
  DEF Init, ShapeOK, NoKey, Counter, CountCap, Idle, Lane, Peers
<1>2. QED
  BY <1>1
  DEF Init, IInv, NoKey, Idle, CountOK, Waiting, Apart, ExpiryAccounted

\* Become moves one lane and keeps its peer and its key.
LEMMA BecomeFields ==
    ASSUME IInv, NEW l \in Requests, NEW pc \in {"expire", "ttl", "done"},
           NEW count \in 0..CountCap, NEW verdict \in {0, 200, 429, 503},
           Become(l, pc, count, verdict)
    PROVE  /\ lane' \in [Requests -> Lane]
           /\ \A m \in Requests \ {l} : lane'[m] = lane[m]
           /\ lane'[l].pc = pc /\ lane'[l].key = lane[l].key
           /\ lane'[l].count = count /\ lane'[l].verdict = verdict
<1> DEFINE q == [pc |-> pc, peer |-> lane[l].peer, key |-> lane[l].key,
                 count |-> count, verdict |-> verdict]
<1>1. lane' = [lane EXCEPT ![l] = q]
  BY DEF Become
<1>2. q \in Lane
  BY DEF Lane, IInv, ShapeOK
<1>3. QED
  BY <1>1, <1>2 DEF IInv, ShapeOK

\* INCR counts one more, exactly where it is compared.
LEMMA IncrementedBound ==
    ASSUME IInv, NEW k \in Peers
    PROVE  /\ Incremented(k) \in 1..CountCap
           /\ Incremented(k) = 1 => counters[k].count = 0
<1>1. counters[k].count \in 0..CountCap /\ MaxRequests \in Nat /\ CountCap = MaxRequests + 2
  BY LimiterAssumption DEF IInv, ShapeOK, Counter, CountCap
<1>2. QED
  BY <1>1 DEF Incremented

\* A step after which lane l is not about to set an expiry keeps the
\* invariant, if it disturbs no other request's key, and if a key that has no
\* expiry afterwards had none before, or lost it to a fault.
LEMMA Settling ==
    ASSUME IInv, NEW l \in Requests, NEW q \in Lane,
           lane' = [lane EXCEPT ![l] = q],
           q.pc # "expire", CountOK(q), failClosed' = failClosed,
           counters' \in [Peers -> Counter],
           \A k \in Peers : counters'[k].count = 0 => counters'[k].ttl = None,
           \A m \in Requests \ {l} : lane[m].pc = "expire" =>
               /\ counters'[lane[m].key].count > 0
               /\ counters'[lane[m].key].ttl = None,
           orphaned \subseteq orphaned',
           \A k \in Peers : counters'[k].count > 0 /\ counters'[k].ttl = None =>
               \/ k \in orphaned'
               \/ /\ counters[k].count > 0 /\ counters[k].ttl = None
                  /\ ~(lane[l].pc = "expire" /\ lane[l].key = k)
    PROVE  IInv'
<1>1. /\ lane' \in [Requests -> Lane]
      /\ lane'[l] = q
      /\ \A m \in Requests \ {l} : lane'[m] = lane[m]
  BY DEF IInv, ShapeOK
<1>2. ShapeOK'
  BY <1>1 DEF ShapeOK
<1>3. \A m \in Requests : CountOK(lane[m])'
  <2> SUFFICES ASSUME NEW m \in Requests
               PROVE  CountOK(lane[m])'
    OBVIOUS
  <2>1. CASE m = l
    BY <1>1, <2>1 DEF CountOK
  <2>2. CASE m # l
    BY <1>1, <2>2 DEF IInv, CountOK
  <2>3. QED
    BY <2>1, <2>2
<1>4. \A m \in Requests : Waiting(lane[m])'
  BY <1>1 DEF Waiting
<1>5. Apart'
  BY <1>1 DEF IInv, Apart
<1>6. ExpiryAccounted'
  <2> SUFFICES ASSUME NEW k \in Peers,
                      counters'[k].count > 0, counters'[k].ttl = None,
                      k \notin orphaned'
               PROVE  \E o \in Requests :
                         /\ lane'[o].pc = "expire" /\ lane'[o].key = k
                         /\ \A m \in Requests \ {o} :
                               lane'[m].pc = "expire" => lane'[m].key # k
    BY DEF ExpiryAccounted
  <2>1. /\ counters[k].count > 0 /\ counters[k].ttl = None
        /\ k \notin orphaned
        /\ ~(lane[l].pc = "expire" /\ lane[l].key = k)
    OBVIOUS
  <2>2. PICK o \in Requests :
               /\ lane[o].pc = "expire" /\ lane[o].key = k
               /\ \A m \in Requests \ {o} : lane[m].pc = "expire" => lane[m].key # k
    BY <2>1 DEF IInv, ExpiryAccounted
  <2>3. o # l
    BY <2>1, <2>2
  <2>4. \A m \in Requests \ {o} : lane'[m].pc = "expire" => lane'[m].key # k
    BY <1>1, <2>2
  <2>5. QED
    BY <1>1, <2>2, <2>3, <2>4
<1>7. QED
  BY <1>2, <1>3, <1>4, <1>5, <1>6 DEF IInv

-----------------------------------------------------------------------------
(* One lemma per action.                                                   *)

\* The counters keep their shape through INCR of k: nothing but the count of k
\* moves, and it is positive afterwards.
LEMMA CountedFields ==
    ASSUME IInv, NEW k \in Peers, Counted(k)
    PROVE  /\ counters' \in [Peers -> Counter]
           /\ \A j \in Peers \ {k} : counters'[j] = counters[j]
           /\ counters'[k].count = Incremented(k)
           /\ counters'[k].ttl = counters[k].ttl
           /\ \A j \in Peers : counters'[j].count = 0 => counters'[j].ttl = None
<1> DEFINE c == [count |-> Incremented(k), ttl |-> counters[k].ttl]
<1>1. counters' = [counters EXCEPT ![k] = c]
  BY DEF Counted
<1>2. Incremented(k) \in 1..CountCap
  BY IncrementedBound
<1>3. c \in Counter
  BY <1>2 DEF Counter, IInv, ShapeOK
<1>4. /\ counters' \in [Peers -> Counter]
      /\ \A j \in Peers \ {k} : counters'[j] = counters[j]
      /\ counters'[k] = c
  BY <1>1, <1>3 DEF IInv, ShapeOK
<1>5. QED
  BY <1>2, <1>4 DEF IInv

\* The counters keep their shape through EXPIRE of k: it has a time to live
\* afterwards, or is no key.
LEMMA ExpiringFields ==
    ASSUME IInv, NEW k \in Peers, Expiring(k)
    PROVE  /\ counters' \in [Peers -> Counter]
           /\ \A j \in Peers \ {k} : counters'[j] = counters[j]
           /\ counters'[k].count = 0 \/ counters'[k].ttl # None
           /\ \A j \in Peers : counters'[j].count = 0 => counters'[j].ttl = None
<1> DEFINE c == IF counters[k].count = 0 THEN counters[k]
                ELSE [count |-> counters[k].count, ttl |-> Window]
<1>1. counters' = [counters EXCEPT ![k] = c]
  BY DEF Expiring
<1>2. Window \in 1..Window /\ Window # None
  BY LimiterAssumption
<1>3. c \in Counter
  BY <1>2 DEF Counter, IInv, ShapeOK
<1>4. /\ counters' \in [Peers -> Counter]
      /\ \A j \in Peers \ {k} : counters'[j] = counters[j]
      /\ counters'[k] = c
  BY <1>1, <1>3 DEF IInv, ShapeOK
<1>5. c.count = 0 \/ c.ttl # None
  BY <1>2
<1>6. c.count = 0 => c.ttl = None
  BY DEF IInv
<1>7. QED
  BY <1>4, <1>5, <1>6 DEF IInv

\* Facts about Become, in the form Settling asks for.
LEMMA BecomeSettles ==
    ASSUME IInv, NEW l \in Requests, NEW pc \in {"ttl", "done"},
           NEW count \in 0..CountCap, NEW verdict \in {0, 200, 429, 503},
           Become(l, pc, count, verdict),
           pc = "ttl" => count > MaxRequests /\ verdict = 0,
           failClosed /\ verdict = 200 => count \in 1..MaxRequests,
           verdict = 429 => count > MaxRequests
    PROVE  \E q \in Lane : /\ lane' = [lane EXCEPT ![l] = q]
                           /\ q.pc # "expire" /\ CountOK(q)
<1> DEFINE q == [pc |-> pc, peer |-> lane[l].peer, key |-> lane[l].key,
                 count |-> count, verdict |-> verdict]
<1>1. lane' = [lane EXCEPT ![l] = q]
  BY DEF Become
<1>2. q \in Lane
  BY DEF Lane, IInv, ShapeOK
<1>3. q.pc # "expire" /\ CountOK(q)
  BY DEF CountOK
<1>4. QED
  BY <1>1, <1>2, <1>3

\* Comparing a positive count, or giving up on Redis, settles.
LEMMA CompareSettles ==
    ASSUME IInv, NEW l \in Requests, NEW count \in 1..CountCap, Compare(l, count)
    PROVE  \E q \in Lane : /\ lane' = [lane EXCEPT ![l] = q]
                           /\ q.pc # "expire" /\ CountOK(q)
<1>1. MaxRequests \in Nat /\ CountCap = MaxRequests + 2
  BY LimiterAssumption DEF CountCap
<1>2. CASE count > MaxRequests
  <2>1. Become(l, "ttl", count, 0)
    BY <1>2 DEF Compare, Goto
  <2>2. QED
    BY <2>1, <1>1, <1>2, BecomeSettles
<1>3. CASE ~(count > MaxRequests)
  <2>1. Become(l, "done", count, 200)
    BY <1>3 DEF Compare, Decide
  <2>2. count \in 1..MaxRequests
    BY <1>1, <1>3
  <2>3. QED
    BY <2>1, <2>2, <1>1, BecomeSettles
<1>4. QED
  BY <1>2, <1>3

LEMMA RedisErrorSettles ==
    ASSUME IInv, NEW l \in Requests, NEW count \in 0..CountCap,
           OnRedisError(l, count)
    PROVE  \E q \in Lane : /\ lane' = [lane EXCEPT ![l] = q]
                           /\ q.pc # "expire" /\ CountOK(q)
<1>1. CASE failClosed
  <2>1. Become(l, "done", count, 503)
    BY <1>1 DEF OnRedisError, Decide
  <2>2. QED
    BY <2>1, BecomeSettles
<1>2. CASE ~failClosed
  <2>1. Become(l, "done", count, 200)
    BY <1>2 DEF OnRedisError, Decide
  <2>2. QED
    BY <2>1, <1>2, BecomeSettles
<1>3. QED
  BY <1>1, <1>2

\* The key of a request in flight is an address or unknown.
LEMMA LaneFields ==
    ASSUME IInv, NEW l \in Requests
    PROVE  /\ lane[l].key \in Peers /\ lane[l].peer \in Peers
           /\ lane[l].count \in 0..CountCap
           /\ lane[l].pc = "expire" => lane[l].count = 1
           /\ lane[l].pc = "ttl" => lane[l].count > MaxRequests
  BY DEF IInv, ShapeOK, Lane, CountOK

LEMMA ClientIPIsPeer ==
    ASSUME NEW peer \in Peers, NEW forwarded \in Peers
    PROVE  ClientIP(peer, forwarded) \in Peers
  BY DEF ClientIP

LEMMA IdleOK == Idle \in Lane /\ Idle.pc # "expire" /\ CountOK(Idle)
  BY LimiterAssumption DEF Idle, Lane, Peers, CountOK, CountCap

LEMMA ArriveOK ==
    ASSUME IInv, NEW l \in Requests, NEW peer \in Peers, NEW forwarded \in Peers,
           Arrive(l, peer, forwarded)
    PROVE  IInv'
<1> DEFINE q == [pc |-> "incr", peer |-> peer, key |-> ClientIP(peer, forwarded),
                 count |-> 0, verdict |-> 0]
<1>1. lane' = [lane EXCEPT ![l] = q] /\ UNCHANGED <<failClosed, counters, orphaned>>
  BY DEF Arrive
<1>2. q \in Lane /\ q.pc # "expire" /\ CountOK(q)
  BY LimiterAssumption, ClientIPIsPeer DEF Lane, CountOK, CountCap
<1>3. lane[l].pc = "idle"
  BY DEF Arrive
<1> HIDE DEF q
<1>4. QED
  BY <1>1, <1>2, <1>3, Settling DEF IInv, ShapeOK, Waiting

\* Steps that leave the counters and the histories alone, of a lane that was
\* not about to set an expiry or whose key is then orphaned.
LEMMA QuietOK ==
    ASSUME IInv, NEW l \in Requests, NEW q \in Lane,
           lane' = [lane EXCEPT ![l] = q], q.pc # "expire", CountOK(q),
           UNCHANGED <<failClosed, counters>>,
           orphaned \subseteq orphaned',
           lane[l].pc = "expire" => lane[l].key \in orphaned'
    PROVE  IInv'
  BY Settling DEF IInv, ShapeOK, Waiting

LEMMA IncrOK ==
    ASSUME IInv, NEW l \in Requests, Incr(l)
    PROVE  IInv'
<1> DEFINE k == lane[l].key
           count == Incremented(k)
<1>1. /\ lane[l].pc = "incr" /\ Counted(k)
      /\ IF count = 1 THEN Goto(l, "expire", count) ELSE Compare(l, count)
      /\ UNCHANGED <<failClosed, orphaned>>
  BY DEF Incr, Key
<1>2. k \in Peers
  BY LaneFields
<1>3. count \in 1..CountCap /\ (count = 1 => counters[k].count = 0)
  BY <1>2, IncrementedBound
<1> HIDE DEF count
<1>4. /\ counters' \in [Peers -> Counter]
      /\ \A j \in Peers \ {k} : counters'[j] = counters[j]
      /\ counters'[k].count = count
      /\ counters'[k].ttl = counters[k].ttl
      /\ \A j \in Peers : counters'[j].count = 0 => counters'[j].ttl = None
  BY <1>1, <1>2, CountedFields DEF count
<1>5. \A m \in Requests : lane[m].pc = "expire" =>
          /\ lane[m].key \in Peers
          /\ counters[lane[m].key].count > 0 /\ counters[lane[m].key].ttl = None
  BY LaneFields DEF IInv, Waiting
<1>6. \A m \in Requests : lane[m].pc = "expire" =>
          /\ counters'[lane[m].key].count > 0 /\ counters'[lane[m].key].ttl = None
  BY <1>2, <1>3, <1>4, <1>5
<1>7. CASE count = 1
  <2>1. Become(l, "expire", 1, 0)
    BY <1>1, <1>7 DEF Goto
  <2>2. /\ lane' \in [Requests -> Lane]
        /\ \A m \in Requests \ {l} : lane'[m] = lane[m]
        /\ lane'[l].pc = "expire" /\ lane'[l].key = k
        /\ lane'[l].count = 1 /\ lane'[l].verdict = 0
    BY <2>1, <1>3, <1>7, BecomeFields
  <2>3. counters[k].count = 0 /\ counters[k].ttl = None
    BY <1>2, <1>3, <1>7 DEF IInv
  <2>4. \A m \in Requests \ {l} : lane[m].pc = "expire" => lane[m].key # k
    BY <1>5, <2>3
  <2>5. \A m \in Requests : CountOK(lane[m])'
    <3> SUFFICES ASSUME NEW m \in Requests
                 PROVE  CountOK(lane[m])'
      OBVIOUS
    <3>1. CASE m = l
      BY <2>2, <3>1 DEF CountOK
    <3>2. CASE m # l
      BY <1>1, <2>2, <3>2 DEF IInv, CountOK
    <3>3. QED
      BY <3>1, <3>2
  <2>6. \A m \in Requests : Waiting(lane[m])'
    BY <1>4, <1>6, <1>7, <2>2, <2>3 DEF Waiting
  <2>7. Apart'
    BY <2>2, <2>4 DEF IInv, Apart
  <2>8. ExpiryAccounted'
    <3> SUFFICES ASSUME NEW j \in Peers,
                        counters'[j].count > 0, counters'[j].ttl = None,
                        j \notin orphaned
                 PROVE  \E o \in Requests :
                           /\ lane'[o].pc = "expire" /\ lane'[o].key = j
                           /\ \A m \in Requests \ {o} :
                                 lane'[m].pc = "expire" => lane'[m].key # j
      BY <1>1 DEF ExpiryAccounted
    <3>1. CASE j = k
      BY <2>2, <2>4, <3>1
    <3>2. CASE j # k
      <4>1. PICK o \in Requests :
                   /\ lane[o].pc = "expire" /\ lane[o].key = j
                   /\ \A m \in Requests \ {o} : lane[m].pc = "expire" => lane[m].key # j
        BY <1>4, <3>2 DEF IInv, ExpiryAccounted
      <4>2. o # l
        BY <1>1, <4>1
      <4>3. \A m \in Requests \ {o} : lane'[m].pc = "expire" => lane'[m].key # j
        BY <2>2, <3>2, <4>1
      <4>4. QED
        BY <2>2, <4>1, <4>2, <4>3
    <3>3. QED
      BY <3>1, <3>2
  <2>9. ShapeOK'
    BY <1>4, <2>2 DEF ShapeOK
  <2>10. QED
    BY <1>4, <2>5, <2>6, <2>7, <2>8, <2>9 DEF IInv
<1>8. CASE count # 1
  <2>1. PICK q \in Lane : /\ lane' = [lane EXCEPT ![l] = q]
                          /\ q.pc # "expire" /\ CountOK(q)
    BY <1>1, <1>3, <1>8, CompareSettles
  <2>2. counters[k].count > 0
    BY <1>2, <1>3, <1>8, LimiterAssumption
    DEF count, Incremented, IInv, ShapeOK, Counter, CountCap
  <2>3. \A j \in Peers : counters'[j].count > 0 /\ counters'[j].ttl = None =>
            counters[j].count > 0 /\ counters[j].ttl = None
    BY <1>4, <2>2
  <2>4. QED
    BY <1>1, <1>4, <1>6, <2>1, <2>3, Settling
<1>9. QED
  BY <1>7, <1>8

LEMMA IncrFailsOK ==
    ASSUME IInv, NEW l \in Requests, IncrFails(l)
    PROVE  IInv'
<1> DEFINE k == lane[l].key
<1>1. lane[l].pc = "incr" /\ OnRedisError(l, 0) /\ UNCHANGED failClosed /\ k \in Peers
  BY LaneFields DEF IncrFails
<1>2. PICK q \in Lane : /\ lane' = [lane EXCEPT ![l] = q]
                        /\ q.pc # "expire" /\ CountOK(q)
  BY <1>1, RedisErrorSettles, LimiterAssumption DEF CountCap
<1>3. CASE UNCHANGED <<counters, orphaned>>
  BY <1>1, <1>2, <1>3, QuietOK
<1>4. CASE /\ Counted(k)
           /\ orphaned' = IF counters[k].count = 0
                          THEN orphaned \union {k} ELSE orphaned
  <2>1. /\ counters' \in [Peers -> Counter]
        /\ \A j \in Peers \ {k} : counters'[j] = counters[j]
        /\ counters'[k].count \in 1..CountCap
        /\ counters'[k].ttl = counters[k].ttl
        /\ \A j \in Peers : counters'[j].count = 0 => counters'[j].ttl = None
    BY <1>1, <1>4, CountedFields, IncrementedBound
  <2>2. counters[k].count > 0 \/ k \in orphaned'
    BY <1>1, <1>4 DEF IInv, ShapeOK, Counter
  <2>3. \A j \in Peers : counters'[j].count > 0 /\ counters'[j].ttl = None =>
            j \in orphaned' \/ (counters[j].count > 0 /\ counters[j].ttl = None)
    BY <2>1, <2>2
  <2>4. \A m \in Requests : lane[m].pc = "expire" =>
            /\ lane[m].key \in Peers
            /\ counters[lane[m].key].count > 0 /\ counters[lane[m].key].ttl = None
    BY LaneFields DEF IInv, Waiting
  <2>5. \A m \in Requests : lane[m].pc = "expire" =>
            /\ counters'[lane[m].key].count > 0 /\ counters'[lane[m].key].ttl = None
    BY <1>1, <2>1, <2>4
  <2>6. orphaned \subseteq orphaned'
    BY <1>4
  <2>7. QED
    BY <1>1, <1>2, <2>1, <2>3, <2>5, <2>6, Settling
<1>5. QED
  BY <1>3, <1>4 DEF IncrFails, Key

\* EXPIRE is executed, whatever its answer makes of the request.
LEMMA ExpiringOK ==
    ASSUME IInv, NEW l \in Requests, NEW q \in Lane,
           lane[l].pc = "expire", lane' = [lane EXCEPT ![l] = q],
           q.pc # "expire", CountOK(q), Expiring(lane[l].key),
           UNCHANGED <<failClosed, orphaned>>
    PROVE  IInv'
<1> DEFINE k == lane[l].key
<1>1. k \in Peers
  BY LaneFields
<1>2. /\ counters' \in [Peers -> Counter]
      /\ \A j \in Peers \ {k} : counters'[j] = counters[j]
      /\ counters'[k].count = 0 \/ counters'[k].ttl # None
      /\ \A j \in Peers : counters'[j].count = 0 => counters'[j].ttl = None
  BY <1>1, ExpiringFields
<1>3. \A m \in Requests \ {l} : lane[m].pc = "expire" =>
          /\ lane[m].key \in Peers /\ lane[m].key # k
          /\ counters[lane[m].key].count > 0 /\ counters[lane[m].key].ttl = None
  BY LaneFields DEF IInv, Waiting, Apart
<1>4. \A m \in Requests \ {l} : lane[m].pc = "expire" =>
          /\ counters'[lane[m].key].count > 0 /\ counters'[lane[m].key].ttl = None
  BY <1>2, <1>3
<1>5. \A j \in Peers : counters'[j].count > 0 /\ counters'[j].ttl = None =>
          /\ counters[j].count > 0 /\ counters[j].ttl = None
          /\ ~(lane[l].pc = "expire" /\ lane[l].key = j)
  BY <1>1, <1>2
<1>6. QED
  BY <1>2, <1>4, <1>5, Settling

LEMMA ExpireOK ==
    ASSUME IInv, NEW l \in Requests, Expire(l)
    PROVE  IInv'
<1>1. /\ lane[l].pc = "expire" /\ lane[l].count = 1 /\ Expiring(lane[l].key)
      /\ Compare(l, lane[l].count) /\ UNCHANGED <<failClosed, orphaned>>
  BY LaneFields DEF Expire, Key
<1>2. 1 \in 1..CountCap
  BY LimiterAssumption DEF CountCap
<1>3. PICK q \in Lane : /\ lane' = [lane EXCEPT ![l] = q]
                        /\ q.pc # "expire" /\ CountOK(q)
  BY <1>1, <1>2, CompareSettles
<1>4. QED
  BY <1>1, <1>3, ExpiringOK

LEMMA ExpireFailsOK ==
    ASSUME IInv, NEW l \in Requests, ExpireFails(l)
    PROVE  IInv'
<1>1. /\ lane[l].pc = "expire" /\ lane[l].count \in 0..CountCap
      /\ OnRedisError(l, lane[l].count) /\ UNCHANGED failClosed
  BY LaneFields DEF ExpireFails
<1>2. PICK q \in Lane : /\ lane' = [lane EXCEPT ![l] = q]
                        /\ q.pc # "expire" /\ CountOK(q)
  BY <1>1, RedisErrorSettles
<1>3. CASE orphaned' = orphaned \union {Key(l)} /\ UNCHANGED counters
  BY <1>1, <1>2, <1>3, QuietOK DEF Key
<1>4. CASE Expiring(Key(l)) /\ UNCHANGED orphaned
  BY <1>1, <1>2, <1>4, ExpiringOK DEF Key
<1>5. QED
  BY <1>3, <1>4 DEF ExpireFails

LEMMA TtlOK ==
    ASSUME IInv, NEW l \in Requests, Ttl(l) \/ TtlFails(l)
    PROVE  IInv'
<1>1. /\ lane[l].pc = "ttl" /\ lane[l].count \in 0..CountCap
      /\ lane[l].count > MaxRequests /\ UNCHANGED <<failClosed, counters, orphaned>>
  BY LaneFields DEF Ttl, TtlFails
<1>2. CASE Become(l, "done", lane[l].count, 429)
  <2>1. PICK q \in Lane : /\ lane' = [lane EXCEPT ![l] = q]
                          /\ q.pc # "expire" /\ CountOK(q)
    BY <1>1, <1>2, BecomeSettles
  <2>2. QED
    BY <1>1, <2>1, QuietOK
<1>3. CASE OnRedisError(l, lane[l].count)
  <2>1. PICK q \in Lane : /\ lane' = [lane EXCEPT ![l] = q]
                          /\ q.pc # "expire" /\ CountOK(q)
    BY <1>1, <1>3, RedisErrorSettles
  <2>2. QED
    BY <1>1, <2>1, QuietOK
<1>4. QED
  BY <1>2, <1>3 DEF Ttl, TtlFails, Decide

LEMMA LeaveOK ==
    ASSUME IInv, NEW l \in Requests, Leave(l) \/ Crash(l)
    PROVE  IInv'
<1>1. /\ lane' = [lane EXCEPT ![l] = Idle] /\ UNCHANGED <<failClosed, counters>>
      /\ orphaned \subseteq orphaned'
      /\ lane[l].pc = "expire" => lane[l].key \in orphaned'
  BY DEF Leave, Crash, Key
<1> QED
  BY <1>1, IdleOK, QuietOK

LEMMA TickOK ==
    ASSUME IInv, Tick
    PROVE  IInv'
<1>1. /\ counters' = [k \in Peers |-> Aged(counters[k])]
      /\ UNCHANGED <<failClosed, lane, orphaned>>
  BY DEF Tick
<1>2. \A k \in Peers : /\ Aged(counters[k]) \in Counter
                       /\ Aged(counters[k]).count = 0 => Aged(counters[k]).ttl = None
  <2> SUFFICES ASSUME NEW k \in Peers
               PROVE  /\ Aged(counters[k]) \in Counter
                      /\ Aged(counters[k]).count = 0 => Aged(counters[k]).ttl = None
    OBVIOUS
  <2>1. /\ counters[k].count \in 0..CountCap
        /\ counters[k].ttl \in (1..Window) \union {None}
        /\ counters[k].count = 0 => counters[k].ttl = None
        /\ counters[k] \in Counter
    BY DEF IInv, ShapeOK, Counter
  <2>2. MaxRequests \in Nat /\ CountCap = MaxRequests + 2 /\ Window \in Nat
    BY LimiterAssumption DEF CountCap
  <2>3. CASE counters[k].ttl = None
    BY <2>1, <2>3 DEF Aged
  <2>4. CASE counters[k].ttl = 1
    BY <2>1, <2>2, <2>4, LimiterAssumption DEF Aged, NoKey, Counter
  <2>5. CASE counters[k].ttl # None /\ counters[k].ttl # 1
    <3>1. /\ counters[k].ttl - 1 \in 1..Window
          /\ counters[k].count # 0
      BY <2>1, <2>2, <2>5
    <3>2. QED
      BY <2>1, <2>5, <3>1 DEF Aged, Counter
  <2>6. QED
    BY <2>3, <2>4, <2>5
<1>3. /\ counters' \in [Peers -> Counter]
      /\ \A k \in Peers : counters'[k].count = 0 => counters'[k].ttl = None
  BY <1>1, <1>2
<1>4. \A k \in Peers : counters[k].ttl = None => counters'[k] = counters[k]
  BY <1>1 DEF Aged
<1>5. \A k \in Peers : counters'[k].count > 0 /\ counters'[k].ttl = None =>
          counters[k].count > 0 /\ counters[k].ttl = None
  <2> SUFFICES ASSUME NEW k \in Peers,
                      counters'[k].count > 0, counters'[k].ttl = None
               PROVE  counters[k].ttl = None
    BY <1>4
  <2>1. counters[k].ttl \in (1..Window) \union {None}
    BY DEF IInv, ShapeOK, Counter
  <2>2. None \notin Nat /\ Window \in Nat
    BY LimiterAssumption
  <2>3. counters[k].ttl # None /\ counters[k].ttl # 1 => counters'[k].ttl \in Nat
    BY <1>1, <2>1, <2>2 DEF Aged
  <2>4. counters[k].ttl = 1 => counters'[k].count = 0
    BY <1>1, <2>2 DEF Aged, NoKey
  <2>5. QED
    BY <2>2, <2>3, <2>4
<1>6. \A m \in Requests : lane[m].pc = "expire" =>
          /\ lane[m].key \in Peers
          /\ counters[lane[m].key].count > 0 /\ counters[lane[m].key].ttl = None
  BY LaneFields DEF IInv, Waiting
<1>7. \A m \in Requests : Waiting(lane[m])'
  BY <1>1, <1>4, <1>6 DEF Waiting
<1>8. \A m \in Requests : CountOK(lane[m])'
  BY <1>1 DEF IInv, CountOK
<1>9. ExpiryAccounted'
  BY <1>1, <1>5 DEF IInv, ExpiryAccounted
<1>10. ShapeOK' /\ Apart'
  BY <1>1, <1>3 DEF IInv, ShapeOK, Apart
<1>11. QED
  BY <1>3, <1>7, <1>8, <1>9, <1>10 DEF IInv

-----------------------------------------------------------------------------
LEMMA StepOK == IInv /\ [Next]_vars => IInv'
<1> SUFFICES ASSUME IInv, [Next]_vars
             PROVE  IInv'
  OBVIOUS
<1>1. ASSUME NEW l \in Requests, NEW c \in Connections, Arrive(l, c[1], c[2])
      PROVE  IInv'
  <2>1. c[1] \in Peers /\ c[2] \in Peers
    BY LimiterAssumption
  <2>2. QED
    BY <1>1, <2>1, ArriveOK
<1>2. ASSUME NEW l \in Requests, Progress(l) \/ Crash(l)
      PROVE  IInv'
  <2>1. CASE Incr(l)
    BY <2>1, IncrOK
  <2>2. CASE IncrFails(l)
    BY <2>2, IncrFailsOK
  <2>3. CASE Expire(l)
    BY <2>3, ExpireOK
  <2>4. CASE ExpireFails(l)
    BY <2>4, ExpireFailsOK
  <2>5. CASE Ttl(l) \/ TtlFails(l)
    BY <2>5, TtlOK
  <2>6. CASE Leave(l) \/ Crash(l)
    BY <2>6, LeaveOK
  <2>7. QED
    BY <1>2, <2>1, <2>2, <2>3, <2>4, <2>5, <2>6 DEF Progress
<1>3. CASE Tick
  BY <1>3, TickOK
<1>4. CASE UNCHANGED vars
  BY <1>4
  DEF vars, IInv, ShapeOK, CountOK, Waiting, Apart, ExpiryAccounted
<1>5. QED
  BY <1>1, <1>2, <1>3, <1>4 DEF Next

\* The invariant the theorems below rest on.
THEOREM Invariance == Spec => []IInv
  BY InitOK, StepOK, PTL DEF Spec

\* A key without an expiry is always about to get it from exactly one request,
\* or lost it to a fault.
THEOREM OneRequestSetsTheExpiry == Spec => []ExpiryAccounted
<1>1. IInv => ExpiryAccounted
  BY DEF IInv
<1>2. QED
  BY <1>1, Invariance, PTL

\* With fail-closed settings nothing runs that Redis did not count within the
\* limit, and a 429 always stems from a count over it.
THEOREM NothingRunsUncounted == Spec => []CountedOrRefused
<1>1. IInv => CountedOrRefused
  BY DEF IInv, CountOK, CountedOrRefused
<1>2. QED
  BY <1>1, Invariance, PTL

-----------------------------------------------------------------------------
(* The history: how much one peer gets in any span of the window's length. *)

\* Requests within the limit that a counter has let through at most.
Within(c) == IF c.count < MaxRequests THEN c.count ELSE MaxRequests

\* What the latest requests g of a peer owe to its counter c.  All but
\* Within(c) of them came before the counter, hence before its window began;
\* and before those came another counter, which lasted a window and let
\* MaxRequests through.
Trail(c, g) ==
    /\ \A i \in Recent : i > Within(c) /\ c.ttl # None => g[i] + c.ttl >= Window
    /\ \A i \in Recent : i > Within(c) + MaxRequests => g[i] = Window

Histories == [Recent -> 0..Window]

\* A peer that is no proxy is counted under its own address.
OwnKey(q) == q.peer \in Strangers => q.key = q.peer

HInv ==
    /\ IInv
    /\ failClosed \in BOOLEAN
    /\ orphaned \subseteq Peers
    /\ grants \in [Strangers -> Histories]
    /\ \A l \in Requests : OwnKey(lane[l])
    /\ \A p \in Strangers : Trail(counters[p], grants[p])

LEMMA WithinBound ==
    ASSUME NEW c \in Counter
    PROVE  /\ Within(c) \in 0..MaxRequests /\ c.count \in Nat
           /\ c.ttl # None => c.ttl \in 1..Window
  BY LimiterAssumption DEF Within, Counter, CountCap

\* Time: a counter is dropped no sooner than a window after its predecessor.
LEMMA TrailAged ==
    ASSUME NEW c \in Counter, NEW g \in Histories, Trail(c, g),
           c.count = 0 => c.ttl = None, NEW h, h = Older(g)
    PROVE  h \in Histories /\ Trail(Aged(c), h)
<1>1. /\ Within(c) \in 0..MaxRequests
      /\ c.ttl # None => c.ttl \in 1..Window
      /\ MaxRequests \in Nat /\ Window \in Nat \ {0}
  BY WithinBound, LimiterAssumption
<1>2. h = [i \in Recent |-> IF g[i] < Window THEN g[i] + 1 ELSE Window]
  BY DEF Older
<1>3. \A i \in Recent : i \in Nat /\ g[i] \in 0..Window
  BY <1>1 DEF Histories, Recent
<1>4. h \in Histories
  BY <1>1, <1>2, <1>3 DEF Histories
<1>5. ASSUME NEW i \in Recent, g[i] = Window
      PROVE  h[i] = Window
  BY <1>1, <1>2, <1>5
<1>6. \A i \in Recent : i > Within(c) + MaxRequests => h[i] = Window
  BY <1>5 DEF Trail
<1>7. CASE c.ttl = None
  <2>1. Aged(c) = c
    BY <1>7 DEF Aged
  <2>2. QED
    BY <1>4, <1>6, <1>7, <2>1 DEF Trail
<1>8. CASE c.ttl # None /\ c.ttl = 1
  <2>1. Aged(c) = NoKey
    BY <1>8 DEF Aged
  <2>2. Within(NoKey) = 0 /\ NoKey.ttl = None
    BY <1>1 DEF Within, NoKey
  <2>3. ASSUME NEW i \in Recent, i > MaxRequests
        PROVE  h[i] = Window
    <3>1. i > Within(c) /\ g[i] \in 0..Window
      BY <1>1, <1>3, <2>3
    <3>2. g[i] + 1 >= Window
      BY <1>8, <3>1 DEF Trail
    <3>3. QED
      BY <1>1, <1>2, <3>1, <3>2
  <2>4. \A i \in Recent : i > 0 + MaxRequests => h[i] = Window
    BY <1>1, <2>3
  <2>5. QED
    BY <1>4, <2>1, <2>2, <2>4 DEF Trail
<1>9. CASE c.ttl # None /\ c.ttl # 1
  <2> DEFINE d == [count |-> c.count, ttl |-> c.ttl - 1]
  <2>1. Aged(c) = d
    BY <1>9 DEF Aged
  <2>2. Within(d) = Within(c) /\ d.ttl = c.ttl - 1
    BY DEF Within
  <2>3. ASSUME NEW i \in Recent, i > Within(c)
        PROVE  h[i] + d.ttl >= Window
    <3>1. g[i] + c.ttl >= Window /\ g[i] \in 0..Window /\ c.ttl \in 1..Window
      BY <1>1, <1>3, <1>9, <2>3 DEF Trail
    <3>2. h[i] = IF g[i] < Window THEN g[i] + 1 ELSE Window
      BY <1>2
    <3>3. QED
      BY <1>1, <1>9, <2>2, <3>1, <3>2
  <2>4. Trail(d, h)
    BY <1>6, <2>2, <2>3 DEF Trail
  <2>5. QED
    BY <1>4, <2>1, <2>4
<1>10. QED
  BY <1>7, <1>8, <1>9

\* One more request was counted within the limit and let through.
LEMMA TrailGranted ==
    ASSUME NEW c \in Counter, NEW d \in Counter, NEW g \in Histories, NEW h,
           Trail(c, g), d.count = c.count + 1, d.count <= MaxRequests, d.ttl = c.ttl,
           h = [i \in Recent |-> IF i = 1 THEN 0 ELSE g[i - 1]]
    PROVE  h \in Histories /\ Trail(d, h)
<1>1. /\ c.count \in Nat /\ MaxRequests \in Nat /\ Window \in Nat \ {0}
      /\ d.ttl # None => d.ttl \in 1..Window
  BY WithinBound, LimiterAssumption
<1>2. Within(c) = c.count /\ Within(d) = c.count + 1
  BY <1>1 DEF Within
<1>3. \A i \in Recent \ {1} : i \in Nat /\ i - 1 \in Recent /\ h[i] = g[i - 1]
  BY <1>1 DEF Recent
<1>4. h \in Histories
  BY <1>1, <1>3 DEF Histories, Recent
<1>5. ASSUME NEW i \in Recent, i > c.count + 1
      PROVE  i # 1 /\ i - 1 \in Recent /\ i - 1 > c.count /\ h[i] = g[i - 1]
  <2>1. i # 1 /\ i \in Nat
    BY <1>1, <1>5 DEF Recent
  <2>2. QED
    BY <1>1, <1>3, <1>5, <2>1
<1>6. \A i \in Recent : i > c.count + 1 /\ d.ttl # None => h[i] + d.ttl >= Window
  BY <1>2, <1>5 DEF Trail
<1>7. \A i \in Recent : i > c.count + 1 + MaxRequests => h[i] = Window
  <2> SUFFICES ASSUME NEW i \in Recent, i > c.count + 1 + MaxRequests
               PROVE  h[i] = Window
    OBVIOUS
  <2>1. i > c.count + 1 /\ i - 1 > c.count + MaxRequests
    BY <1>1 DEF Recent
  <2>2. i - 1 \in Recent /\ h[i] = g[i - 1]
    BY <1>5, <2>1
  <2>3. QED
    BY <1>2, <2>1, <2>2 DEF Trail
<1>8. QED
  BY <1>2, <1>4, <1>6, <1>7 DEF Trail

\* A request was counted that got nothing, or not from this peer.
LEMMA TrailCounted ==
    ASSUME NEW c \in Counter, NEW d \in Counter, NEW g \in Histories,
           Trail(c, g), d.count >= c.count, d.ttl = c.ttl
    PROVE  Trail(d, g)
<1>1. /\ c.count \in Nat /\ d.count \in Nat /\ MaxRequests \in Nat
      /\ Within(c) \in Nat /\ Within(d) \in Nat
  BY WithinBound, LimiterAssumption
<1>2. Within(d) >= Within(c)
  BY <1>1 DEF Within
<1>3. \A i \in Recent : i \in Nat
  BY DEF Recent
<1>4. \A i \in Recent : i > Within(d) => i > Within(c)
  BY <1>1, <1>2, <1>3
<1>5. \A i \in Recent : i > Within(d) + MaxRequests => i > Within(c) + MaxRequests
  BY <1>1, <1>2, <1>3
<1>6. QED
  BY <1>4, <1>5 DEF Trail

\* The counter was given its time to live: no request is older than now.
LEMMA TrailExpiring ==
    ASSUME NEW c \in Counter, NEW d \in Counter, NEW g \in Histories,
           Trail(c, g), d.count = c.count, d.ttl = Window
    PROVE  Trail(d, g)
<1>1. Within(d) = Within(c) /\ Window \in Nat
  BY LimiterAssumption DEF Within
<1>2. \A i \in Recent : g[i] \in Nat
  BY DEF Histories
<1>3. \A i \in Recent : g[i] + d.ttl >= Window
  BY <1>1, <1>2
<1>4. QED
  BY <1>1, <1>3 DEF Trail

-----------------------------------------------------------------------------
\* What is left to show of a step that IInv survives.
HistoryOK ==
    /\ failClosed \in BOOLEAN
    /\ orphaned \subseteq Peers
    /\ grants \in [Strangers -> Histories]
    /\ \A l \in Requests : OwnKey(lane[l])
    /\ \A p \in Strangers : Trail(counters[p], grants[p])

LEMMA HistoryInit == Init => HistoryOK
<1> SUFFICES ASSUME Init
             PROVE  HistoryOK
  OBVIOUS
<1>1. MaxRequests \in Nat /\ Window \in Nat \ {0} /\ Strangers \subseteq Peers
  BY LimiterAssumption DEF Strangers
<1>2. \A p \in Strangers :
         /\ counters[p] = NoKey
         /\ grants[p] = [i \in Recent |-> Window]
  BY <1>1 DEF Init
<1>3. [i \in Recent |-> Window] \in Histories
  BY <1>1 DEF Histories
<1>4. grants \in [Strangers -> Histories]
  BY <1>3 DEF Init
<1>5. \A p \in Strangers : Trail(counters[p], grants[p])
  BY <1>2 DEF Trail, NoKey
<1>6. \A l \in Requests : OwnKey(lane[l])
  BY DEF Init, Idle, OwnKey
<1>7. QED
  BY <1>4, <1>5, <1>6 DEF Init, HistoryOK

\* A lane that moves on is still counted under the same key.
LEMMA OwnKeyKept ==
    ASSUME HInv, NEW l \in Requests, NEW pc, NEW count, NEW verdict,
           Become(l, pc, count, verdict)
    PROVE  \A m \in Requests : OwnKey(lane'[m])
<1> DEFINE q == [pc |-> pc, peer |-> lane[l].peer, key |-> lane[l].key,
                 count |-> count, verdict |-> verdict]
<1>1. lane \in [Requests -> Lane] /\ lane' = [lane EXCEPT ![l] = q]
  BY DEF Become, HInv, IInv, ShapeOK
<1>2. \A m \in Requests : lane'[m] = IF m = l THEN q ELSE lane[m]
  BY <1>1
<1>3. OwnKey(q)
  BY DEF HInv, OwnKey
<1>4. QED
  BY <1>2, <1>3 DEF HInv

\* A lane that is emptied is counted under no key.
LEMMA OwnKeyCleared ==
    ASSUME HInv, NEW l \in Requests, lane' = [lane EXCEPT ![l] = Idle]
    PROVE  \A m \in Requests : OwnKey(lane'[m])
<1>1. \A m \in Requests : lane'[m] = IF m = l THEN Idle ELSE lane[m]
  BY DEF HInv, IInv, ShapeOK
<1>2. OwnKey(Idle)
  BY DEF Idle, OwnKey
<1>3. QED
  BY <1>1, <1>2 DEF HInv

\* Redis executes INCR, and no request of the history is answered.
LEMMA TrailsCounted ==
    ASSUME HInv, NEW k \in Peers, Counted(k)
    PROVE  \A p \in Strangers : Trail(counters'[p], grants[p])
<1> SUFFICES ASSUME NEW p \in Strangers
             PROVE  Trail(counters'[p], grants[p])
  OBVIOUS
<1>1. /\ p \in Peers /\ counters[p] \in Counter /\ grants[p] \in Histories
      /\ Trail(counters[p], grants[p]) /\ IInv
  BY DEF Strangers, HInv, IInv, ShapeOK
<1>2. CASE p # k
  BY <1>1, <1>2, CountedFields
<1>3. CASE p = k
  <2>1. /\ counters'[k] \in Counter /\ counters'[k].count = Incremented(k)
        /\ counters'[k].ttl = counters[k].ttl
    BY <1>1, CountedFields
  <2>2. counters[k].count \in 0..CountCap /\ MaxRequests \in Nat /\ CountCap = MaxRequests + 2
    BY LimiterAssumption, <1>1, <1>3 DEF Counter, CountCap
  <2>3. Incremented(k) >= counters[k].count
    BY <2>2 DEF Incremented
  <2>4. QED
    BY <1>1, <1>3, <2>1, <2>3, TrailCounted
<1>4. QED
  BY <1>2, <1>3

\* INCR was answered: if within the limit, the request enters the history.
LEMMA TrailsGranted ==
    ASSUME HInv, NEW l \in Requests, lane[l].key \in Peers, Counted(Key(l)),
           grants' = Granted(l, Incremented(Key(l)))
    PROVE  /\ grants' \in [Strangers -> Histories]
           /\ \A p \in Strangers : Trail(counters'[p], grants'[p])
<1> DEFINE k == Key(l)
<1> DEFINE x == lane[l].peer
<1>1. /\ k \in Peers /\ IInv /\ grants \in [Strangers -> Histories]
      /\ \A p \in Strangers : Trail(counters'[p], grants[p])
  BY TrailsCounted DEF Key, HInv
<1>2. CASE ~(Incremented(k) <= MaxRequests /\ x \in Strangers)
  BY <1>1, <1>2 DEF Granted
<1>3. CASE Incremented(k) <= MaxRequests /\ x \in Strangers
  <2> DEFINE g == grants[x]
  <2> DEFINE h == [i \in Recent |-> IF i = 1 THEN 0 ELSE g[i - 1]]
  <2>1. grants' = [grants EXCEPT ![x] = h]
    BY <1>3 DEF Granted
  <2>2. x = k
    BY <1>3 DEF HInv, OwnKey, Key
  <2>3. /\ counters[k] \in Counter /\ counters'[k] \in Counter
        /\ counters'[k].count = Incremented(k) /\ counters'[k].ttl = counters[k].ttl
    BY <1>1, CountedFields DEF IInv, ShapeOK
  <2>4. Incremented(k) = counters[k].count + 1
    <3>1. counters[k].count \in 0..CountCap /\ MaxRequests \in Nat /\ CountCap = MaxRequests + 2
      BY LimiterAssumption, <2>3 DEF Counter, CountCap
    <3>2. QED
      BY <1>3, <3>1 DEF Incremented
  <2>5. g \in Histories /\ Trail(counters[k], g)
    BY <1>1, <1>3, <2>2 DEF HInv
  <2>6. h \in Histories /\ Trail(counters'[k], h)
    <3> HIDE DEF k, x, g
    <3>1. QED
      BY <1>3, <2>3, <2>4, <2>5, TrailGranted
  <2>7. \A p \in Strangers : grants'[p] = IF p = x THEN h ELSE grants[p]
    BY <1>1, <2>1
  <2>8. grants' \in [Strangers -> Histories]
    <3> HIDE DEF h, x
    <3>1. QED
      BY <1>1, <2>1, <2>6
  <2>9. QED
    BY <1>1, <2>2, <2>6, <2>7, <2>8
<1>4. QED
  BY <1>2, <1>3

\* Redis executes EXPIRE.
LEMMA TrailsExpiring ==
    ASSUME HInv, NEW k \in Peers, Expiring(k)
    PROVE  \A p \in Strangers : Trail(counters'[p], grants[p])
<1> SUFFICES ASSUME NEW p \in Strangers
             PROVE  Trail(counters'[p], grants[p])
  OBVIOUS
<1>1. /\ p \in Peers /\ counters[p] \in Counter /\ grants[p] \in Histories
      /\ Trail(counters[p], grants[p]) /\ IInv /\ counters \in [Peers -> Counter]
  BY DEF Strangers, HInv, IInv, ShapeOK
<1>2. counters'[p] \in Counter
  BY <1>1, ExpiringFields
<1>3. CASE p # k \/ counters[p].count = 0
  <2>1. counters'[p] = counters[p]
    BY <1>1, <1>3 DEF Expiring
  <2>2. QED
    BY <1>1, <2>1
<1>4. CASE p = k /\ counters[p].count # 0
  <2>1. counters'[p] = [count |-> counters[p].count, ttl |-> Window]
    BY <1>1, <1>4 DEF Expiring
  <2>2. counters'[p].count = counters[p].count /\ counters'[p].ttl = Window
    BY <2>1
  <2>3. QED
    BY <1>1, <1>2, <2>2, TrailExpiring
<1>5. QED
  BY <1>3, <1>4

LEMMA ArriveHistory ==
    ASSUME HInv, NEW l \in Requests, NEW peer \in Peers, NEW forwarded \in Peers,
           Arrive(l, peer, forwarded)
    PROVE  HistoryOK'
<1> DEFINE q == [pc |-> "incr", peer |-> peer, key |-> ClientIP(peer, forwarded),
                 count |-> 0, verdict |-> 0]
<1>1. \A m \in Requests : lane'[m] = IF m = l THEN q ELSE lane[m]
  BY DEF Arrive, HInv, IInv, ShapeOK
<1>2. OwnKey(q)
  BY DEF OwnKey, ClientIP, Strangers
<1>3. \A m \in Requests : OwnKey(lane'[m])
  BY <1>1, <1>2 DEF HInv
<1>4. QED
  BY <1>3 DEF Arrive, HInv, HistoryOK

\* One case per command of the dependency.
LEMMA ProgressHistory ==
    ASSUME HInv, NEW l \in Requests, Progress(l)
    PROVE  HistoryOK'
<1>1. /\ lane[l].key \in Peers /\ Key(l) = lane[l].key
      /\ HistoryOK
  BY DEF HInv, IInv, ShapeOK, Lane, Key, HistoryOK
<1>2. ASSUME NEW pc, NEW count, NEW verdict, Become(l, pc, count, verdict)
      PROVE  \A m \in Requests : OwnKey(lane'[m])
  BY <1>2, OwnKeyKept
<1>3. ASSUME NEW count, OnRedisError(l, count)
      PROVE  \A m \in Requests : OwnKey(lane'[m])
  BY <1>2, <1>3 DEF OnRedisError, Decide
<1>4. ASSUME NEW count, Compare(l, count)
      PROVE  \A m \in Requests : OwnKey(lane'[m])
  BY <1>2, <1>4 DEF Compare, Decide, Goto
<1>5. CASE Incr(l)
  <2>1. Counted(Key(l)) /\ grants' = Granted(l, Incremented(Key(l)))
    BY <1>5 DEF Incr
  <2>2. \A m \in Requests : OwnKey(lane'[m])
    BY <1>2, <1>4, <1>5 DEF Incr, Goto
  <2>3. /\ grants' \in [Strangers -> Histories]
        /\ \A p \in Strangers : Trail(counters'[p], grants'[p])
    BY <1>1, <2>1, TrailsGranted
  <2>4. QED
    BY <1>1, <1>5, <2>2, <2>3 DEF Incr, HistoryOK
<1>6. CASE IncrFails(l)
  <2>1. /\ \A m \in Requests : OwnKey(lane'[m])
        /\ failClosed' = failClosed /\ grants' = grants
    BY <1>3, <1>6 DEF IncrFails
  <2>2. orphaned' \subseteq Peers
    BY <1>1, <1>6 DEF IncrFails, HistoryOK
  <2>3. counters' = counters \/ Counted(Key(l))
    BY <1>6 DEF IncrFails
  <2>4. \A p \in Strangers : Trail(counters'[p], grants[p])
    BY <1>1, <2>3, TrailsCounted DEF HistoryOK
  <2>5. QED
    BY <1>1, <2>1, <2>2, <2>4 DEF HistoryOK
<1>7. CASE Expire(l)
  <2>1. \A m \in Requests : OwnKey(lane'[m])
    BY <1>4, <1>7 DEF Expire
  <2>2. \A p \in Strangers : Trail(counters'[p], grants[p])
    BY <1>1, <1>7, TrailsExpiring DEF Expire
  <2>3. QED
    BY <1>1, <1>7, <2>1, <2>2 DEF Expire, HistoryOK
<1>8. CASE ExpireFails(l)
  <2>1. /\ \A m \in Requests : OwnKey(lane'[m])
        /\ failClosed' = failClosed /\ grants' = grants
    BY <1>3, <1>8 DEF ExpireFails
  <2>2. orphaned' \subseteq Peers
    BY <1>1, <1>8 DEF ExpireFails, HistoryOK
  <2>3. counters' = counters \/ Expiring(Key(l))
    BY <1>8 DEF ExpireFails
  <2>4. \A p \in Strangers : Trail(counters'[p], grants[p])
    BY <1>1, <2>3, TrailsExpiring DEF HistoryOK
  <2>5. QED
    BY <1>1, <2>1, <2>2, <2>4 DEF HistoryOK
<1>9. CASE Ttl(l) \/ TtlFails(l)
  <2>1. \A m \in Requests : OwnKey(lane'[m])
    BY <1>2, <1>3, <1>9 DEF Ttl, TtlFails, Decide
  <2>2. QED
    BY <1>1, <1>9, <2>1 DEF Ttl, TtlFails, HistoryOK
<1>10. CASE Leave(l)
  <2>1. \A m \in Requests : OwnKey(lane'[m])
    BY <1>10, OwnKeyCleared DEF Leave
  <2>2. QED
    BY <1>1, <1>10, <2>1 DEF Leave, HistoryOK
<1>11. QED
  BY <1>5, <1>6, <1>7, <1>8, <1>9, <1>10 DEF Progress

LEMMA CrashHistory ==
    ASSUME HInv, NEW l \in Requests, Crash(l)
    PROVE  HistoryOK'
<1>1. \A m \in Requests : OwnKey(lane'[m])
  BY OwnKeyCleared DEF Crash
<1>2. orphaned' \subseteq Peers
  BY DEF Crash, HInv, IInv, ShapeOK, Lane, Key
<1>3. QED
  BY <1>1, <1>2 DEF Crash, HInv, HistoryOK

LEMMA TickHistory ==
    ASSUME HInv, Tick
    PROVE  HistoryOK'
<1>1. ASSUME NEW p \in Strangers
      PROVE  grants'[p] \in Histories /\ Trail(counters'[p], grants'[p])
  <2>1. p \in Peers /\ counters'[p] = Aged(counters[p]) /\ grants'[p] = Older(grants[p])
    BY DEF Strangers, Tick
  <2>2. /\ counters[p] \in Counter /\ grants[p] \in Histories
        /\ Trail(counters[p], grants[p])
        /\ counters[p].count = 0 => counters[p].ttl = None
    BY <2>1 DEF HInv, IInv, ShapeOK
  <2>3. QED
    BY <2>1, <2>2, TrailAged
<1>2. grants' = [p \in Strangers |-> grants'[p]]
  BY DEF Tick
<1>3. grants' \in [Strangers -> Histories]
  BY <1>1, <1>2
<1>4. QED
  BY <1>1, <1>3 DEF Tick, HInv, HistoryOK

THEOREM HistoryInvariance == Spec => []HInv
<1>1. (HInv <=> IInv /\ HistoryOK) /\ (HInv' <=> IInv' /\ HistoryOK')
  BY DEF HInv, HistoryOK
<1>2. Init => HInv
  BY <1>1, InitOK, HistoryInit
<1>3. HInv /\ [Next]_vars => HInv'
  <2> SUFFICES ASSUME HInv, [Next]_vars
               PROVE  HistoryOK'
    BY <1>1, StepOK
  <2>1. ASSUME NEW l \in Requests, NEW c \in Connections, Arrive(l, c[1], c[2])
        PROVE  HistoryOK'
    <3>1. c[1] \in Peers /\ c[2] \in Peers
      BY LimiterAssumption
    <3>2. QED
      BY <2>1, <3>1, ArriveHistory
  <2>2. CASE Tick
    BY <2>2, TickHistory
  <2>3. CASE UNCHANGED vars
    BY <1>1, <2>3 DEF vars, HistoryOK, OwnKey, Trail
  <2>4. QED
    BY <2>1, <2>2, <2>3, ProgressHistory, CrashHistory DEF Next
<1>4. QED
  BY <1>2, <1>3, PTL DEF Spec

\* Every variable of the limiter keeps its type, the history included.
THEOREM LimiterTypeCorrect == Spec => []TypeOK
<1>1. HInv => TypeOK
  BY DEF HInv, IInv, ShapeOK, TypeOK, Histories
<1>2. QED
  BY <1>1, HistoryInvariance, PTL

\* Whatever headers a peer sends that is no trusted proxy, and whatever
\* requests, faults and crashes interleave, no span of the window's length sees
\* more than twice max_requests of its requests counted within the limit.
THEOREM TwoWindowsAtMost == Spec => []TwiceTheLimit
<1>1. HInv => TwiceTheLimit
  <2> SUFFICES ASSUME HInv, NEW p \in Strangers
               PROVE  grants[p][2 * MaxRequests + 1] = Window
    BY DEF TwiceTheLimit
  <2>1. counters[p] \in Counter /\ Trail(counters[p], grants[p])
    BY DEF HInv, IInv, ShapeOK, Strangers
  <2>2. Within(counters[p]) \in 0..MaxRequests /\ MaxRequests \in Nat
    BY <2>1, WithinBound, LimiterAssumption
  <2>3. /\ 2 * MaxRequests + 1 \in Recent
        /\ 2 * MaxRequests + 1 > Within(counters[p]) + MaxRequests
    BY <2>2 DEF Recent
  <2>4. QED
    BY <2>1, <2>3 DEF Trail
<1>2. QED
  BY <1>1, HistoryInvariance, PTL

-----------------------------------------------------------------------------
(* The limiter keeps the fixed windows of FixedWindow.                     *)

Hits == [k \in Peers |-> UpToTooMany(counters[k].count)]
Left == [k \in Peers |-> counters[k].ttl]

LEMMA MappedInit == Init => FixedWindows!WindowInit
BY LimiterAssumption DEF Init, NoKey, UpToTooMany, FixedWindows!WindowInit

\* INCR is a hit, within the limit or over it.
LEMMA CountedMaps ==
    ASSUME IInv, NEW k \in Peers, Counted(k)
    PROVE  FixedWindows!Admit(k) \/ FixedWindows!Refuse(k)
<1>1. /\ \A j \in Peers \ {k} : counters'[j] = counters[j]
      /\ counters'[k].count = Incremented(k)
      /\ counters'[k].ttl = counters[k].ttl
  BY CountedFields
<1>2. Left' = Left
  BY <1>1 DEF Left
<1>3. /\ counters[k].count \in 0..CountCap /\ MaxRequests \in Nat
      /\ CountCap = MaxRequests + 2
  BY LimiterAssumption DEF IInv, ShapeOK, Counter, CountCap
<1>4. CASE counters[k].count < MaxRequests
  <2>1. /\ Hits[k] = counters[k].count
        /\ UpToTooMany(counters'[k].count) = Hits[k] + 1
    BY <1>1, <1>3, <1>4 DEF Hits, UpToTooMany, Incremented
  <2>2. Hits' = [Hits EXCEPT ![k] = @ + 1]
    BY <1>1, <2>1 DEF Hits
  <2>3. Hits[k] < MaxRequests
    BY <1>4, <2>1
  <2>4. QED
    BY <1>2, <2>2, <2>3 DEF FixedWindows!Admit, Hits, Left
<1>5. CASE counters[k].count >= MaxRequests
  <2>1. /\ Hits[k] >= MaxRequests
        /\ UpToTooMany(counters'[k].count) = MaxRequests + 1
    BY <1>1, <1>3, <1>5 DEF Hits, UpToTooMany, Incremented
  <2>2. Hits' = [Hits EXCEPT ![k] = MaxRequests + 1]
    BY <1>1, <2>1 DEF Hits
  <2>3. QED
    BY <1>2, <2>1, <2>2 DEF FixedWindows!Refuse, Hits, Left
<1>6. QED
  BY <1>3, <1>4, <1>5

\* EXPIRE starts the window: the request that sends it is the only one to, and
\* finds the key without one.
LEMMA ExpiringMaps ==
    ASSUME IInv, NEW l \in Requests, NEW k \in Peers,
           lane[l].pc = "expire", lane[l].key = k, Expiring(k)
    PROVE  FixedWindows!StartWindow(k)
<1> DEFINE c == [count |-> counters[k].count, ttl |-> Window]
<1>1. counters[k].count > 0 /\ counters[k].ttl = None
  BY DEF IInv, Waiting
<1>2. /\ counters[k].count > 0 /\ counters[k].count # 0
      /\ counters[k].count \in 0..CountCap /\ MaxRequests \in Nat
      /\ CountCap = MaxRequests + 2
  BY <1>1, LimiterAssumption DEF IInv, ShapeOK, Counter, CountCap
<1>3. counters' = [counters EXCEPT ![k] = c]
  BY <1>2 DEF Expiring
<1>4. c.count = counters[k].count /\ c.ttl = Window
  OBVIOUS
<1> HIDE DEF c
<1>5. \A j \in Peers : counters'[j] = IF j = k THEN c ELSE counters[j]
  BY <1>1, <1>3 DEF IInv, ShapeOK
<1>6. Hits' = Hits
  BY <1>4, <1>5 DEF Hits
<1>7. Left' = [Left EXCEPT ![k] = Window]
  BY <1>1, <1>4, <1>5 DEF Left
<1>8. Hits[k] > 0 /\ Left[k] = None
  BY <1>1, <1>2 DEF Hits, Left, UpToTooMany
<1>9. QED
  BY <1>6, <1>7, <1>8 DEF FixedWindows!StartWindow, Hits, Left

\* Keys age as windows do.
LEMMA TickMaps ==
    ASSUME IInv, Tick
    PROVE  FixedWindows!Elapse
<1>1. counters' = [k \in Peers |-> Aged(counters[k])]
  BY DEF Tick
<1>2. ASSUME NEW k \in Peers
      PROVE  /\ Hits'[k] = IF Left[k] = 1 THEN 0 ELSE Hits[k]
             /\ Left'[k] = IF Left[k] \in {None, 1} THEN None ELSE Left[k] - 1
  <2>1. /\ counters[k] \in Counter /\ MaxRequests \in Nat /\ None \notin Nat
        /\ counters'[k] = Aged(counters[k])
    BY <1>1, LimiterAssumption DEF IInv, ShapeOK
  <2>2. CASE counters[k].ttl = None
    BY <2>1, <2>2 DEF Aged, Hits, Left
  <2>3. CASE counters[k].ttl = 1
    BY <2>1, <2>3 DEF Aged, NoKey, Hits, Left, UpToTooMany
  <2>4. CASE counters[k].ttl \notin {None, 1}
    <3> DEFINE c == [count |-> counters[k].count, ttl |-> counters[k].ttl - 1]
    <3>1. counters'[k] = c
      BY <2>1, <2>4 DEF Aged
    <3>2. c.count = counters[k].count /\ c.ttl = counters[k].ttl - 1
      OBVIOUS
    <3> HIDE DEF c
    <3>3. QED
      BY <2>4, <3>1, <3>2 DEF Hits, Left
  <2>5. QED
    BY <2>2, <2>3, <2>4
<1>3. /\ Hits' = [k \in Peers |-> IF Left[k] = 1 THEN 0 ELSE Hits[k]]
      /\ Left' = [k \in Peers |-> IF Left[k] \in {None, 1} THEN None ELSE Left[k] - 1]
  BY <1>2 DEF Hits, Left
<1>4. QED
  BY <1>3 DEF FixedWindows!Elapse, Hits, Left

\* Every step of the dependency and of Redis is a hit, the start of a window,
\* the passing of time, or nothing the windows see.
LEMMA MappedNext == IInv /\ [Next]_vars => [FixedWindows!WindowNext]_FixedWindows!windowVars
<1> SUFFICES ASSUME IInv, [Next]_vars
             PROVE  [FixedWindows!WindowNext]_FixedWindows!windowVars
  OBVIOUS
<1>1. CASE counters' = counters
  BY <1>1 DEF FixedWindows!windowVars
<1>2. ASSUME NEW l \in Requests, Counted(Key(l))
      PROVE  FixedWindows!WindowNext
  <2>1. Key(l) \in Peers
    BY LaneFields DEF Key
  <2>2. QED
    BY <1>2, <2>1, CountedMaps DEF FixedWindows!WindowNext
<1>3. ASSUME NEW l \in Requests, lane[l].pc = "expire", Expiring(Key(l))
      PROVE  FixedWindows!WindowNext
  <2>1. PICK k \in Peers : k = lane[l].key /\ Expiring(k)
    BY <1>3, LaneFields DEF Key
  <2>2. FixedWindows!StartWindow(k)
    BY <1>3, <2>1, ExpiringMaps
  <2>3. QED
    BY <2>2 DEF FixedWindows!WindowNext
<1>4. ASSUME NEW l \in Requests, Progress(l) \/ Crash(l)
      PROVE  \/ counters' = counters
             \/ Counted(Key(l))
             \/ lane[l].pc = "expire" /\ Expiring(Key(l))
  BY <1>4 DEF Progress, Crash, Incr, IncrFails, Expire, ExpireFails, Ttl, TtlFails, Leave
<1>5. CASE Tick
  BY <1>5, TickMaps DEF FixedWindows!WindowNext
<1>6. QED
  BY <1>1, <1>2, <1>3, <1>4, <1>5 DEF Next, Arrive, vars

\* rate_limit, with all that may happen between its three commands, keeps one
\* fixed window per key.
THEOREM ImplementsFixedWindow == Spec => WindowImplemented
BY MappedInit, MappedNext, Invariance, PTL
DEF Spec, WindowImplemented, FixedWindows!WindowSpec
=============================================================================
