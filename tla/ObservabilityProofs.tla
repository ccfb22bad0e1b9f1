------------------------- MODULE ObservabilityProofs -------------------------
(***************************************************************************)
(* What Observability guarantees for every number of replicas, of requests *)
(* in flight and of requests in all.  The counters of a process always     *)
(* add up, since the except and the finally of a request run in one go;    *)
(* snapshots inherit this when they are taken, and keep it on their way,   *)
(* whatever the counters they were taken from become.  That polls go       *)
(* forward needs the way of a figure: once shown it is at most what its    *)
(* process has counted; so is the floor of a poll sent to that process;    *)
(* and what the poll sees is all that is counted by then.                  *)
(***************************************************************************)
EXTENDS Observability, TLAPS

\* The counters of a process that add up.
Coherent(m) ==
    /\ m \in Metrics
    /\ m.exceptions <= m.count["5xx"]
    /\ m.observed = m.count["2xx"] + m.count["3xx"] + m.count["4xx"] + m.count["5xx"]

\* A snapshot that adds up, of no more requests than some replica has ended.
Sound(s) ==
    /\ s \in Snapshots
    /\ AddsUp(s)
    /\ \E p \in Pods : s.total <= ended[p]

\* A request on its way: its floor is something its process has counted, and its
\* snapshot lies between the two.
LaneOK(q) ==
    /\ q.pc \in {"in", "handled"} => q.pod \in Pods
    /\ q.pc = "answered" => q.route = "overview"
    /\ q.pc = "in" => q.floor <= metrics[q.pod].observed
    /\ q.pc \in {"handled", "answered"} /\ q.route = "overview" =>
           /\ Sound(q.seen) /\ q.floor <= q.seen.total
           /\ q.pod \in Pods => q.seen.total <= metrics[q.pod].observed

\* What is shown, and of which process.
ViewOK ==
    /\ view # None => Sound(view)
    /\ source \in Pods => view # None /\ view.total <= metrics[source].observed

IInv ==
    /\ TypeOK
    /\ \A p \in Pods : Coherent(metrics[p]) /\ metrics[p].observed <= ended[p]
    /\ \A r \in Lanes : LaneOK(lane[r])
    /\ ViewOK

\* A snapshot of counters that add up does so as well.
LEMMA SnapshotSound ==
    ASSUME NEW m, Coherent(m), NEW p \in Pods, m.observed <= ended[p],
           ended \in [Pods -> Nat]
    PROVE  Sound(Snapshot(m))
<1>1. /\ m.count \in [Statuses -> Nat] /\ m.exceptions \in Nat /\ m.observed \in Nat
  BY DEF Coherent, Metrics
<1>2. /\ m.count["2xx"] \in Nat /\ m.count["3xx"] \in Nat
      /\ m.count["4xx"] \in Nat /\ m.count["5xx"] \in Nat
  BY <1>1 DEF Statuses
<1>3. /\ m.exceptions <= m.count["5xx"]
      /\ m.observed = m.count["2xx"] + m.count["3xx"] + m.count["4xx"] + m.count["5xx"]
  BY DEF Coherent
<1>4. Snapshot(m) \in Snapshots
  BY <1>1, <1>2 DEF Snapshot, Snapshots
<1>5. AddsUp(Snapshot(m))
  BY <1>1, <1>2, <1>3 DEF Snapshot, AddsUp
<1>6. Snapshot(m).total <= ended[p]
  BY <1>2, <1>3 DEF Snapshot
<1> QED BY <1>4, <1>5, <1>6 DEF Sound

\* Counting one more request, however it has ended, keeps the counters adding up
\* and only raises them.
LEMMA RecordedCoherent ==
    ASSUME NEW m, Coherent(m), NEW outcome
    PROVE  /\ Coherent(Recorded(m, outcome))
           /\ Recorded(m, outcome).observed = m.observed + 1
           /\ \A s \in Statuses : Recorded(m, outcome).count[s] >= m.count[s]
           /\ Recorded(m, outcome).exceptions >= m.exceptions
<1> DEFINE n == Recorded(m, outcome)
           st == StatusOf(outcome)
<1>1. /\ m.count \in [Statuses -> Nat] /\ m.exceptions \in Nat /\ m.observed \in Nat
  BY DEF Coherent, Metrics
<1>2. st \in Statuses /\ (outcome = "raised" => st = "5xx")
  BY DEF StatusOf, Statuses
<1> HIDE DEF st
<1>3. /\ n.count = [m.count EXCEPT ![st] = m.count[st] + 1]
      /\ n.observed = m.observed + 1
      /\ n.exceptions = IF outcome = "raised" THEN m.exceptions + 1 ELSE m.exceptions
      /\ n = [count |-> n.count, observed |-> n.observed, exceptions |-> n.exceptions]
  BY DEF Recorded, st
<1> HIDE DEF n
<1>4. n.count \in [Statuses -> Nat]
  BY <1>1, <1>2, <1>3
<1>5. \A s \in Statuses : n.count[s] = IF s = st THEN m.count[s] + 1 ELSE m.count[s]
  BY <1>1, <1>2, <1>3
<1>6. n \in Metrics
  BY <1>1, <1>3, <1>4 DEF Metrics
<1>7. /\ \A s \in Statuses : m.count[s] \in Nat
      /\ m.exceptions <= m.count["5xx"]
      /\ m.observed = m.count["2xx"] + m.count["3xx"] + m.count["4xx"] + m.count["5xx"]
  BY <1>1 DEF Coherent
<1>8. n.exceptions <= n.count["5xx"]
  BY <1>1, <1>2, <1>3, <1>5, <1>7 DEF Statuses
<1>9. n.observed = n.count["2xx"] + n.count["3xx"] + n.count["4xx"] + n.count["5xx"]
  BY <1>1, <1>2, <1>3, <1>5, <1>7 DEF Statuses
<1>10. Coherent(n)
  BY <1>6, <1>8, <1>9 DEF Coherent
<1>11. (\A s \in Statuses : n.count[s] >= m.count[s]) /\ n.exceptions >= m.exceptions
  BY <1>1, <1>3, <1>5, <1>7
<1> QED BY <1>3, <1>10, <1>11 DEF n

LEMMA ZeroCoherent == Coherent(Zero) /\ Zero.observed = 0
<1>1. Zero \in Metrics
  BY DEF Zero, Metrics
<1>2. Zero.exceptions = 0 /\ Zero.observed = 0 /\ \A s \in Statuses : Zero.count[s] = 0
  BY DEF Zero
<1> QED BY <1>1, <1>2 DEF Coherent, Statuses

\* Snapshots stay sound while replicas only end more requests.
LEMMA SoundStays ==
    ASSUME NEW s, Sound(s),
           ended \in [Pods -> Nat], ended' \in [Pods -> Nat],
           \A p \in Pods : ended[p] <= ended'[p]
    PROVE  Sound(s)'
<1>1. PICK p \in Pods : s.total <= ended[p]
  BY DEF Sound
<1>2. s.total \in Nat
  BY DEF Sound, Snapshots
<1>3. s.total <= ended'[p]
  BY <1>1, <1>2
<1> QED BY <1>3 DEF Sound, AddsUp

LEMMA InitHolds == Init => IInv
<1> SUFFICES ASSUME Init PROVE IInv
  OBVIOUS
<1>1. metrics \in [Pods -> Metrics] /\ ended \in [Pods -> Nat]
  BY ZeroCoherent DEF Init, Coherent
<1>2. TypeOK
  <2>1. lane \in [Lanes -> Request \union {Idle}]
    BY DEF Init
  <2>2. arrived \in 0..Budget
    BY MetricsAssumption DEF Init
  <2> QED BY <1>1, <2>1, <2>2 DEF Init, TypeOK
<1>3. ASSUME NEW p \in Pods
      PROVE  Coherent(metrics[p]) /\ metrics[p].observed <= ended[p]
  <2>1. metrics[p] = Zero /\ ended[p] = 0
    BY DEF Init
  <2> QED BY <2>1, ZeroCoherent
<1>4. \A r \in Lanes : LaneOK(lane[r])
  BY DEF Init, Idle, LaneOK
<1>5. ViewOK
  BY MetricsAssumption DEF Init, ViewOK
<1> QED BY <1>2, <1>3, <1>4, <1>5 DEF IInv

\* A request that has its place keeps it while processes only count on.
LEMMA LaneStays ==
    ASSUME NEW q \in Request \union {Idle}, LaneOK(q),
           metrics \in [Pods -> Metrics], metrics' \in [Pods -> Metrics],
           ended \in [Pods -> Nat], ended' \in [Pods -> Nat],
           \A p \in Pods : /\ metrics[p].observed <= metrics'[p].observed
                           /\ ended[p] <= ended'[p]
    PROVE  LaneOK(q)'
<1>1. \A p \in Pods : metrics[p].observed \in Nat /\ metrics'[p].observed \in Nat
  BY DEF Metrics
<1>2. q.pc # "idle" => q.floor \in Nat
  BY DEF Request, Idle
<1>3. CASE q.pc = "in"
  BY <1>1, <1>2, <1>3 DEF LaneOK
<1>4. CASE q.pc \in {"handled", "answered"} /\ q.route = "overview"
  <2>1. PICK s : s = q.seen
    OBVIOUS
  <2>2. Sound(s) /\ s.total \in Nat
    BY <1>4, <2>1 DEF LaneOK, Sound, Snapshots
  <2>3. Sound(s)'
    BY <2>2, SoundStays
  <2>4. q.pod \in Pods => s.total <= metrics'[q.pod].observed
    BY <1>1, <1>4, <2>1, <2>2 DEF LaneOK
  <2> QED BY <1>4, <2>1, <2>3, <2>4 DEF LaneOK, Sound, AddsUp
<1>5. CASE ~(q.pc = "in") /\ ~(q.pc \in {"handled", "answered"} /\ q.route = "overview")
  BY <1>5 DEF LaneOK
<1> QED BY <1>3, <1>4, <1>5

\* So do the figures shown.
LEMMA ViewStays ==
    ASSUME ViewOK, UNCHANGED <<view, source>>,
           metrics \in [Pods -> Metrics], metrics' \in [Pods -> Metrics],
           ended \in [Pods -> Nat], ended' \in [Pods -> Nat],
           \A p \in Pods : /\ metrics[p].observed <= metrics'[p].observed
                           /\ ended[p] <= ended'[p]
    PROVE  ViewOK'
<1>1. ASSUME view # None PROVE Sound(view)' /\ view.total \in Nat
  <2>1. PICK s : s = view
    OBVIOUS
  <2>2. Sound(s)
    BY <1>1, <2>1 DEF ViewOK
  <2>3. Sound(s)'
    BY <2>2, SoundStays
  <2> QED BY <2>1, <2>2, <2>3 DEF Sound, AddsUp, Snapshots
<1>2. ASSUME source \in Pods PROVE view # None /\ view.total <= metrics'[source].observed
  <2>1. view # None /\ view.total <= metrics[source].observed
    BY <1>2 DEF ViewOK
  <2>2. metrics[source].observed \in Nat /\ metrics'[source].observed \in Nat
    BY <1>2 DEF Metrics
  <2> QED BY <1>1, <1>2, <2>1, <2>2
<1> QED BY <1>1, <1>2 DEF ViewOK

\* A step of one request, in which processes only count on.
LEMMA LaneStep ==
    ASSUME IInv, NEW r \in Lanes, NEW q \in Request \union {Idle},
           lane' = [lane EXCEPT ![r] = q], LaneOK(q)',
           metrics' \in [Pods -> Metrics], ended' \in [Pods -> Nat],
           \A p \in Pods : /\ Coherent(metrics'[p]) /\ metrics'[p].observed <= ended'[p]
                           /\ metrics[p].observed <= metrics'[p].observed
                           /\ ended[p] <= ended'[p],
           arrived' \in 0..Budget, healthy' \in BOOLEAN,
           source' \in Pods \union {None}, ViewOK'
    PROVE  IInv'
<1>1. /\ lane \in [Lanes -> Request \union {Idle}] /\ ended \in [Pods -> Nat]
      /\ metrics \in [Pods -> Metrics]
  BY DEF IInv, TypeOK
<1>2. /\ lane' \in [Lanes -> Request \union {Idle}] /\ lane'[r] = q
      /\ \A o \in Lanes \ {r} : lane'[o] = lane[o]
  BY <1>1
<1>3. view' \in Snapshots \union {None}
  BY DEF ViewOK, Sound
<1>4. TypeOK'
  BY <1>2, <1>3 DEF TypeOK
<1>5. \A p \in Pods : (Coherent(metrics[p]) /\ metrics[p].observed <= ended[p])'
  BY DEF Coherent
<1>6. ASSUME NEW o \in Lanes
      PROVE  LaneOK(lane[o])'
  <2>1. CASE o = r
    BY <1>2, <2>1 DEF LaneOK, Sound, AddsUp
  <2>2. CASE o # r
    <3>1. PICK s \in Request \union {Idle} : s = lane[o]
      BY <1>1
    <3>2. lane'[o] = s /\ LaneOK(s)
      BY <1>2, <2>2, <3>1 DEF IInv
    <3>3. LaneOK(s)'
      BY <1>1, <3>2, LaneStays
    <3> QED BY <3>2, <3>3 DEF LaneOK, Sound, AddsUp
  <2> QED BY <2>1, <2>2
<1> QED BY <1>4, <1>5, <1>6 DEF IInv

\* A step of one request that is not counted, and is not shown.
LEMMA QuietStep ==
    ASSUME IInv, NEW r \in Lanes, NEW q \in Request \union {Idle},
           lane' = [lane EXCEPT ![r] = q], LaneOK(q),
           arrived' \in 0..Budget,
           UNCHANGED <<metrics, ended, view, source, healthy>>
    PROVE  IInv'
<1>1. /\ metrics' \in [Pods -> Metrics] /\ ended' \in [Pods -> Nat] /\ healthy' \in BOOLEAN
      /\ metrics \in [Pods -> Metrics] /\ ended \in [Pods -> Nat]
      /\ source' \in Pods \union {None}
  BY DEF IInv, TypeOK
<1>2. \A p \in Pods : /\ Coherent(metrics'[p]) /\ metrics'[p].observed <= ended'[p]
                      /\ metrics[p].observed <= metrics'[p].observed
                      /\ ended[p] <= ended'[p]
  <2>1. \A p \in Pods : metrics[p].observed \in Nat /\ ended[p] \in Nat
    BY <1>1 DEF Metrics
  <2> QED BY <2>1 DEF IInv
<1>3. LaneOK(q)'
  BY <1>1, <1>2, LaneStays
<1>4. ViewOK'
  BY <1>1, <1>2, ViewStays DEF IInv
<1> QED BY <1>1, <1>2, <1>3, <1>4, LaneStep

LEMMA RequestFields ==
    ASSUME IInv, NEW r \in Lanes, lane[r].pc # "idle"
    PROVE  /\ lane[r] \in Request /\ LaneOK(lane[r])
           /\ lane[r].route \in Routes /\ lane[r].floor \in Nat
           /\ lane[r].seen \in Snapshots \union {None}
BY DEF IInv, TypeOK, Request, Idle

LEMMA ArriveHolds ==
    ASSUME IInv, NEW r \in Lanes, NEW p \in Pods, NEW route \in Routes,
           Arrive(r, p, route)
    PROVE  IInv'
<1> DEFINE f == IF route = "overview" /\ source = p THEN view.total ELSE 0
           q == [pc |-> "in", pod |-> p, route |-> route, seen |-> None, floor |-> f]
<1>1. f \in Nat /\ f <= metrics[p].observed
  <2>1. metrics[p].observed \in Nat
    BY DEF IInv, TypeOK, Metrics
  <2>2. source = p => view.total \in Nat /\ view.total <= metrics[p].observed
    BY DEF IInv, ViewOK, Sound, Snapshots
  <2> QED BY <2>1, <2>2
<1>2. lane' = [lane EXCEPT ![r] = q] /\ UNCHANGED <<metrics, ended, view, source, healthy>>
  BY DEF Arrive, Entered
<1> HIDE DEF f
<1>3. q \in Request /\ q.pc = "in" /\ q.pod = p /\ q.floor = f
  BY <1>1 DEF Request
<1>4. arrived' \in 0..Budget
  BY MetricsAssumption DEF Arrive, IInv, TypeOK
<1> HIDE DEF q
<1>5. LaneOK(q)
  BY <1>1, <1>3 DEF LaneOK
<1> QED BY <1>2, <1>3, <1>4, <1>5, QuietStep

\* A snapshot holds all that its process has counted, so at least the floor.
LEMMA OverviewHolds ==
    ASSUME IInv, NEW r \in Lanes, Overview(r)
    PROVE  IInv'
<1>1. /\ lane[r] \in Request /\ lane[r].pod \in Pods /\ lane[r].route = "overview"
      /\ lane[r].floor \in Nat /\ lane[r].floor <= metrics[lane[r].pod].observed
  BY RequestFields DEF Overview, LaneOK
<1>2. PICK s : s = Snapshot(metrics[lane[r].pod])
  OBVIOUS
<1>3. Sound(s) /\ s.total = metrics[lane[r].pod].observed
  <2>1. ended \in [Pods -> Nat] /\ Coherent(metrics[lane[r].pod])
        /\ metrics[lane[r].pod].observed <= ended[lane[r].pod]
    BY <1>1 DEF IInv, TypeOK
  <2>2. Sound(s)
    BY <1>1, <1>2, <2>1, SnapshotSound
  <2>3. s.total = metrics[lane[r].pod].observed
    BY <1>2, <2>1 DEF Coherent, Snapshot
  <2> QED BY <2>2, <2>3
<1> DEFINE h == [lane[r] EXCEPT !.pc = "handled"]
           q == [h EXCEPT !.seen = s]
<1>4. /\ q \in Request /\ q.seen = s /\ q.pc = "handled" /\ q.route = "overview"
      /\ q.pod = lane[r].pod /\ q.floor = lane[r].floor
  <2>1. /\ h \in Request /\ h.pc = "handled" /\ h.route = "overview"
        /\ h.pod = lane[r].pod /\ h.floor = lane[r].floor
    BY <1>1 DEF Request
  <2> HIDE DEF h
  <2> QED BY <1>3, <2>1 DEF Request, Sound
<1>5. lane' = [lane EXCEPT ![r] = q] /\ UNCHANGED <<metrics, ended, view, source, healthy>>
  <2>1. lane \in [Lanes -> Request \union {Idle}]
    BY DEF IInv, TypeOK
  <2>2. lane' = [lane EXCEPT ![r].pc = "handled", ![r].seen = s]
    BY <1>2 DEF Overview
  <2> QED BY <2>1, <2>2 DEF Overview
<1>6. arrived' \in 0..Budget
  BY DEF Overview, IInv, TypeOK
<1> HIDE DEF q
<1>7. LaneOK(q)
  <2>1. metrics[lane[r].pod].observed \in Nat
    BY <1>1 DEF IInv, TypeOK, Metrics
  <2> QED BY <1>1, <1>3, <1>4, <2>1 DEF LaneOK
<1> QED BY <1>4, <1>5, <1>6, <1>7, QuietStep

\* A request ends: it is counted, unless it was one to /metrics.
LEMMA FinishHolds ==
    ASSUME IInv, NEW r \in Lanes, NEW outcome, Finish(r, outcome)
    PROVE  IInv'
<1> DEFINE pd == lane[r].pod
<1>1. /\ lane[r] \in Request /\ LaneOK(lane[r])
      /\ lane[r].pc \in {"in", "handled"} /\ pd \in Pods
      /\ lane[r].route = "overview" => lane[r].pc = "handled"
  BY RequestFields DEF Finish, LaneOK
<1>2. /\ metrics \in [Pods -> Metrics] /\ ended \in [Pods -> Nat]
      /\ \A p \in Pods : Coherent(metrics[p]) /\ metrics[p].observed <= ended[p]
  BY DEF IInv, TypeOK
<1>3. /\ metrics' \in [Pods -> Metrics] /\ ended' \in [Pods -> Nat]
      /\ \A p \in Pods : /\ Coherent(metrics'[p]) /\ metrics'[p].observed <= ended'[p]
                         /\ metrics[p].observed <= metrics'[p].observed
                         /\ ended[p] <= ended'[p]
  <2>0. \A p \in Pods : metrics[p].observed \in Nat /\ ended[p] \in Nat
    BY <1>2 DEF Metrics
  <2>1. CASE UNCHANGED <<metrics, ended>>
    BY <1>2, <2>0, <2>1
  <2>2. CASE /\ metrics' = [metrics EXCEPT ![pd] = Recorded(metrics[pd], outcome)]
             /\ ended' = [ended EXCEPT ![pd] = ended[pd] + 1]
    <3>1. PICK n : n = Recorded(metrics[pd], outcome)
      OBVIOUS
    <3>2. Coherent(n) /\ n.observed = metrics[pd].observed + 1 /\ n \in Metrics
      BY <1>1, <1>2, <3>1, RecordedCoherent DEF Coherent
    <3>3. metrics[pd].observed \in Nat /\ ended[pd] \in Nat
      BY <1>1, <2>0
    <3>4. n.observed <= ended[pd] + 1
      BY <1>1, <1>2, <3>2, <3>3
    <3>5. /\ metrics' \in [Pods -> Metrics] /\ ended' \in [Pods -> Nat]
          /\ metrics'[pd] = n /\ ended'[pd] = ended[pd] + 1
          /\ \A p \in Pods \ {pd} : metrics'[p] = metrics[p] /\ ended'[p] = ended[p]
      BY <1>1, <1>2, <2>2, <3>1, <3>2
    <3> QED BY <1>2, <2>0, <3>2, <3>3, <3>4, <3>5
  <2> QED BY <2>1, <2>2 DEF Finish
<1>4. ViewOK'
  BY <1>2, <1>3, ViewStays DEF Finish, IInv
<1>5. healthy' \in BOOLEAN /\ arrived' \in 0..Budget /\ source' \in Pods \union {None}
  BY DEF Finish, IInv, TypeOK
<1>6. CASE lane[r].route # "overview"
  <2>1. PICK q : q = Idle
    OBVIOUS
  <2>2. lane' = [lane EXCEPT ![r] = q] /\ q.pc = "idle"
    BY <1>6, <2>1 DEF Finish, Idle
  <2>3. LaneOK(q)'
    BY <2>2 DEF LaneOK
  <2> QED BY <1>3, <1>4, <1>5, <2>1, <2>2, <2>3, LaneStep
<1>7. CASE lane[r].route = "overview"
  <2>1. PICK pc \in {"answered", "lost"} : lane' = [lane EXCEPT ![r] = [lane[r] EXCEPT !.pc = pc]]
    BY <1>7 DEF Finish
  <2>2. PICK q : q = [lane[r] EXCEPT !.pc = pc]
    OBVIOUS
  <2>3. /\ q \in Request /\ q.route = "overview" /\ q.seen = lane[r].seen /\ q.pc = pc
        /\ q.pod = pd /\ q.floor = lane[r].floor
    BY <1>1, <1>7, <2>2 DEF Request
  <2>4. LaneOK(q)
    BY <1>1, <1>7, <2>3 DEF LaneOK
  <2>5. LaneOK(q)'
    BY <1>2, <1>3, <2>3, <2>4, LaneStays
  <2> QED BY <1>3, <1>4, <1>5, <2>1, <2>2, <2>3, <2>5, LaneStep
<1> QED BY <1>6, <1>7

LEMMA LoseHolds ==
    ASSUME IInv, NEW r \in Lanes, Lose(r)
    PROVE  IInv'
<1>1. lane[r] \in Request
  BY RequestFields DEF Lose
<1> DEFINE q == [lane[r] EXCEPT !.pc = "lost"]
<1>2. q \in Request /\ q.pc = "lost"
  BY <1>1 DEF Request
<1>3. /\ lane' = [lane EXCEPT ![r] = q] /\ UNCHANGED <<metrics, ended, view, source, healthy>>
      /\ arrived' \in 0..Budget
  BY DEF Lose, IInv, TypeOK
<1> HIDE DEF q
<1>4. LaneOK(q)
  BY <1>2 DEF LaneOK
<1> QED BY <1>2, <1>3, <1>4, QuietStep

LEMMA RenderHolds ==
    ASSUME IInv, NEW r \in Lanes, Render(r)
    PROVE  IInv'
<1>1. /\ metrics' = metrics /\ ended' = ended /\ arrived' = arrived
      /\ lane' = [lane EXCEPT ![r] = Idle]
      /\ healthy' \in BOOLEAN
  BY DEF Render
<1>2. /\ metrics' \in [Pods -> Metrics] /\ ended' \in [Pods -> Nat] /\ arrived' \in 0..Budget
      /\ metrics \in [Pods -> Metrics] /\ ended \in [Pods -> Nat]
  BY <1>1 DEF IInv, TypeOK
<1>3. \A p \in Pods : /\ Coherent(metrics'[p]) /\ metrics'[p].observed <= ended'[p]
                      /\ metrics[p].observed <= metrics'[p].observed
                      /\ ended[p] <= ended'[p]
  <2>1. \A p \in Pods : metrics[p].observed \in Nat /\ ended[p] \in Nat
    BY <1>2 DEF Metrics
  <2> QED BY <1>1, <2>1 DEF IInv
<1>4. source' \in Pods \union {None} /\ ViewOK'
  <2>1. CASE lane[r].pc = "answered"
    <3>1. /\ lane[r] \in Request /\ lane[r].pod \in Pods \union {None}
          /\ Sound(lane[r].seen)
          /\ lane[r].pod \in Pods => lane[r].seen.total <= metrics[lane[r].pod].observed
      BY <2>1, RequestFields DEF LaneOK, Request
    <3>2. view' = lane[r].seen /\ source' = lane[r].pod
      BY <2>1 DEF Render
    <3>3. lane[r].seen # None
      BY <3>1, MetricsAssumption DEF Sound, Snapshots
    <3> QED BY <1>1, <3>1, <3>2, <3>3 DEF ViewOK, Sound, AddsUp
  <2>2. CASE lane[r].pc # "answered"
    <3>1. UNCHANGED <<view, source>>
      BY <2>2 DEF Render
    <3> QED BY <1>2, <1>3, <3>1, ViewStays DEF IInv, TypeOK
  <2> QED BY <2>1, <2>2
<1>5. Idle.pc = "idle"
  BY DEF Idle
<1>6. PICK q : q = Idle /\ q.pc = "idle"
  BY <1>5
<1>7. lane' = [lane EXCEPT ![r] = q] /\ LaneOK(q)'
  BY <1>1, <1>6 DEF LaneOK
<1> QED BY <1>1, <1>2, <1>3, <1>4, <1>6, <1>7, LaneStep

\* A process dies: what it has counted is no bound any more, and nobody asks.
LEMMA RestartHolds ==
    ASSUME IInv, NEW p \in Pods, Restart(p)
    PROVE  IInv'
<1>1. /\ metrics' = [metrics EXCEPT ![p] = Zero] /\ UNCHANGED <<view, healthy, arrived, ended>>
      /\ source' = IF source = p THEN None ELSE source
  BY DEF Restart
<1>2. /\ metrics' \in [Pods -> Metrics]
      /\ \A o \in Pods \ {p} : metrics'[o] = metrics[o]
  BY <1>1, ZeroCoherent DEF Coherent, IInv, TypeOK
<1>3. ASSUME NEW o \in Pods
      PROVE  Coherent(metrics'[o]) /\ metrics'[o].observed <= ended[o]
  <2>1. metrics \in [Pods -> Metrics] /\ ended[o] \in Nat
    BY DEF IInv, TypeOK
  <2>2. metrics'[o] = Zero \/ metrics'[o] = metrics[o]
    BY <1>1, <2>1
  <2> QED BY <2>1, <2>2, ZeroCoherent DEF IInv
<1>4. ASSUME NEW r \in Lanes
      PROVE  lane'[r] \in Request \union {Idle} /\ LaneOK(lane[r])'
  <2>1. lane[r] \in Request \union {Idle} /\ LaneOK(lane[r])
    BY DEF IInv, TypeOK
  <2>2. lane'[r] = IF lane[r].pc = "idle" \/ lane[r].pod # p THEN lane[r]
                   ELSE IF lane[r].pc \in {"answered", "lost"} THEN [lane[r] EXCEPT !.pod = None]
                   ELSE IF lane[r].route = "overview" THEN [lane[r] EXCEPT !.pc = "lost"]
                   ELSE Idle
    BY DEF Restart, IInv, TypeOK
  <2>3. CASE lane'[r] = Idle
    BY <2>3 DEF Idle, LaneOK
  <2>4. CASE lane[r].pc = "idle"
    BY <2>1, <2>2, <2>4 DEF LaneOK
  <2>5. CASE lane[r].pc # "idle" /\ lane[r].pod # p
    <3>1. lane'[r] = lane[r]
      BY <2>2, <2>5
    <3>2. lane[r].pod \in Pods => metrics'[lane[r].pod] = metrics[lane[r].pod]
      BY <1>2, <2>5
    <3> QED BY <1>1, <2>1, <3>1, <3>2 DEF LaneOK, Sound, AddsUp
  <2>6. CASE lane[r].pc \in {"answered", "lost"} /\ lane'[r] = [lane[r] EXCEPT !.pod = None]
    <3>1. lane[r] \in Request
      BY <2>1, <2>6 DEF Idle
    <3>2. /\ lane'[r] \in Request /\ lane'[r].pc = lane[r].pc /\ lane'[r].pod = None
          /\ lane'[r].route = lane[r].route /\ lane'[r].seen = lane[r].seen
          /\ lane'[r].floor = lane[r].floor
      BY <2>6, <3>1 DEF Request
    <3>3. None \notin Pods
      BY MetricsAssumption
    <3> QED BY <1>1, <2>1, <2>6, <3>2, <3>3 DEF LaneOK, Sound, AddsUp
  <2>7. CASE lane[r].pc \in {"in", "handled"} /\ lane'[r] = [lane[r] EXCEPT !.pc = "lost"]
    <3>1. lane[r] \in Request
      BY <2>1, <2>7 DEF Idle
    <3>2. lane'[r] \in Request /\ lane'[r].pc = "lost"
      BY <2>7, <3>1 DEF Request
    <3> QED BY <3>2 DEF LaneOK
  <2>8. lane[r].pc \in {"idle", "in", "handled", "answered", "lost"}
    BY <2>1 DEF Request, Idle
  <2> QED BY <2>2, <2>3, <2>4, <2>5, <2>6, <2>7, <2>8
<1>5. lane' \in [Lanes -> Request \union {Idle}]
  BY <1>4 DEF Restart
<1>6. TypeOK'
  BY <1>1, <1>2, <1>5 DEF IInv, TypeOK
<1>7. \A o \in Pods : (Coherent(metrics[o]) /\ metrics[o].observed <= ended[o])'
  BY <1>1, <1>3 DEF Coherent
<1>8. ViewOK'
  <2>1. (view # None => Sound(view))'
    BY <1>1 DEF IInv, ViewOK, Sound, AddsUp
  <2>2. ASSUME source' \in Pods
        PROVE  source' = source /\ metrics'[source] = metrics[source]
    BY <1>1, <1>2, <2>2, MetricsAssumption
  <2> QED BY <1>1, <2>1, <2>2 DEF IInv, ViewOK
<1> QED BY <1>4, <1>6, <1>7, <1>8 DEF IInv

LEMMA Invariance == Spec => []IInv
<1>1. IInv /\ [Next]_vars => IInv'
  <2> SUFFICES ASSUME IInv, [Next]_vars PROVE IInv'
    OBVIOUS
  <2>1. CASE Next
    BY <2>1, ArriveHolds, OverviewHolds, FinishHolds, LoseHolds, RenderHolds, RestartHolds
       DEF Next
  <2>2. CASE UNCHANGED vars
    BY <2>2 DEF vars, IInv, TypeOK, Coherent, LaneOK, ViewOK, Sound, AddsUp
  <2> QED BY <2>1, <2>2
<1> QED BY InitHolds, <1>1, PTL DEF Spec

\* Counters, requests and snapshots keep their types, for any number of each
\* (core/metrics.py, middleware/observability.py).
THEOREM MetricsTypeCorrect == Spec => []TypeOK
BY Invariance, PTL DEF IInv

\* The figures the dashboard shows agree with each other, whatever requests end
\* around a snapshot and however polls overlap, fail or meet restarts.
THEOREM FiguresAgree == Spec => []ViewAddsUp
<1>1. IInv => ViewAddsUp
  BY DEF IInv, ViewOK, Sound, ViewAddsUp
<1> QED BY Invariance, <1>1, PTL

\* The dashboard never shows more requests than some replica has ended.
THEOREM FiguresArePast == Spec => []ViewIsPast
<1>1. IInv => ViewIsPast
  BY DEF IInv, ViewOK, Sound, ViewIsPast
<1> QED BY Invariance, <1>1, PTL

\* What a poll brings back of a process is no less than what was already shown of
\* it when the poll was sent, whatever else ends, restarts or is lost meanwhile.
THEOREM FiguresGoForward == Spec => []PollsGoForward
<1>1. IInv => PollsGoForward
  <2> SUFFICES ASSUME IInv, NEW r \in Lanes, lane[r].pc = "answered"
               PROVE  lane[r].seen.total >= lane[r].floor
    BY DEF PollsGoForward
  <2>1. lane[r].seen.total \in Nat /\ lane[r].floor \in Nat
        /\ lane[r].floor <= lane[r].seen.total
    BY RequestFields DEF LaneOK, Sound, Snapshots
  <2> QED BY <2>1
<1> QED BY Invariance, <1>1, PTL

\* Counters grow, or start again from zero with their process.
THEOREM CountersAreMonotone == Spec => CountersOnlyReset
<1> DEFINE Grows(p) ==
        \/ metrics'[p] = Zero
        \/ /\ \A s \in Statuses : metrics'[p].count[s] >= metrics[p].count[s]
           /\ metrics'[p].observed >= metrics[p].observed
           /\ metrics'[p].exceptions >= metrics[p].exceptions
<1>1. ASSUME IInv, Next, NEW p \in Pods
      PROVE  Grows(p)
  <2>1. /\ metrics \in [Pods -> Metrics] /\ Coherent(metrics[p])
        /\ metrics[p].observed \in Nat /\ metrics[p].exceptions \in Nat
        /\ \A s \in Statuses : metrics[p].count[s] \in Nat
    BY <1>1 DEF IInv, TypeOK, Metrics
  <2>2. CASE metrics' = metrics
    BY <2>1, <2>2
  <2>3. CASE \E o \in Pods : metrics' = [metrics EXCEPT ![o] = Zero]
    <3>1. metrics'[p] = Zero \/ metrics'[p] = metrics[p]
      BY <2>1, <2>3
    <3> QED BY <2>1, <3>1
  <2>4. CASE \E o, outcome : metrics' = [metrics EXCEPT ![o] = Recorded(metrics[o], outcome)]
    <3>1. PICK o, outcome : metrics' = [metrics EXCEPT ![o] = Recorded(metrics[o], outcome)]
      BY <2>4
    <3>2. metrics'[p] = Recorded(metrics[p], outcome) \/ metrics'[p] = metrics[p]
      BY <2>1, <3>1
    <3>3. CASE metrics'[p] = metrics[p]
      BY <2>1, <3>3
    <3>4. CASE metrics'[p] = Recorded(metrics[p], outcome)
      <4>1. PICK n : n = Recorded(metrics[p], outcome)
        OBVIOUS
      <4>2. /\ n.observed = metrics[p].observed + 1
            /\ \A s \in Statuses : n.count[s] >= metrics[p].count[s]
            /\ n.exceptions >= metrics[p].exceptions
        BY <2>1, <4>1, RecordedCoherent
      <4> QED BY <2>1, <3>4, <4>1, <4>2
    <3> QED BY <3>2, <3>3, <3>4
  <2>5. \/ metrics' = metrics
        \/ \E o \in Pods : metrics' = [metrics EXCEPT ![o] = Zero]
        \/ \E o, outcome : metrics' = [metrics EXCEPT ![o] = Recorded(metrics[o], outcome)]
    BY <1>1 DEF Next, Arrive, Overview, Finish, Lose, Render, Restart
  <2> QED BY <2>2, <2>3, <2>4, <2>5
<1>2. IInv /\ [Next]_vars => [\A p \in Pods : Grows(p)]_vars
  BY <1>1
<1> QED BY Invariance, <1>2, PTL DEF Spec, CountersOnlyReset
=============================================================================
