--------------------------- MODULE Observability ---------------------------
(***************************************************************************)
(* ObservabilityMiddleware counts each request of a process when it ends,  *)
(* /api/v1/system/overview answers with a snapshot of the counters of the  *)
(* process it reached, and the dashboard of app/web/app.js shows it.  The  *)
(* processes are the replicas behind one service; each has counters of its *)
(* own, which start at zero with it.  What a callback does up to its next  *)
(* await is one step: the snapshot, and the count of the request that      *)
(* asked for it, are two.  Paths, labels and durations are abstracted to   *)
(* how many samples there are.                                             *)
(***************************************************************************)
EXTENDS Integers

CONSTANTS Pods,    \* replicas
          Lanes,   \* requests that can be in flight at once
          None,    \* no snapshot, no process
          Budget   \* bound of the model: requests that ever arrive

ASSUME MetricsAssumption ==
    /\ Budget \in Nat
    /\ None \notin Pods
    /\ None \notin [total : Nat, success : Nat, client : Nat, server : Nat,
                    exceptions : Nat, timed : Nat]

VARIABLES
    metrics,  \* REQUEST_COUNT, REQUEST_DURATION and REQUEST_EXCEPTIONS per process
    lane,     \* the requests in flight
    view,     \* what the dashboard shows
    source,   \* history: the replica whose process it is of, while that one lives
    healthy,  \* its status chip
    arrived,  \* how many requests have arrived
    ended     \* history: per replica, how many have ended in all its processes

vars == <<metrics, lane, view, source, healthy, arrived, ended>>

-----------------------------------------------------------------------------
Statuses == {"2xx", "3xx", "4xx", "5xx"}

\* How a request can end: its handler answers with a status, lets an Exception
\* out ("raised"), or is cancelled as the server shuts down, which is none.
HealthEnds   == {"2xx", "cancelled"}
OverviewEnds == {"2xx", "cancelled"}
\* RequestError is caught, but a body that is no JSON gets out.
ProxyEnds    == {"2xx", "4xx", "5xx", "raised", "cancelled"}
AuthEnds     == {"2xx", "4xx", "5xx", "raised", "cancelled"}
AssetEnds    == {"2xx", "3xx", "4xx", "cancelled"}
MetricsEnds  == {"2xx", "cancelled"}

Outcomes == [health |-> HealthEnds, overview |-> OverviewEnds, proxy |-> ProxyEnds,
             auth |-> AuthEnds, assets |-> AssetEnds, metrics |-> MetricsEnds]

Routes == DOMAIN Outcomes

Metrics == [count : [Statuses -> Nat], observed : Nat, exceptions : Nat]
Zero    == [count |-> [s \in Statuses |-> 0], observed |-> 0, exceptions |-> 0]

Snapshots == [total : Nat, success : Nat, client : Nat, server : Nat,
              exceptions : Nat, timed : Nat]

\* get_http_metrics_snapshot: timed is what the average latency is taken over.
Snapshot(m) ==
    [total   |-> m.count["2xx"] + m.count["3xx"] + m.count["4xx"] + m.count["5xx"],
     success |-> m.count["2xx"], client |-> m.count["4xx"], server |-> m.count["5xx"],
     exceptions |-> m.exceptions, timed |-> m.observed]

\* floor is history: what the dashboard showed of the very process the poll was
\* sent to.  An answer that has outlived its process is nobody's.
Request == [pc : {"in", "handled", "answered", "lost"}, pod : Pods \union {None},
            route : Routes, seen : Snapshots \union {None}, floor : Nat]
Idle    == [pc |-> "idle"]

Init ==
    /\ metrics = [p \in Pods |-> Zero]
    /\ lane = [r \in Lanes |-> Idle]
    /\ view = None /\ source = None /\ healthy = FALSE
    /\ arrived = 0 /\ ended = [p \in Pods |-> 0]

-----------------------------------------------------------------------------
StatusOf(outcome) == IF outcome \in Statuses THEN outcome ELSE "5xx"

\* Mutant: the count follows the try statement instead of being its finally.
RecordedWithoutFinally(m, outcome) ==
    [count |-> IF outcome \in Statuses
               THEN [m.count EXCEPT ![outcome] = @ + 1] ELSE m.count,
     observed |-> IF outcome \in Statuses THEN m.observed + 1 ELSE m.observed,
     exceptions |-> IF outcome = "raised" THEN m.exceptions + 1 ELSE m.exceptions]

\* Mutant: the exceptions are a gauge that successes bring down again.
RecordedAsGauge(m, outcome) ==
    [count |-> [m.count EXCEPT ![StatusOf(outcome)] = @ + 1],
     observed |-> m.observed + 1,
     exceptions |-> IF outcome = "raised" THEN m.exceptions + 1 ELSE m.exceptions - 1]

\* The except and the finally of dispatch.
Recorded(m, outcome) ==
    [count |-> [m.count EXCEPT ![StatusOf(outcome)] = @ + 1],
     observed |-> m.observed + 1,
     exceptions |-> IF outcome = "raised" THEN m.exceptions + 1 ELSE m.exceptions]

\* A request enters the middleware of the process of p.
Entered(p, route) ==
    [pc |-> "in", pod |-> p, route |-> route, seen |-> None,
     floor |-> IF route = "overview" /\ source = p THEN view.total ELSE 0]

\* Mutant: a request is counted when it arrives.
ArriveCounted(r, p, route) ==
    /\ lane[r].pc = "idle" /\ arrived < Budget
    /\ lane' = [lane EXCEPT ![r] = Entered(p, route)]
    /\ arrived' = arrived + 1
    /\ metrics' = [metrics EXCEPT ![p] = Recorded(@, "2xx")]
    /\ UNCHANGED <<view, source, healthy, ended>>

\* The dashboard's poll, every 15 seconds whether or not the last one was
\* answered, is a request to "overview".
Arrive(r, p, route) ==
    /\ lane[r].pc = "idle" /\ arrived < Budget
    /\ lane' = [lane EXCEPT ![r] = Entered(p, route)]
    /\ arrived' = arrived + 1
    /\ UNCHANGED <<metrics, view, source, healthy, ended>>

\* Mutant: several workers behind one address, with counters of their own.
OverviewOfAnyWorker(r) ==
    /\ lane[r].pc = "in" /\ lane[r].route = "overview"
    /\ \E p \in Pods :
          lane' = [lane EXCEPT ![r].pc = "handled", ![r].seen = Snapshot(metrics[p])]
    /\ UNCHANGED <<metrics, view, source, healthy, arrived, ended>>

\* system_overview.
Overview(r) ==
    /\ lane[r].pc = "in" /\ lane[r].route = "overview"
    /\ lane' = [lane EXCEPT ![r].pc = "handled", ![r].seen = Snapshot(metrics[lane[r].pod])]
    /\ UNCHANGED <<metrics, view, source, healthy, arrived, ended>>

\* dispatch ends; a request to /metrics leaves no trace.
Finish(r, outcome) ==
    LET q == lane[r] IN
    /\ q.pc = "handled" \/ (q.pc = "in" /\ q.route # "overview")
    /\ outcome \in Outcomes[q.route]
    /\ IF q.route = "metrics" THEN UNCHANGED <<metrics, ended>>
       ELSE /\ metrics' = [metrics EXCEPT ![q.pod] = Recorded(@, outcome)]
            /\ ended' = [ended EXCEPT ![q.pod] = @ + 1]
    /\ lane' = [lane EXCEPT ![r] =
                   IF q.route # "overview" THEN Idle
                   ELSE [q EXCEPT !.pc = IF outcome = "2xx" THEN "answered" ELSE "lost"]]
    /\ UNCHANGED <<view, source, healthy, arrived>>

\* An answer to the dashboard is lost on its way.
Lose(r) ==
    /\ lane[r].pc = "answered"
    /\ lane' = [lane EXCEPT ![r].pc = "lost"]
    /\ UNCHANGED <<metrics, view, source, healthy, arrived, ended>>

\* loadOverview goes on: answers are shown in the order they come in, and what
\* is shown stays when a poll fails.
Render(r) ==
    /\ lane[r].pc \in {"answered", "lost"}
    /\ healthy' = (lane[r].pc = "answered")
    /\ IF lane[r].pc = "answered" THEN view' = lane[r].seen /\ source' = lane[r].pod
       ELSE UNCHANGED <<view, source>>
    /\ lane' = [lane EXCEPT ![r] = Idle]
    /\ UNCHANGED <<metrics, arrived, ended>>

\* A process dies, with its requests and its counters, and another one starts.
Restart(p) ==
    /\ metrics' = [metrics EXCEPT ![p] = Zero]
    /\ lane' = [r \in Lanes |->
                   IF lane[r].pc = "idle" \/ lane[r].pod # p THEN lane[r]
                   ELSE IF lane[r].pc \in {"answered", "lost"} THEN [lane[r] EXCEPT !.pod = None]
                   ELSE IF lane[r].route = "overview" THEN [lane[r] EXCEPT !.pc = "lost"]
                   ELSE Idle]
    /\ source' = IF source = p THEN None ELSE source
    /\ UNCHANGED <<view, healthy, arrived, ended>>

Next ==
    \/ \E r \in Lanes :
          \/ \E p \in Pods, route \in Routes : Arrive(r, p, route)
          \/ Overview(r)
          \/ \E outcome \in Statuses \union {"raised", "cancelled"} : Finish(r, outcome)
          \/ Lose(r)
          \/ Render(r)
    \/ \E p \in Pods : Restart(p)

Spec == Init /\ [][Next]_vars

-----------------------------------------------------------------------------
\* Every variable keeps its type.
TypeOK ==
    /\ metrics \in [Pods -> Metrics]
    /\ lane \in [Lanes -> Request \union {Idle}]
    /\ view \in Snapshots \union {None} /\ source \in Pods \union {None}
    /\ healthy \in BOOLEAN
    /\ arrived \in 0..Budget /\ ended \in [Pods -> Nat]

\* The figures of a snapshot agree, whatever requests end around it and however
\* they end: every exception is a server error as well, the classes are parts of
\* the total, and the average latency is taken over exactly the counted requests.
AddsUp(s) ==
    /\ s.exceptions <= s.server
    /\ s.success + s.client + s.server <= s.total
    /\ s.timed = s.total

\* The dashboard shows figures of one snapshot only, which agree, also when polls
\* overlap, are answered by different replicas, get lost or meet a restart.
ViewAddsUp == view # None => AddsUp(view)

\* The dashboard never shows more requests than some replica has ended: neither
\* those in flight nor the poll itself are counted ahead.
ViewIsPast == view # None => \E p \in Pods : view.total <= ended[p]

\* One poll after the other, the figures of a process never go back: whatever a
\* poll answers that was sent while the dashboard showed figures of the process
\* it reaches, it is not fewer requests than were shown.  What is shown does go
\* back when polls overlap (they are shown in the order of their answers), when
\* another replica answers, and when the process was restarted.
PollsGoForward ==
    \A r \in Lanes : lane[r].pc = "answered" => lane[r].seen.total >= lane[r].floor

\* What Prometheus' rate() and increase() in loadCharts rest on: a counter only
\* ever grows, or starts again from zero with its process.
CountersOnlyReset ==
    [][\A p \in Pods :
          \/ metrics'[p] = Zero
          \/ /\ \A s \in Statuses : metrics'[p].count[s] >= metrics[p].count[s]
             /\ metrics'[p].observed >= metrics[p].observed
             /\ metrics'[p].exceptions >= metrics[p].exceptions]_vars
=============================================================================
