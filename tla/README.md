# A verification project for Smart Auth API

TLA+ models of the FastAPI authentication service in this repository, TLC runs
that check them on small instances, and TLAPS proofs that hold for every value
of the constants. Paths such as `src/app/...` are those of the repository.

## The system

| component | state | operations | how it is modelled |
|---|---|---|---|
| Sessions (`services/auth_service.py`, `core/security.py`, `api/deps.py`, `repositories/auth.py`) | tables `users`, `refresh_tokens`; signed tokens held by clients | register, login, refresh, logout, `/me` | `AuthSessions`, abstract `TokenLedger` |
| Rate limiter (`core/rate_limiter.py`) | one Redis counter with a time to live per address | a dependency in front of all `/auth` routes but `/me` | `RateLimiter`, abstract `FixedWindow` |
| OAuth (`services/oauth_service.py`) | Redis keys `oauth:state:*`; tables `users`, `oauth_accounts` | start login, start link, two callbacks | `OAuthAccounts`, abstract `IdentityRegistry` |
| Settings (`core/config.py`) | none after start-up | validation | constants and their assumptions; what they let start, in `Deployment` |
| Observability (`middleware/observability.py`, `core/metrics.py`) | Prometheus counters per process | count a request when it ends, snapshot | `Observability` |
| System and health routes (`api/v1/system.py`, `health.py`, `main.py`) | none | overview, Prometheus proxy, probes | by their outcomes in `Observability` and `Deployment` |
| Web client (`web/app.js`) | the page's session, its mirror of the rate limit, the figures it shows | forms, logout, timers, polling | `WebClient`; polling in `Observability` |
| Schema (`alembic/`), Kubernetes manifests (`k8s/base`) | tables and revision; pods and jobs | migrate, start, probe, restart | `Deployment` |
| nginx, Prometheus, Grafana, Compose, scripts, CI | third-party or one-shot | | not modelled |

How they interact. Several replicas of one asynchronous process serve requests;
they share nothing but PostgreSQL and Redis. Each request has a database session
of its own, a transaction commits at each `commit()`, rows are never locked by a
`SELECT`, and `expire_on_commit=False` (`db/session.py:16`) leaves objects as they
were read. So whatever a handler has read may be stale by its next `await`; that
is where nearly all the hazards in `PROJECT.json` come from. The others are
commands split in two (INCR and EXPIRE, revoke and insert), a process that dies
between them, errors whose command may have been executed or not, and the two
clocks of a session: a JWT has whole seconds, a row has microseconds.

What makes each component correct:

* Sessions: one account per address; a token is dead before its successor lives;
  rows are only ever revoked; a revoked token, an inactive user or a token of the
  wrong type or age gets nothing; clients never hold what the table lacks; no
  session is lost but by a logout, a successor or a request that is cut off.
* Limiter: a counter never silently loses its expiry; a bound on what one peer
  gets; closed when told to fail closed; blocks end.
* OAuth: a state is used once and expires; an identity belongs to one user for
  good and gets there by creation or by a link the user started; nobody is signed
  in by address alone; no account is left without a way in; an account is born
  verified only by a provider that vouches for its very address, and stays so.
* Observability: the figures of a snapshot agree, however requests end; what is
  shown has happened; polls that do not overlap do not go back; counters only grow
  or start again.
* Web client: the page does not show a session as signed in that is revoked, nor
  one it has logged out; buttons come back; the bar counts its window.
* Deployment: the schema is whole or absent; migrations end, and succeed if nothing
  but another migration disturbs them.

## Modules and their correspondence to the code

**`TokenLedger`** is the abstract promise of rotation: tokens are issued once,
revoked once, and a successor is issued only for a revoked predecessor. Its
`Forest` says that successors form trees.

**`AuthSessions`** has `users`, `tokens` (the two tables), `req` (what each request
in flight carries from one await to the next), `now`, and history variables
`wallet` (what clients received), `exchanges` and `loggedOut`. One action is one
round trip and the Python up to the next await:

| code | actions |
|---|---|
| `register_user` | `RegisterBegin`, `RegisterSelect`, `RegisterInsert` |
| `authenticate_user` | `LoginBegin`, `LoginSelect` |
| `refresh_access_pair` | `RefreshBegin`, `RefreshSelect`, `RefreshCheck`, `RefreshRevoke` |
| `oauth_callback`, once it has its user | `OAuthBegin` |
| `issue_token_pair` | `Mint`, `InsertRefresh` |
| `logout_refresh_token` | `LogoutBegin`, `LogoutSelect`, `LogoutRevoke` |
| `get_current_user` | `MeBegin`, `MeSelect` |
| the answer, a crash, an operator, the clock | `Reply`, `Abort`, `Deactivate`, `Tick` |

`get_with_user` is two SELECTs (`selectinload`), hence two actions. Whether a
password verifies is any Boolean. `OAuthBegin` is where OAuth and sessions meet:
`get_or_create_oauth_user` returns any user there is, an inactive one as well, so
that `InactiveLockedOut` also says what the pair of such a callback is worth. A
client may present any token it was given, or something that is none; forging a
signature is out of scope.

`SerialSpec` is the same service met by clients that wait for each answer before
they send the next request: of `Spec`, the behaviours in which no two lanes are busy
at once (`NoOverlap`). The code does not enforce that. Under it a token is exchanged
once and a logout is final. The other half of README.md:367, that a stolen token's
user locks the thief out with the next refresh, fails even then: a revoked token that
is presented again is refused (`auth_service.py:75-76`), but the session that was got
with it stays.

**`RateLimiter`** has one action per Redis command (`Incr`, `Expire`, `Ttl`), one for
its `RedisError` (`IncrFails`, `ExpireFails`, `TtlFails`, executed or not), `Crash`,
and Redis's own `Tick`. `ClientIP` is `get_client_ip`. The history `orphaned` holds
the keys that lost their EXPIRE to a fault, `grants` the ages of each untrusted
peer's last `2 * MaxRequests + 1` requests whose count was within the limit, ages
of a window and more being all alike.

**`FixedWindow`** is what the limiter promises: a key's window begins (`StartWindow`)
and elapses as a whole, requests are admitted up to the limit and refused above it.
`RateLimiter` maps each counter to its value, saturated one above the limit, and its
time to live; commands that were lost, not executed, or only asked for the time left
are stutters.

**`IdentityRegistry`** is what OAuth promises: a ticket is drawn for one purpose,
redeemed once, and then lets its holder do one thing with it: enter as the owner of an
identity (`Recognise`, `Enter`), as a new member (`Enrol`, `Enter`), or have an identity
nobody owns (`Bind`). Tickets are the states; `OAuthAccounts` maps the lanes to the
tickets they hold, `Working` until they have found out whom to let in, `Admitted` then.

**`OAuthAccounts`** has the states in Redis, both tables, the callbacks in flight
(`req`), and the histories `started` (what each state was drawn for), `uses` and
`signIns`. `StartLogin` and `StartLink` are the SETEX, `Consume` is the MULTI GET
DELETE of `consume_oauth_state`, `Identify` the exchange with the provider (an
external service, or a failure of it): `GoogleProfiles` and `GitHubProfiles` are
what `_fetch_google_identity` and `_fetch_github_identity` can make of an answer,
where GitHub's list may have a primary address, none, or be empty. `FindAccount` to
`Pair` are `get_or_create_oauth_user` and the pair, `LinkLoad` to `LinkSave` are
`link_oauth_account_to_user`. `Verified` models what
SQLAlchemy writes: the column is in the UPDATE only if its value differs from the
one that was loaded. A refused callback leaves its lane at once, as nothing is
changed by the error. `Register` is the commit of `register_user` alone.

**`WebClient`** has the page's `session`, its forms and pending logouts, the mirror
`rlUsed`, `rlAge` of the limit, and the server's tokens as `issued` and `live`. A
callback up to its next await is one step; a request is on its way, answered, or
lost (`Accept`, `Fail`, `AcceptLogout`, `FailLogout`), and its continuation another
step (`RegisterAnswered`, `LoginAnswered`, `LogoutAnswered`). The logout button is
not disabled while a logout is pending, so several may be. Histories: `gone`, the
tokens whose logout has ended, and `sent`, the ages of the last submissions.

**`Observability`** has `metrics` per replica, requests in flight (`lane`), and the
figures the dashboard shows (`view`). `Arrive` is the entry of `dispatch` (`Entered`),
`Finish` its except and finally, `Overview` the snapshot that `system_overview` takes before
its own request is counted, `Lose` and `Render` the end of a poll on the page,
`Restart` a process that dies. `HealthEnds` to `MetricsEnds` list how the requests of
each route can end; a cancelled request counts as a 500 but not as an exception. A
label is only a way to tell samples apart, so counts are kept per class of status.
The histories `source` and `floor` remember which process the figures shown are of,
and what was shown of a process when a poll was sent to it.

**`Deployment`** has the two stores, what the applied settings are good for, the
committed `schema`, the migration jobs and the API pods. Settings may let the API
start (`api`) and the migration reach its database (`migration`), one without the
other: a wrong password, or a '%' in the URL on which `set_main_option` raises
(`env.py:18-21`), stops the migration only, a malformed `REDIS_URL` the API only, and
a validator that refuses stops both. `JobStarts` reads the revision,
`CreatesTable` waits for and then fails on what another transaction has created,
`Commits` makes the whole schema visible and may not live to say so; `Restarted`
is restartPolicy OnFailure under backoffLimit. Pods wait for the stores in their
init containers and boot if the settings are good for them; nothing they do or are
probed for asks for a table.

Definitions whose comment begins with "Mutant" are variants of the definition
after them, with a plausible bug; no specification uses them. Each property was
seen to fail under one of them (`PROJECT.json`, `mutants`).

## Runs

| run | what it shows | instance |
|---|---|---|
| `sessions_safety` | type, uniqueness, late and inactive requests, refinement of `TokenLedger`, families of tokens, logouts that no race undoes, why sessions end; access windows and rows behind delivered tokens under rounding | 2 lanes, 1 address, 2 user ids, 3 tokens, two ticks per second, 2 ticks; 1.5 million states |
| `limiter` | who sets the expiry; fail-closed; twice the limit at most; refinement of `FixedWindow`; blocks end without faults | 2 lanes, limit 2, window 3; 101,000 states |
| `oauth` | all bindings of states, identities and accounts; one account per address; refinement of `IdentityRegistry`; states expire | 2 lanes, 2 users, 2 addresses, 2 providers, 1 subject, 2 states; 217,000 states |
| `web` | what the page shows, its bar, its forms | 2 tokens, 2 logouts at once, limit 2, window 2; 271,000 states |
| `dashboard` | figures agree, are past, and go forward | 2 replicas, 2 lanes, 5 requests; 1.4 million states |
| `deployment` | the schema under races and faults; migrations end, and succeed undisturbed | 2 pods, 2 jobs, 3 attempts, 3 faults; 72,000 states |

Six more runs find a property violated that the repository's texts claim and the
code does not keep:

* `sessions_single_use`: two overlapping refreshes both exchange one token
  (README.md:367, "only has one use").
* `sessions_logout_final`: a refresh that read its row before a logout committed
  issues a pair after the logout was answered (README.md:300-301).
* `limiter_blocks_end`: EXPIRE lost after INCR, and the block never ends
  (README.md:373).
* `limiter_sliding`: a fixed window lets twice the limit through within one
  window's length (README.md:373, 833).
* `web_toast`: every logout the server has done is reported as "Server logout
  failed" (app.js:278-280), as the empty body of a 204 does not parse (app.js:19).
* `deployment_api_health`: a migration has used up its attempts and no table is there,
  and a pod becomes ready all the same, as its probes ask `/health`, which needs no
  database; k8s/README.md:90 expects "Migration job failed and the API never becomes
  healthy".

What the code does guarantee instead is what the passing runs state: only
requests that overlap the revocation can still exchange the token
(`LateExchangeRefused`); where no two requests overlap, a token is exchanged once and
a logout is final, which `AuthSessionsProofs` proves of `SerialSpec`; the block ends
unless a fault took the EXPIRE (`BlockedThenFree`); twice the limit is the most
(`TwiceTheLimit`); the page forgets the session whatever its toast says
(`LoggedOutStaysForgotten`); a migration that says it has succeeded has left the
tables behind (`SuccessMeansTables`).

Two hazards of the dashboard are real and stay: figures go back when polls overlap,
as they are shown in the order of their answers, and when another replica or a
restarted process answers. `PollsGoForward` says that nothing else makes them go back;
`ViewAddsUp` and `ViewIsPast` hold of older figures as well as of newer ones.

One disagreement between text and code touches no property: README.md:183 announces
three accounts "pre-seeded after running `alembic upgrade head`", and the only revision
creates tables and no rows.

### Bounds, and why they are enough

* Lanes. The races are between two requests of one kind or of two kinds, which two
  lanes reach in every order; lanes are reused, so long sequences occur as well.
  "Exactly one of them" is proved for every number of lanes.
* Tokens. `JtiBudget` lets a request that may mint start only while fresh jtis are
  left for all of them. Three suffice for two exchanges of one token.
* Time. In `sessions_safety` `MaxTime` covers the life of an access token, and
  `TicksPerSecond = 2` rounds; in the runs of the findings it covers a refresh token's.
  There is one address, hence one account at a time, and a second user id that only a
  registration past the constraint could get: sessions of different users share no
  row, and that a session keeps to its user is proved (`SessionKeepsUser`), as all of
  the run's properties are, for any number of both and any clock. The limiter's, the states' and the page's times are ages and times to live, so they need
  no bound.
* `CountCap = MaxRequests + 2`: above the limit the code only compares a count with
  it, so counters saturate there.
* `OAuthAccounts` draws each state of `States` once; `uses` saturates at 2.
  A callback for which no user id is left can only fail or abort.
* `WebClient` has two tokens: one on the page and one a form is answered with while
  a logout is pending. Once both are issued, forms can only fail.
* `Budget` bounds the requests that ever arrive in `Observability`: two polls that
  overlap, each with its count, and three requests around them. `MaxFaults` lets a
  migration fail as often as its `BackoffLimit`, here 3 instead of 4.

Where a run has no liveness property, replicas, lanes, user ids and jtis, which are
only compared, are permuted. `CHECK_DEADLOCK` is on everywhere.

### Fairness

`RateLimiter`: weak fairness of each request's next step, as the event loop and Redis
serve what they have accepted, and of `Tick`, as time passes in Redis whatever the
program does. `OAuthAccounts`: only of `Tick`. `WebClient`: every fetch settles and
its continuation runs. `Deployment`: Kubernetes goes on with a job that can go on, and
PostgreSQL comes back after an outage; Redis may stay away, and the operator need not
do anything. `AuthSessions` and `Observability` have safety properties only and need
none. No fairness is assumed of clients, crashes, faults or operators.

## Proofs

All are about any number of lanes, users, tokens, replicas, pods and so on, from the
named assumptions on the constants only.

`AuthSessionsProofs` proves, from `NoneAssumption`, `TimeAssumption` and
`NoneIsNoRecord`, `TypeOK`, `EmailUnique`, `NeverBothLive`, `WalletBacked`,
`InactiveLockedOut`, `LateExchangeRefused`, `RowsOnlyRevoke`, `AccessWindow`,
`RevocationAccounted` and that `AuthSessions` implements `TokenLedger`. Most are not inductive; `IInv` adds what a
suspended handler relies on: that the row it has read still exists with the same
user and expiry, that its own token is revoked by the time it mints, that the jti it
has drawn is still in no row and in no other lane, and that the user it works for
exists and was active when the request arrived, if barred then. Each action
has a lemma; the action properties are then proved from `IInv` step by step.
`TimeAssumption` says that both lifetimes are whole seconds, as configured:
rounding then moves a token's `exp` exactly as far as its `iat` (`NumericDateShift`,
over `MultiplesApart`), which is what `AccessWindow` comes down to.

`RevocationAccounted` says why a session ends: a revoked token has a successor, was
logged out, or the request that revoked it still owes one of the two (`Owes`), unless
that very request is lost. It comes down to two facts: who revokes owes
(`RevokerOwes`), and a lane that owes pays with its next step, or is aborted
(`OwedIsPaid`), which `IInv` gives, since the path from the revocation to the insert
has no refusal on it.

That exchanges form trees is proved once for the abstract ledger (`LedgerForest` in
`TokenLedger`: a successor is new, so it has no other parent and is nobody's ancestor)
and carried over by the refinement (`SessionsFormFamilies`). `SessionKeepsUser` and
`LogoutRevokes` need a second invariant, `FInv`: a lane about to mint or to insert
works for the owner of the row it has revoked (`OwnerLane`), and a logout about to be
answered has a revoked row behind it (`LogoutLane`); that others keep those rows is
`RowsAreKept`. For `SerialSpec`, `SInv` says what the racing lanes of the findings
lack: whoever is past its check knows the row to be unrevoked, unexchanged and not
logged out, as nobody else has run since (`SerialRefreshIsSingleUse`,
`SerialLogoutIsFinal`). Each of the two findings thus has a theorem beside it that
bounds it: only overlap does it.

`RateLimiterProofs` proves `TypeOK`, `ExpiryAccounted`, `CountedOrRefused` and
`TwiceTheLimit` from `LimiterAssumption`. That one request only is about to set an
expiry rests on the key staying there without one while that request is suspended
(`Waiting`), which rests on no other being able to set it (`Apart`). The lemma
`Settling` states once what a step must leave alone. `TwiceTheLimit` rests on
`HInv`: a peer nobody trusts is always counted under its own key (`OwnKey`), and its
latest grants are at most those the current counter has counted, then ones from
before its window began, of which all but a limit's worth are a window old (`Trail`).
`ImplementsFixedWindow` maps each command: `Incr` is an admission or a refusal,
`Expire` the beginning of a window, `Tick` its lapse, everything else a stutter.

`OAuthAccountsProofs` proves every safety property of the `oauth` run but the
refinement, and `StateUsedOnce` and `IdentityKept`. Its invariant
says what a suspended callback still knows: its state is spent, by it alone, and was
drawn for it (`LaneFacts`, `StateLife`), and the user and binding it has read are
still there, as rows are never deleted.

`OAuthRegistryProofs` proves that the callbacks implement `IdentityRegistry`. The
registry knows tickets where the code has lanes, so the mapping rests on no two lanes
holding one state, which `IInv` does not say: two lanes with `uses[s] = 1` each would
satisfy it. `Apart` does, and is inductive together with `IInv`, since `Consume` only
hands out a state that is still under its key, and held ones are not. The lemmas on
what the registry sees of a lane (`LeaveSeen`, `OnwardSeen`, `ArrivalSeen`) are stated
once; each action then has a lemma that names the abstract step it takes, and
`ImplementsRegistry` puts them together.

`WebClientProofs` proves all but the liveness of `web`. Answers on their way are the
danger: a login's token is one nobody else on the page has (`AnswersAreNew`), and
what a logout carries was issued (`LogoutsCarryIssued`). The bar and the page are
independent halves, and the bar's rests on no submission it counts being older than
its window (`BarInWindow`).

`ObservabilityProofs` proves the properties of `dashboard` and that counters only grow or
reset (`CountersOnlyReset`): the counters of a process add up after every step
(`Coherent`), and a snapshot keeps that on its way (`Sound`). For `PollsGoForward`
the invariant follows a figure around: once shown it is at most what its process has
counted (`ViewOK`), so is the floor of a poll sent to that process, and the poll's own
snapshot is all that is counted when it is taken (`LaneOK`); a restart takes the
process out of all three.

`DeploymentProofs` proves the invariants of `deployment`, and that a whole schema
stays: no transaction writes anything but all of it, and a job that is not given up
has an attempt left (`AttemptLeft`).

Some properties are proved and not run: `NeverBothLive` is a guard of `TokenLedger`,
`StateUsedOnce` and `IdentityKept` are guards of `IdentityRegistry` (a ticket is redeemed
when open, drawn once; nobody gets an identity that has an owner), and the runs check
those refinements instead; `SessionKeepsUser` and `CountersOnlyReset` hold by what single
steps write; and the two promises under `SerialSpec` are about the same definitions as
the findings.

Only model-checked: all liveness (`BlockedThenFree`, `StatesExpire`, `FormsComeBack`,
`MigrationSettles`, `UndisturbedJobsSucceed`), which the prover does not reach; and the violations, which need no more than their run.

## Not modelled

* Signatures, password hashing, request parsing and the validators of settings:
  pure functions of libraries or of strings.
* The charts, tabs, API tester and copy button of the page: presentation; a reload
  of the page, which is a new page without a session.
* The series per label of the metrics and the list of top routes: sums of what is
  modelled. Their number is not bounded by the code.
* A Redis that loses acknowledged writes, and stale pooled connections after
  PostgreSQL restarts: `Abort`, `IncrFails` and the like cover the errors that come
  of them, not the lost data.
* Compose, nginx, Prometheus, Grafana, CI and the scripts: declarations and one-shot
  tooling without state of this program.
