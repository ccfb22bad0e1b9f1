----------------------------- MODULE Deployment -----------------------------
(***************************************************************************)
(* How the system comes up from the manifests of k8s/base: PostgreSQL and  *)
(* Redis come and go, API pods wait for both in their init containers and  *)
(* then start, and jobs run `alembic upgrade head` and are restarted when  *)
(* they fail.  Nothing orders pods and jobs, and several jobs may run at   *)
(* once (one is deleted and applied again, one is run by hand).  The one   *)
(* revision creates its tables in one transaction.                         *)
(***************************************************************************)
EXTENDS Integers

CONSTANTS Pods,          \* replicas of smart-auth-api
          Jobs,          \* runs of smart-auth-migration
          BackoffLimit,  \* backoffLimit
          MaxFaults      \* bound of the model: outages, evictions and crashes

ASSUME DeploymentAssumption == BackoffLimit \in Nat \ {0} /\ MaxFaults \in Nat

VARIABLES
    postgres, redis,  \* whether the stores answer
    settings,         \* what the applied overlay is good for
    schema,           \* what is committed: how many tables, and the revision
    job,              \* the migrations
    pod,              \* the pods
    faults            \* how many faults there were

vars == <<postgres, redis, settings, schema, job, pod, faults>>

-----------------------------------------------------------------------------
\* users, oauth_accounts and refresh_tokens, in the order upgrade creates them.
Tables == 3

Empty == [tables |-> 0, stamped |-> FALSE]
Head  == [tables |-> Tables, stamped |-> TRUE]

\* api: the process starts with it (the settings validate, both URLs parse);
\* migration: alembic reaches its database with it (the settings validate, the
\* URL passes set_main_option, which raises on a '%', and the password is right).
\* Neither implies the other: the API makes no connection until it is asked to,
\* and alembic none to Redis.
Settings == [api : BOOLEAN, migration : BOOLEAN]

Correct == [api |-> TRUE, migration |-> TRUE]

\* made: the tables of the open transaction.
Job == [pc : {"waiting", "starting", "running", "succeeded", "failed"},
        made : 0..Tables, failures : 0..BackoffLimit]

\* Waiting for either store in an init container, starting or serving the API.
PodPCs == {"postgres", "redis", "booting", "ready"}

Init ==
    /\ postgres = FALSE /\ redis = FALSE
    /\ settings \in Settings
    /\ schema = Empty
    /\ job = [j \in Jobs |-> [pc |-> "waiting", made |-> 0, failures |-> 0]]
    /\ pod = [p \in Pods |-> "postgres"]
    /\ faults = 0

Fault == faults < MaxFaults /\ faults' = faults + 1

-----------------------------------------------------------------------------
(* Migration jobs.                                                         *)

\* Mutant: restartPolicy OnFailure without a limit.
RestartedForever(m) == [pc |-> "starting", made |-> 0, failures |-> m.failures]

\* Mutant: one attempt too many.
RestartedPastLimit(m) ==
    [pc |-> IF m.failures + 1 > BackoffLimit THEN "failed" ELSE "starting",
     made |-> 0,
     failures |-> m.failures + 1]

\* A container that has failed: PostgreSQL rolls its transaction back, and
\* Kubernetes starts it again, without the init container, up to backoffLimit.
Restarted(m) ==
    [pc |-> IF m.failures + 1 >= BackoffLimit THEN "failed" ELSE "starting",
     made |-> 0,
     failures |-> m.failures + 1]

Become(j, m) == job' = [job EXCEPT ![j] = m]

\* until pg_isready
JobWaits(j) ==
    /\ job[j].pc = "waiting" /\ postgres
    /\ Become(j, [job[j] EXCEPT !.pc = "starting"])
    /\ UNCHANGED <<postgres, redis, settings, schema, pod, faults>>

\* Mutant: the revision in the database is not looked at.
JobStartsUnstamped(j) ==
    /\ job[j].pc = "starting"
    /\ IF ~settings.migration \/ ~postgres THEN Become(j, Restarted(job[j]))
       ELSE Become(j, [job[j] EXCEPT !.pc = "running"])
    /\ UNCHANGED <<postgres, redis, settings, schema, pod, faults>>

\* env.py imports the settings, connects, and reads the revision.
JobStarts(j) ==
    /\ job[j].pc = "starting"
    /\ \/ /\ ~settings.migration \/ ~postgres
          /\ Become(j, Restarted(job[j]))
       \/ /\ settings.migration /\ postgres /\ schema.stamped
          /\ Become(j, [job[j] EXCEPT !.pc = "succeeded"])
       \/ /\ settings.migration /\ postgres /\ ~schema.stamped
          /\ Become(j, [job[j] EXCEPT !.pc = "running"])
    /\ UNCHANGED <<postgres, redis, settings, schema, pod, faults>>

\* Mutant: each CREATE TABLE commits by itself.
CreatesTableAutocommit(j) ==
    /\ job[j].pc = "running" /\ job[j].made < Tables
    /\ IF schema.tables > job[j].made
       THEN Become(j, Restarted(job[j])) /\ UNCHANGED schema
       ELSE /\ Become(j, [job[j] EXCEPT !.made = @ + 1])
            /\ schema' = [schema EXCEPT !.tables = @ + 1]
    /\ UNCHANGED <<postgres, redis, settings, pod, faults>>

\* The next CREATE TABLE.  It waits while another transaction has created that
\* table and is still open, and fails if it is there.
CreatesTable(j) ==
    /\ job[j].pc = "running" /\ job[j].made < Tables
    /\ \A i \in Jobs \ {j} : job[i].made <= job[j].made
    /\ Become(j, IF schema.tables > job[j].made THEN Restarted(job[j])
                 ELSE [job[j] EXCEPT !.made = @ + 1])
    /\ UNCHANGED <<postgres, redis, settings, schema, pod, faults>>

\* Mutant: the process ends without the commit.
ExitsUncommitted(j) ==
    /\ job[j].pc = "running" /\ job[j].made = Tables
    /\ Become(j, [pc |-> "succeeded", made |-> 0, failures |-> job[j].failures])
    /\ UNCHANGED <<postgres, redis, settings, schema, pod, faults>>

\* The revision is stamped and the transaction commits; the process may die
\* before it can say so.
Commits(j) ==
    /\ job[j].pc = "running" /\ job[j].made = Tables
    /\ schema' = Head
    /\ \/ /\ Become(j, [pc |-> "succeeded", made |-> 0, failures |-> job[j].failures])
          /\ UNCHANGED faults
       \/ /\ Become(j, Restarted(job[j]))
          /\ Fault
    /\ UNCHANGED <<postgres, redis, settings, pod>>

JobCrashes(j) ==
    /\ job[j].pc \in {"starting", "running"}
    /\ Fault
    /\ Become(j, Restarted(job[j]))
    /\ UNCHANGED <<postgres, redis, settings, schema, pod>>

\* The operator deletes a finished job and applies the overlay again.
Reapply(j) ==
    /\ job[j].pc \in {"succeeded", "failed"}
    /\ Become(j, [pc |-> "waiting", made |-> 0, failures |-> 0])
    /\ UNCHANGED <<postgres, redis, settings, schema, pod, faults>>

-----------------------------------------------------------------------------
(* API pods.                                                               *)

Move(p, pc) == pod' = [pod EXCEPT ![p] = pc]

\* The init containers, one after the other.
PodWaits(p) ==
    /\ \/ pod[p] = "postgres" /\ postgres /\ Move(p, "redis")
       \/ pod[p] = "redis" /\ redis /\ Move(p, "booting")
    /\ UNCHANGED <<postgres, redis, settings, schema, job, faults>>

\* uvicorn imports the application, which exits unless the settings are good for
\* it (it is then started again); the lifespan opens no connection, and /health,
\* which all three probes ask, needs none.
PodBoots(p) ==
    /\ pod[p] = "booting" /\ settings.api
    /\ Move(p, "ready")
    /\ UNCHANGED <<postgres, redis, settings, schema, job, faults>>

\* The container crashes, or the pod is evicted and replaced.
PodFails(p) ==
    /\ pod[p] # "postgres"
    /\ Fault
    /\ Move(p, "postgres") \/ (pod[p] = "ready" /\ Move(p, "booting"))
    /\ UNCHANGED <<postgres, redis, settings, schema, job>>

-----------------------------------------------------------------------------
(* The stores and the operator.                                            *)

\* Open transactions are lost with PostgreSQL.
PostgresStops ==
    /\ postgres /\ Fault
    /\ postgres' = FALSE
    /\ job' = [j \in Jobs |-> IF job[j].pc = "running" THEN Restarted(job[j]) ELSE job[j]]
    /\ UNCHANGED <<redis, settings, schema, pod>>

PostgresStarts ==
    /\ ~postgres /\ postgres' = TRUE
    /\ UNCHANGED <<redis, settings, schema, job, pod, faults>>

RedisStops ==
    /\ redis /\ Fault
    /\ redis' = FALSE
    /\ UNCHANGED <<postgres, settings, schema, job, pod>>

RedisStarts ==
    /\ ~redis /\ redis' = TRUE
    /\ UNCHANGED <<postgres, settings, schema, job, pod, faults>>

\* The overlay's environment is generated anew; containers read it on their
\* next start.
FixSettings ==
    /\ settings # Correct /\ settings' = Correct
    /\ UNCHANGED <<postgres, redis, schema, job, pod, faults>>

-----------------------------------------------------------------------------
JobProgress(j) == JobWaits(j) \/ JobStarts(j) \/ CreatesTable(j) \/ Commits(j)

Next ==
    \/ \E j \in Jobs : JobProgress(j) \/ JobCrashes(j) \/ Reapply(j)
    \/ \E p \in Pods : PodWaits(p) \/ PodBoots(p) \/ PodFails(p)
    \/ PostgresStops \/ PostgresStarts \/ RedisStops \/ RedisStarts
    \/ FixSettings

Spec == Init /\ [][Next]_vars

\* Kubernetes goes on with what a job can do, and PostgreSQL comes back.  Nobody
\* has to fix settings or apply a job again, and Redis may stay away.
Fairness == WF_vars(PostgresStarts) /\ \A j \in Jobs : WF_vars(JobProgress(j))

LiveSpec == Spec /\ Fairness

-----------------------------------------------------------------------------
\* Every variable keeps its type.
TypeOK ==
    /\ postgres \in BOOLEAN /\ redis \in BOOLEAN /\ settings \in Settings
    /\ schema \in [tables : 0..Tables, stamped : BOOLEAN]
    /\ job \in [Jobs -> Job]
    /\ pod \in [Pods -> PodPCs]
    /\ faults \in 0..MaxFaults

\* However often migrations are killed, restarted, lose PostgreSQL or race each
\* other, the schema is either not there or all there, revision included, so
\* that the next attempt always starts from a state it knows.
SchemaWhole == schema \in {Empty, Head}

\* A job that succeeds has left the tables behind, also one that found another
\* one's, or its own whose commit it never heard of.
SuccessMeansTables == \A j \in Jobs : job[j].pc = "succeeded" => schema = Head

\* Every job ends, whatever its settings: none waits for good on PostgreSQL, on
\* another job's lock or on attempts that can only fail.
MigrationSettles ==
    \A j \in Jobs : job[j].pc \notin {"succeeded", "failed"}
                        ~> job[j].pc \in {"succeeded", "failed"}

\* Without faults and with a database it can reach every job succeeds, although
\* all but one of those that race each other run into tables they did not expect:
\* the failure costs one attempt, and the next one finds the revision.
UndisturbedJobsSucceed ==
    settings.migration /\ [](faults = 0) => \A j \in Jobs : <>(job[j].pc = "succeeded")

\* k8s/README.md:90: "Migration job failed and the API never becomes healthy".  No
\* pod becomes ready while a migration has failed and the tables are not there.
\* It does: nothing a pod waits for, and nothing its probes ask, needs them.
FailedMigrationHoldsApi ==
    [][(\E j \in Jobs : job[j].pc = "failed") /\ schema # Head
           => \A p \in Pods : pod'[p] = "ready" => pod[p] = "ready"]_vars
=============================================================================
