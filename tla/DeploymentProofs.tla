-------------------------- MODULE DeploymentProofs --------------------------
(***************************************************************************)
(* What Deployment guarantees for every number of pods, of migrations, of  *)
(* attempts and of faults.  No transaction writes anything but the whole   *)
(* schema, so all a new attempt can meet is nothing or everything; that    *)
(* the revision is there then tells it that the tables are.                *)
(***************************************************************************)
EXTENDS Deployment, TLAPS

\* A job that is not given up has an attempt left.
AttemptLeft ==
    \A j \in Jobs : job[j].pc # "failed" => job[j].failures < BackoffLimit

IInv ==
    /\ TypeOK
    /\ AttemptLeft
    /\ SchemaWhole
    /\ SuccessMeansTables

\* A job that has an attempt left is a job after it has failed, and knows
\* whether it has another one.
LEMMA RestartedIsJob ==
    ASSUME NEW m \in Job, m.failures < BackoffLimit
    PROVE  /\ Restarted(m) \in Job
           /\ Restarted(m).pc \in {"starting", "failed"}
           /\ Restarted(m).pc # "failed" => Restarted(m).failures < BackoffLimit
BY DeploymentAssumption DEF Job, Restarted, Tables

\* Faults are counted up to their bound.
LEMMA FaultsCounted ==
    ASSUME TypeOK, faults' = faults \/ Fault
    PROVE  faults' \in 0..MaxFaults
BY DeploymentAssumption DEF TypeOK, Fault

\* A step of one job that leaves the schema alone, or completes it.
LEMMA JobStep ==
    ASSUME IInv, NEW j \in Jobs, NEW m \in Job, Become(j, m),
           m.pc # "failed" => m.failures < BackoffLimit,
           schema' = schema \/ schema' = Head,
           m.pc = "succeeded" => schema' = Head,
           UNCHANGED <<postgres, redis, settings, pod>>,
           faults' = faults \/ Fault
    PROVE  IInv'
<1>1. /\ job' = [job EXCEPT ![j] = m] /\ job \in [Jobs -> Job]
      /\ \A i \in Jobs \ {j} : job'[i] = job[i]
      /\ job'[j] = m
  BY DEF Become, IInv, TypeOK
<1>2. TypeOK'
  <2>1. job' \in [Jobs -> Job]
    BY <1>1
  <2>2. schema' \in [tables : 0..Tables, stamped : BOOLEAN]
    <3>1. Head \in [tables : 0..Tables, stamped : BOOLEAN]
      BY DEF Head, Tables
    <3> HIDE DEF Head
    <3> QED BY <3>1 DEF IInv, TypeOK
  <2>3. faults' \in 0..MaxFaults
    BY FaultsCounted DEF IInv
  <2> QED BY <2>1, <2>2, <2>3 DEF IInv, TypeOK
<1>3. AttemptLeft'
  BY <1>1 DEF IInv, AttemptLeft
<1>4. SchemaWhole'
  BY DEF IInv, SchemaWhole
<1>5. SuccessMeansTables'
  BY <1>1 DEF IInv, SuccessMeansTables
<1> QED BY <1>2, <1>3, <1>4, <1>5 DEF IInv

LEMMA InitHolds == Init => IInv
<1> SUFFICES ASSUME Init PROVE IInv
  OBVIOUS
<1>1. /\ job \in [Jobs -> Job] /\ AttemptLeft /\ SuccessMeansTables
  BY DeploymentAssumption DEF Init, AttemptLeft, SuccessMeansTables, Job, Tables
<1>2. schema \in [tables : 0..Tables, stamped : BOOLEAN] /\ SchemaWhole
  BY DEF Init, SchemaWhole, Empty, Tables
<1>3. pod \in [Pods -> PodPCs] /\ faults \in 0..MaxFaults
  BY DeploymentAssumption DEF Init, PodPCs
<1> QED BY <1>1, <1>2, <1>3 DEF Init, IInv, TypeOK

LEMMA JobHolds ==
    ASSUME IInv, NEW j \in Jobs, JobProgress(j) \/ JobCrashes(j) \/ Reapply(j)
    PROVE  IInv'
<1>1. job[j] \in Job
  BY DEF IInv, TypeOK
<1>2. job[j].pc # "failed" => job[j].failures < BackoffLimit
  BY DEF IInv, AttemptLeft
<1> DEFINE failed == Restarted(job[j])
<1>3. ASSUME job[j].pc # "failed"
      PROVE  /\ failed \in Job /\ failed.pc # "succeeded"
             /\ failed.pc # "failed" => failed.failures < BackoffLimit
  BY <1>1, <1>2, <1>3, RestartedIsJob
<1> HIDE DEF failed
<1>4. CASE JobWaits(j)
  <2> DEFINE m == [job[j] EXCEPT !.pc = "starting"]
  <2>1. m \in Job /\ m.pc = "starting" /\ m.failures < BackoffLimit
    BY <1>1, <1>2, <1>4 DEF JobWaits, Job
  <2>2. Become(j, m) /\ UNCHANGED <<postgres, redis, settings, schema, pod, faults>>
    BY <1>4 DEF JobWaits
  <2> HIDE DEF m
  <2> QED BY <2>1, <2>2, JobStep
<1>5. CASE JobStarts(j)
  <2>1. UNCHANGED <<postgres, redis, settings, schema, pod, faults>> /\ job[j].pc = "starting"
    BY <1>5 DEF JobStarts
  <2>2. CASE Become(j, failed)
    BY <2>1, <2>2, <1>3, JobStep
  <2>3. CASE schema.stamped /\ Become(j, [job[j] EXCEPT !.pc = "succeeded"])
    <3> DEFINE m == [job[j] EXCEPT !.pc = "succeeded"]
    <3>1. m \in Job /\ m.failures < BackoffLimit
      BY <1>1, <1>2, <2>1 DEF Job
    <3>2. schema = Head
      BY <2>3 DEF IInv, SchemaWhole, Empty
    <3> HIDE DEF m
    <3> QED BY <2>1, <2>3, <3>1, <3>2, JobStep DEF m
  <2>4. CASE Become(j, [job[j] EXCEPT !.pc = "running"])
    <3> DEFINE m == [job[j] EXCEPT !.pc = "running"]
    <3>1. m \in Job /\ m.pc = "running" /\ m.failures < BackoffLimit
      BY <1>1, <1>2, <2>1 DEF Job
    <3>2. Become(j, m)
      BY <2>4
    <3> HIDE DEF m
    <3> QED BY <2>1, <3>1, <3>2, JobStep
  <2> QED BY <1>5, <2>2, <2>3, <2>4 DEF JobStarts, failed
<1>6. CASE CreatesTable(j)
  <2>1. /\ UNCHANGED <<postgres, redis, settings, schema, pod, faults>>
        /\ job[j].pc = "running" /\ job[j].made < Tables
    BY <1>6 DEF CreatesTable
  <2>2. CASE Become(j, failed)
    BY <2>1, <2>2, <1>3, JobStep
  <2>3. CASE Become(j, [job[j] EXCEPT !.made = @ + 1])
    <3> DEFINE m == [job[j] EXCEPT !.made = @ + 1]
    <3>1. m \in Job /\ m.pc = "running" /\ m.failures < BackoffLimit
      BY <1>1, <1>2, <2>1 DEF Job, Tables
    <3>2. Become(j, m)
      BY <2>3
    <3> HIDE DEF m
    <3> QED BY <2>1, <3>1, <3>2, JobStep
  <2> QED BY <1>6, <2>2, <2>3 DEF CreatesTable, failed
<1>7. CASE Commits(j)
  <2>1. /\ schema' = Head /\ job[j].pc = "running"
        /\ UNCHANGED <<postgres, redis, settings, pod>>
        /\ faults' = faults \/ Fault
    BY <1>7 DEF Commits
  <2>2. CASE Become(j, failed)
    BY <2>1, <2>2, <1>3, JobStep
  <2>3. CASE Become(j, [pc |-> "succeeded", made |-> 0, failures |-> job[j].failures])
    <3> DEFINE m == [pc |-> "succeeded", made |-> 0, failures |-> job[j].failures]
    <3>1. m \in Job /\ m.failures < BackoffLimit
      BY <1>1, <1>2, <2>1 DEF Job, Tables
    <3>2. Become(j, m)
      BY <2>3
    <3> HIDE DEF m
    <3> QED BY <2>1, <3>1, <3>2, JobStep
  <2> QED BY <1>7, <2>2, <2>3 DEF Commits, failed
<1>8. CASE JobCrashes(j)
  <2>1. Become(j, failed) /\ job[j].pc # "failed"
    BY <1>8 DEF JobCrashes, failed
  <2>2. UNCHANGED <<postgres, redis, settings, schema, pod>> /\ Fault
    BY <1>8 DEF JobCrashes
  <2> QED BY <2>1, <2>2, <1>3, JobStep
<1>9. CASE Reapply(j)
  <2> DEFINE m == [pc |-> "waiting", made |-> 0, failures |-> 0]
  <2>1. m \in Job /\ m.pc = "waiting" /\ m.failures < BackoffLimit
    BY DeploymentAssumption DEF Job, Tables
  <2>2. Become(j, m) /\ UNCHANGED <<postgres, redis, settings, schema, pod, faults>>
    BY <1>9 DEF Reapply
  <2> HIDE DEF m
  <2> QED BY <2>1, <2>2, JobStep
<1> QED BY <1>4, <1>5, <1>6, <1>7, <1>8, <1>9 DEF JobProgress

LEMMA PodHolds ==
    ASSUME IInv, NEW p \in Pods, PodWaits(p) \/ PodBoots(p) \/ PodFails(p)
    PROVE  IInv'
<1>1. UNCHANGED <<postgres, redis, settings, schema, job>>
  BY DEF PodWaits, PodBoots, PodFails
<1>2. faults' = faults \/ Fault
  BY DEF PodWaits, PodBoots, PodFails
<1>3. \E pc \in PodPCs : Move(p, pc)
  BY DEF PodWaits, PodBoots, PodFails, PodPCs
<1>4. pod' \in [Pods -> PodPCs]
  BY <1>3 DEF Move, IInv, TypeOK
<1>5. TypeOK'
  BY <1>1, <1>2, <1>4, FaultsCounted DEF IInv, TypeOK
<1> QED BY <1>1, <1>5 DEF IInv, AttemptLeft, SchemaWhole, SuccessMeansTables

\* PostgreSQL takes down every open transaction at once.
LEMMA PostgresStopsHolds == IInv /\ PostgresStops => IInv'
<1> SUFFICES ASSUME IInv, PostgresStops PROVE IInv'
  OBVIOUS
<1>1. \A j \in Jobs :
         /\ job[j] \in Job
         /\ job[j].pc # "failed" => job[j].failures < BackoffLimit
  BY DEF IInv, TypeOK, AttemptLeft
<1>2. /\ job' = [j \in Jobs |-> IF job[j].pc = "running"
                                THEN Restarted(job[j]) ELSE job[j]]
      /\ UNCHANGED <<redis, settings, schema, pod>> /\ postgres' = FALSE /\ Fault
  BY DEF PostgresStops
<1>3. ASSUME NEW j \in Jobs
      PROVE  /\ job'[j] \in Job
             /\ job'[j].pc # "failed" => job'[j].failures < BackoffLimit
             /\ job'[j].pc = "succeeded" => job[j].pc = "succeeded"
  <2>1. CASE job[j].pc = "running"
    <3>1. job'[j] = Restarted(job[j])
      BY <1>2, <2>1
    <3> QED BY <1>1, <2>1, <3>1, RestartedIsJob
  <2>2. CASE job[j].pc # "running"
    BY <1>1, <1>2, <2>2
  <2> QED BY <2>1, <2>2
<1>4. job' \in [Jobs -> Job]
  BY <1>2, <1>3
<1>5. TypeOK'
  BY <1>2, <1>4, FaultsCounted DEF IInv, TypeOK
<1> QED BY <1>2, <1>3, <1>5 DEF IInv, AttemptLeft, SchemaWhole, SuccessMeansTables

LEMMA OtherHolds ==
    ASSUME IInv,
           PostgresStarts \/ RedisStops \/ RedisStarts \/ FixSettings \/ UNCHANGED vars
    PROVE  IInv'
<1>1. UNCHANGED <<schema, job, pod>>
  BY DEF PostgresStarts, RedisStops, RedisStarts, FixSettings, vars
<1>2. postgres' \in BOOLEAN /\ redis' \in BOOLEAN
  BY DEF IInv, TypeOK, PostgresStarts, RedisStops, RedisStarts, FixSettings, vars
<1>3. settings' \in Settings
  <2>1. Correct \in Settings
    BY DEF Correct, Settings
  <2> QED BY <2>1 DEF IInv, TypeOK, PostgresStarts, RedisStops, RedisStarts, FixSettings, vars
<1>4. faults' = faults \/ Fault
  BY DEF PostgresStarts, RedisStops, RedisStarts, FixSettings, vars
<1> QED BY <1>1, <1>2, <1>3, <1>4, FaultsCounted
        DEF IInv, TypeOK, AttemptLeft, SchemaWhole, SuccessMeansTables

LEMMA Invariance == Spec => []IInv
<1>1. IInv /\ [Next]_vars => IInv'
  BY JobHolds, PodHolds, PostgresStopsHolds, OtherHolds DEF Next
<1> QED BY InitHolds, <1>1, PTL DEF Spec

\* No job is ever given more attempts than its backoffLimit, and every variable
\* keeps its type (migration-job.yaml:7).
THEOREM DeploymentTypeCorrect == Spec => []TypeOK
BY Invariance, PTL DEF IInv

\* Whatever interrupts or doubles a migration, the schema is absent or complete
\* (the one transaction of alembic/env.py:41).
THEOREM SchemaIsWhole == Spec => []SchemaWhole
BY Invariance, PTL DEF IInv

\* A migration that says it has succeeded has left the tables behind, whoever
\* made them (migration-job.yaml).
THEOREM SuccessIsTrue == Spec => []SuccessMeansTables
BY Invariance, PTL DEF IInv

\* A schema that is there stays: what a client was told is not undone by another
\* migration, a restart or an outage.
THEOREM TablesStay == Spec => [][schema = Head => schema' = Head]_vars
<1>1. ASSUME IInv, Next, schema = Head
      PROVE  schema' = Head
  BY <1>1 DEF Next, JobProgress, JobWaits, JobStarts, CreatesTable, Commits,
        JobCrashes, Reapply, PodWaits, PodBoots, PodFails, PostgresStops,
        PostgresStarts, RedisStops, RedisStarts, FixSettings
<1>2. IInv /\ [Next]_vars => [schema = Head => schema' = Head]_vars
  BY <1>1 DEF vars
<1> QED BY Invariance, <1>2, PTL DEF Spec
=============================================================================
