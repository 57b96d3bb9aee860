----------------------------- MODULE Deployment -----------------------------
(***************************************************************************)
(* Instances of the backend that start on one database: each upgrades the  *)
(* schema to the head of its own image and then serves                     *)
(* (scripts/start_cloud_run.sh, scripts/run_migrations.py, railway.toml,   *)
(* cloudbuild.yaml, migrations/env.py).  Instances start at the same time, *)
(* die at any step and are restarted, and images of two commits overlap    *)
(* while one deployment replaces another.                                  *)
(***************************************************************************)
EXTENDS Integers, Sequences, FiniteSets

CONSTANTS
    Instances,
    Revisions,      \* the chain: Revisions[v] is the sequence of statements of revision v
    HeadOf,         \* HeadOf[i]: the last revision in the image of instance i
    Declares,       \* Declares[i]: the items its ORM classes declare
    Versions,       \* bound: the versions the database is found at and downgraded to
    MaxRetries,     \* restartPolicyMaxRetries
    MaxCrashes,     \* bound: how many processes die
    MaxDowngrades   \* bound

ASSUME DeploymentAssumption ==
    /\ Len(Revisions) \in Nat /\ DOMAIN Revisions = 1..Len(Revisions)
    /\ \A v \in DOMAIN Revisions : \E k \in DOMAIN Revisions[v] : TRUE
    /\ \A u, v \in DOMAIN Revisions : \A k \in DOMAIN Revisions[u], n \in DOMAIN Revisions[v] :
          u # v => Revisions[u][k].makes # Revisions[v][n].makes
    /\ HeadOf \in [Instances -> 0..Len(Revisions)]
    /\ Versions \subseteq 0..Len(Revisions)
    /\ MaxRetries \in Nat /\ MaxCrashes \in Nat /\ MaxDowngrades \in Nat

VARIABLES
    version,        \* alembic_version, as a position in the chain, 0 for no row
    schema,         \* the committed items
    inst,           \* inst[i]: where instance i is
    crashes,        \* how many processes died
    downgrades      \* how many downgrades were run

deploymentVars == <<version, schema, inst, crashes, downgrades>>

\* A process has read the version `from` and has made the revisions up to
\* `done`, so far in its own transaction.
Process ==
    [at : {"STOPPED", "FAILED", "MIGRATING", "MIGRATED", "SERVING", "GAVE_UP"},
     from : 0..Len(Revisions), done : 0..Len(Revisions), failures : 0..MaxRetries + 1]

Working(from, done, failures) ==
    [at |-> "MIGRATING", from |-> from, done |-> done, failures |-> failures]

Resting(at, failures) == [at |-> at, from |-> 0, done |-> 0, failures |-> failures]

Stopped == Resting("STOPPED", 0)

ItemsOf == [v \in DOMAIN Revisions |-> {Revisions[v][k].makes : k \in DOMAIN Revisions[v]}]

ItemsBetween(a, b) == UNION {ItemsOf[v] : v \in a + 1..b}

Ids(items) == {x.id : x \in items}

\* What the open transaction of an instance has made.
Created(i) ==
    IF inst[i].at = "MIGRATING" THEN ItemsBetween(inst[i].from, inst[i].done) ELSE {}

\* Each statement of revision v finds what it refers to, and nothing of its
\* own name yet.
Runs(v, items) ==
    LET found == Ids(items)
    IN  \A k \in DOMAIN Revisions[v] :
            LET before == found \cup {Revisions[v][n].makes.id : n \in 1..k - 1}
                made   == Revisions[v][k].makes
            IN  made.id \notin before /\ made.needs \subseteq before

\* Mutant: an upgrade waits for every other that is under way.
WaitForAll(i, v) == \E j \in Instances \ {i} : inst[j].at = "MIGRATING"

\* Two transactions do not make an object of one name: the second waits for
\* the first to end.
MustWait(i, v) == \E j \in Instances \ {i} : Ids(Created(j)) \cap Ids(ItemsOf[v]) # {}

\* Mutant: the platform restarts a process however often it has failed.
FailedAndRestarted(i) == Resting("FAILED", inst[i].failures + 1)

\* The process exits with an error, its transaction is rolled back, and the
\* platform restarts it unless it has done so too often.
FailedProcess(i) ==
    LET failures == inst[i].failures + 1
    IN  Resting(IF failures > MaxRetries THEN "GAVE_UP" ELSE "FAILED", failures)

-----------------------------------------------------------------------------
DeploymentInit ==
    /\ version \in Versions
    /\ schema = ItemsBetween(0, version)
    /\ inst = [i \in Instances |-> Stopped]
    /\ crashes = 0 /\ downgrades = 0

\* The process reads the version of the database.  An image that does not
\* have that revision cannot go on from it.
Start(i) ==
    /\ inst[i].at \in {"STOPPED", "FAILED"}
    /\ \/ /\ version > HeadOf[i]
          /\ inst' = [inst EXCEPT ![i] = FailedProcess(i)]
       \/ /\ version = HeadOf[i]
          /\ inst' = [inst EXCEPT ![i] = Resting("MIGRATED", inst[i].failures)]
       \/ /\ version < HeadOf[i]
          /\ inst' = [inst EXCEPT ![i] = Working(version, version, inst[i].failures)]
    /\ UNCHANGED <<version, schema, crashes, downgrades>>

\* Mutant: every revision is committed by itself, the version at the end.
RunAndCommitRevision(i) ==
    LET v == inst[i].done + 1
    IN  /\ inst[i].at = "MIGRATING" /\ inst[i].done < HeadOf[i]
        /\ \/ /\ Runs(v, schema)
              /\ inst' = [inst EXCEPT ![i] = Working(inst[i].from, v, inst[i].failures)]
              /\ schema' = schema \cup ItemsOf[v]
           \/ /\ ~Runs(v, schema)
              /\ inst' = [inst EXCEPT ![i] = FailedProcess(i)]
              /\ schema' = schema
        /\ UNCHANGED <<version, crashes, downgrades>>

\* The next revision, or the end of the process if a statement fails.
RunRevision(i) ==
    LET v == inst[i].done + 1
    IN  /\ inst[i].at = "MIGRATING" /\ inst[i].done < HeadOf[i]
        /\ ~MustWait(i, v)
        /\ \/ /\ Runs(v, schema \cup Created(i))
              /\ inst' = [inst EXCEPT ![i] = Working(inst[i].from, v, inst[i].failures)]
           \/ /\ ~Runs(v, schema \cup Created(i))
              /\ inst' = [inst EXCEPT ![i] = FailedProcess(i)]
        /\ UNCHANGED <<version, schema, crashes, downgrades>>

\* All revisions are one transaction (context.begin_transaction).
CommitUpgrade(i) ==
    /\ inst[i].at = "MIGRATING" /\ inst[i].done = HeadOf[i]
    /\ schema' = schema \cup Created(i)
    /\ version' = HeadOf[i]
    /\ inst' = [inst EXCEPT ![i] = Resting("MIGRATED", inst[i].failures)]
    /\ UNCHANGED <<crashes, downgrades>>

\* Only then does the shell reach uvicorn.
Serve(i) ==
    /\ inst[i].at = "MIGRATED"
    /\ inst' = [inst EXCEPT ![i] = Resting("SERVING", inst[i].failures)]
    /\ UNCHANGED <<version, schema, crashes, downgrades>>

Crash(i) ==
    /\ inst[i].at \in {"MIGRATING", "MIGRATED", "SERVING"} /\ crashes < MaxCrashes
    /\ inst' = [inst EXCEPT ![i] = FailedProcess(i)]
    /\ crashes' = crashes + 1
    /\ UNCHANGED <<version, schema, downgrades>>

\* The platform scales the instance in.
Stop(i) ==
    /\ inst[i].at \in {"FAILED", "SERVING"}
    /\ inst' = [inst EXCEPT ![i] = Stopped]
    /\ UNCHANGED <<version, schema, crashes, downgrades>>

\* alembic downgrade, by an operator who has stopped the service; each
\* revision drops what it made.
Downgrade(target) ==
    /\ \A i \in Instances : inst[i].at \in {"STOPPED", "GAVE_UP"}
    /\ target < version /\ downgrades < MaxDowngrades
    /\ schema' = schema \ ItemsBetween(target, version)
    /\ version' = target
    /\ downgrades' = downgrades + 1
    /\ UNCHANGED <<inst, crashes>>

ProcessStep(i) == RunRevision(i) \/ CommitUpgrade(i) \/ Serve(i)

Restart(i) == inst[i].at = "FAILED" /\ Start(i)

DeploymentNext ==
    \/ \E i \in Instances : Start(i) \/ ProcessStep(i) \/ Crash(i) \/ Stop(i)
    \/ \E target \in Versions : Downgrade(target)

\* A process runs on, and the platform restarts one that failed.
DeploymentFairness ==
    \A i \in Instances : WF_deploymentVars(ProcessStep(i) \/ Restart(i))

\* A start that has not ended yet, in serving or in giving up.
Starting(i) == inst[i].at \in {"FAILED", "MIGRATING", "MIGRATED"}

DeploymentSpec == DeploymentInit /\ [][DeploymentNext]_deploymentVars
-----------------------------------------------------------------------------
(* What the theorems ask of a chain, its images and the retries.           *)

\* Each revision runs on the tables of the one before it.
ChainRuns == \A v \in 1..Len(Revisions) : Runs(v, ItemsBetween(0, v - 1))

\* The revisions of an image make all that its classes declare, and those
\* after them fill the columns they add to a table it writes.
ImagesFit ==
    \A i \in Instances :
        /\ Declares[i] \subseteq ItemsBetween(0, HeadOf[i])
        /\ \A v \in HeadOf[i] + 1..Len(Revisions) : \A k \in DOMAIN Revisions[v] :
               Revisions[v][k].fill = "NONE" => <<Revisions[v][k].makes.id[1]>> \notin Ids(Declares[i])

\* The versions at which another instance can overtake i.
Rivals(i) == {HeadOf[j] : j \in Instances \ {i}} \cap 1..HeadOf[i]

\* A process is restarted for each crash and each version of a rival.
EnoughRetries ==
    /\ MaxCrashes \in Nat
    /\ \A i \in Instances : Cardinality(Rivals(i)) + MaxCrashes <= MaxRetries

-----------------------------------------------------------------------------
(* Properties.                                                             *)

DeploymentTypeOK ==
    /\ version \in 0..Len(Revisions)
    /\ inst \in [Instances -> Process]
    /\ crashes \in 0..MaxCrashes
    /\ downgrades \in 0..MaxDowngrades

\* However many instances upgrade at once, and wherever one dies, the
\* committed tables are those of the recorded version, and no instance serves
\* on a version behind its image.
SchemaIsItsVersion ==
    /\ schema = ItemsBetween(0, version)
    /\ \A i \in Instances : inst[i].at = "SERVING" => version >= HeadOf[i]

\* An instance that serves finds every table, added column, foreign key and
\* unique key its classes declare, and where a later image has added a column
\* to a table it writes, its inserts need not give it.
ServesWhatItDeclares ==
    \A i \in Instances : inst[i].at = "SERVING" =>
        /\ Declares[i] \subseteq schema
        /\ \A v \in HeadOf[i] + 1..version : \A k \in DOMAIN Revisions[v] :
               LET statement == Revisions[v][k]
               IN  statement.fill = "NONE" => <<statement.makes.id[1]>> \notin Ids(Declares[i])

\* If there are restarts enough, an instance gives up only when the database
\* is ahead of its image: losing a race with another upgrade is repaired.
OnlySupersededGiveUp ==
    [][\A i \in Instances :
          inst'[i].at = "GAVE_UP" /\ inst[i].at # "GAVE_UP" => version > HeadOf[i]]_deploymentVars
=============================================================================
