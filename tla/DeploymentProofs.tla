-------------------------- MODULE DeploymentProofs --------------------------
(***************************************************************************)
(* Upgrades that overlap, fail and are rolled back leave the database at   *)
(* one version of the chain, for any chain, any number of instances and    *)
(* images, and any number of crashes, restarts and downgrades; and what    *)
(* each process has to serve with is never overused.                       *)
(***************************************************************************)
EXTENDS Deployment, Serving, FiniteSetTheorems, TLAPS

\* What the proof needs of the types.
InstancesTyped ==
    /\ version \in 0..Len(Revisions)
    /\ inst \in [Instances -> [at : {"STOPPED", "FAILED", "MIGRATING", "MIGRATED", "SERVING", "GAVE_UP"},
                               from : 0..Len(Revisions), done : 0..Len(Revisions), failures : Int]]

HasRun(i) == inst[i].at = "MIGRATING" /\ inst[i].done > inst[i].from

\* What an instance knows of the database: an upgrade started at a version
\* that may be behind, but goes on only from the version there is, and who has
\* upgraded or serves is not ahead of it.
Placed(i) ==
    /\ inst[i].at = "MIGRATING" =>
          /\ inst[i].from < HeadOf[i] /\ inst[i].from <= version
          /\ inst[i].from <= inst[i].done /\ inst[i].done <= HeadOf[i]
    /\ HasRun(i) => inst[i].from = version
    /\ inst[i].at \in {"MIGRATED", "SERVING"} => HeadOf[i] <= version

\* One transaction at most has made something: the second waits for it.
OneUpgradeRuns == \A i, j \in Instances : HasRun(i) /\ HasRun(j) => i = j

DeploymentInv ==
    /\ InstancesTyped
    /\ schema = ItemsBetween(0, version)
    /\ \A i \in Instances : Placed(i)
    /\ OneUpgradeRuns

-----------------------------------------------------------------------------
(* The items of the revisions.                                             *)

LEMMA HeadsAreVersions ==
    /\ Len(Revisions) \in Nat /\ DOMAIN Revisions = 1..Len(Revisions)
    /\ \A i \in Instances : HeadOf[i] \in 0..Len(Revisions)
    /\ DOMAIN ItemsOf = 1..Len(Revisions)
    BY DeploymentAssumption DEF ItemsOf

LEMMA InBetween ==
    ASSUME NEW a \in Int, NEW b \in Int, NEW x
    PROVE  x \in ItemsBetween(a, b) <=> \E v \in a + 1..b : x \in ItemsOf[v]
    BY DEF ItemsBetween

LEMMA BetweenJoins ==
    ASSUME NEW a \in Int, NEW b \in Int, NEW c \in Int, a <= b, b <= c
    PROVE  ItemsBetween(a, c) = ItemsBetween(a, b) \cup ItemsBetween(b, c)
<1>1. \A v : v \in a + 1..c <=> v \in a + 1..b \/ v \in b + 1..c
    OBVIOUS
<1>2. ASSUME NEW x
      PROVE  x \in ItemsBetween(a, c) <=> x \in ItemsBetween(a, b) \/ x \in ItemsBetween(b, c)
    BY <1>1, InBetween
<1>3. QED
    BY <1>2

\* Revisions make different items.
LEMMA ItemsDiffer ==
    ASSUME NEW u \in 1..Len(Revisions), NEW v \in 1..Len(Revisions), NEW x,
           x \in ItemsOf[u], x \in ItemsOf[v]
    PROVE  u = v
<1>1. PICK k \in DOMAIN Revisions[u] : x = Revisions[u][k].makes
    BY HeadsAreVersions DEF ItemsOf
<1>2. PICK n \in DOMAIN Revisions[v] : x = Revisions[v][n].makes
    BY HeadsAreVersions DEF ItemsOf
<1>3. QED
    BY <1>1, <1>2, DeploymentAssumption

\* So dropping what the revisions after b made leaves what those up to b made.
LEMMA BetweenParts ==
    ASSUME NEW b \in 0..Len(Revisions), NEW c \in 0..Len(Revisions), b < c
    PROVE  ItemsBetween(0, c) \ ItemsBetween(b, c) = ItemsBetween(0, b)
<1>1. b \in Int /\ c \in Int /\ 0 <= b /\ b <= c
    BY HeadsAreVersions
<1>2. ItemsBetween(0, c) = ItemsBetween(0, b) \cup ItemsBetween(b, c)
    BY <1>1, BetweenJoins
<1>3. ASSUME NEW x, x \in ItemsBetween(0, b), x \in ItemsBetween(b, c)
      PROVE  FALSE
  <2>1. PICK u \in 0 + 1..b : x \in ItemsOf[u]
      BY <1>1, <1>3, InBetween
  <2>2. PICK v \in b + 1..c : x \in ItemsOf[v]
      BY <1>1, <1>3, InBetween
  <2>3. u \in 1..Len(Revisions) /\ v \in 1..Len(Revisions) /\ u # v
      BY HeadsAreVersions
  <2>4. QED
      BY <2>1, <2>2, <2>3, ItemsDiffer
<1>4. QED
    BY <1>2, <1>3

\* Each revision makes something, under its own name.
LEMMA SomethingMade ==
    ASSUME NEW v \in 1..Len(Revisions)
    PROVE  \E k \in DOMAIN Revisions[v] : Revisions[v][k].makes \in ItemsOf[v]
    BY HeadsAreVersions, DeploymentAssumption DEF ItemsOf

\* A revision that is part of the database cannot run again.
LEMMA NotTwice ==
    ASSUME NEW v \in 1..Len(Revisions), NEW items, ItemsOf[v] \subseteq items
    PROVE  ~Runs(v, items)
<1>1. PICK k \in DOMAIN Revisions[v] : Revisions[v][k].makes \in items
    BY SomethingMade
<1>2. Revisions[v][k].makes.id \in Ids(items)
    BY <1>1 DEF Ids
<1>3. QED
    BY <1>1, <1>2 DEF Runs
-----------------------------------------------------------------------------
(* The invariant.                                                          *)

LEMMA DeploymentInvInit == DeploymentInit => DeploymentInv
<1> SUFFICES ASSUME DeploymentInit PROVE DeploymentInv
    OBVIOUS
<1>1. version \in 0..Len(Revisions) /\ Stopped.at = "STOPPED"
    BY DeploymentAssumption DEF DeploymentInit, Stopped, Resting
<1>2. \A i \in Instances : inst[i] = Stopped
    BY DEF DeploymentInit
<1>3. InstancesTyped
    BY <1>1, HeadsAreVersions DEF DeploymentInit, InstancesTyped, Stopped, Resting
<1>4. (\A i \in Instances : Placed(i)) /\ OneUpgradeRuns
    BY <1>1, <1>2 DEF Placed, OneUpgradeRuns, HasRun
<1>5. QED
    BY <1>3, <1>4 DEF DeploymentInv, DeploymentInit

\* A step of one instance that leaves the database alone.
LEMMA InstanceStep ==
    ASSUME DeploymentInv, NEW i \in Instances, InstancesTyped',
           version' = version, schema' = schema,
           \A j \in Instances \ {i} : inst'[j] = inst[j],
           Placed(i)', \A j \in Instances \ {i} : ~(HasRun(i)' /\ HasRun(j))
    PROVE  DeploymentInv'
<1>1. schema' = ItemsBetween(0, version)'
    BY DEF DeploymentInv, ItemsBetween
<1>2. \A j \in Instances \ {i} : Placed(j)' /\ (HasRun(j)' <=> HasRun(j))
    BY DEF DeploymentInv, Placed, HasRun
<1>3. OneUpgradeRuns'
    BY <1>2 DEF DeploymentInv, OneUpgradeRuns
<1>4. QED
    BY <1>1, <1>2, <1>3 DEF DeploymentInv

\* A process that is not upgrading now.
LEMMA RestingStep ==
    ASSUME DeploymentInv, NEW i \in Instances, NEW at, NEW failures \in Int,
           at \in {"STOPPED", "FAILED", "MIGRATED", "SERVING", "GAVE_UP"},
           at \in {"MIGRATED", "SERVING"} => HeadOf[i] <= version,
           inst' = [inst EXCEPT ![i] = Resting(at, failures)], version' = version, schema' = schema
    PROVE  DeploymentInv'
<1>1. inst'[i] = Resting(at, failures) /\ \A j \in Instances \ {i} : inst'[j] = inst[j]
    BY DEF DeploymentInv, InstancesTyped
<1>2. Resting(at, failures) \in
          [at : {"STOPPED", "FAILED", "MIGRATING", "MIGRATED", "SERVING", "GAVE_UP"},
           from : 0..Len(Revisions), done : 0..Len(Revisions), failures : Int]
    BY HeadsAreVersions DEF Resting
<1>3. InstancesTyped'
    BY <1>2 DEF DeploymentInv, InstancesTyped
<1>4. inst'[i].at = at
    BY <1>1 DEF Resting
<1>5. Placed(i)' /\ ~HasRun(i)'
    BY <1>4 DEF Placed, HasRun
<1>6. QED
    BY <1>1, <1>3, <1>5, InstanceStep

LEMMA FailedStep ==
    ASSUME DeploymentInv, NEW i \in Instances,
           inst' = [inst EXCEPT ![i] = FailedProcess(i)], version' = version, schema' = schema
    PROVE  DeploymentInv'
<1>1. inst[i].failures + 1 \in Int
    BY DEF DeploymentInv, InstancesTyped
<1>2. \/ inst' = [inst EXCEPT ![i] = Resting("GAVE_UP", inst[i].failures + 1)]
      \/ inst' = [inst EXCEPT ![i] = Resting("FAILED", inst[i].failures + 1)]
    BY DEF FailedProcess
<1>3. /\ "GAVE_UP" \notin {"MIGRATED", "SERVING"} /\ "FAILED" \notin {"MIGRATED", "SERVING"}
      /\ {"GAVE_UP", "FAILED"} \subseteq {"STOPPED", "FAILED", "MIGRATED", "SERVING", "GAVE_UP"}
    OBVIOUS
<1>4. CASE inst' = [inst EXCEPT ![i] = Resting("GAVE_UP", inst[i].failures + 1)]
    BY <1>1, <1>3, <1>4, RestingStep, Zenon
<1>5. CASE inst' = [inst EXCEPT ![i] = Resting("FAILED", inst[i].failures + 1)]
    BY <1>1, <1>3, <1>5, RestingStep, Zenon
<1>6. QED
    BY <1>2, <1>4, <1>5

\* A process that upgrades, from the version there is once it has made
\* something, and while no other has.
LEMMA WorkingStep ==
    ASSUME DeploymentInv, NEW i \in Instances, NEW from \in 0..Len(Revisions),
           NEW done \in 0..Len(Revisions), NEW failures \in Int,
           from < HeadOf[i], from <= version, from <= done, done <= HeadOf[i],
           done > from => from = version /\ \A j \in Instances \ {i} : ~HasRun(j),
           inst' = [inst EXCEPT ![i] = Working(from, done, failures)],
           version' = version, schema' = schema
    PROVE  DeploymentInv'
<1>1. inst'[i] = Working(from, done, failures) /\ \A j \in Instances \ {i} : inst'[j] = inst[j]
    BY DEF DeploymentInv, InstancesTyped
<1>2. Working(from, done, failures) \in
          [at : {"STOPPED", "FAILED", "MIGRATING", "MIGRATED", "SERVING", "GAVE_UP"},
           from : 0..Len(Revisions), done : 0..Len(Revisions), failures : Int]
    BY DEF Working
<1>3. InstancesTyped'
    BY <1>2 DEF DeploymentInv, InstancesTyped
<1>4. inst'[i].at = "MIGRATING" /\ inst'[i].from = from /\ inst'[i].done = done
    BY <1>1 DEF Working
<1>5. Placed(i)' /\ (HasRun(i)' => done > from)
    BY <1>4 DEF Placed, HasRun
<1>6. QED
    BY <1>1, <1>3, <1>5, InstanceStep

LEMMA StartKeeps ==
    ASSUME DeploymentInv, NEW i \in Instances, Start(i)
    PROVE  DeploymentInv'
<1>0. /\ version' = version /\ schema' = schema
      /\ inst[i].failures \in Int /\ version \in 0..Len(Revisions) /\ HeadOf[i] \in 0..Len(Revisions)
    BY HeadsAreVersions DEF DeploymentInv, InstancesTyped, Start
<1>1. CASE inst' = [inst EXCEPT ![i] = FailedProcess(i)]
    BY <1>0, <1>1, FailedStep
<1>2. CASE version = HeadOf[i] /\ inst' = [inst EXCEPT ![i] = Resting("MIGRATED", inst[i].failures)]
  <2>1. HeadOf[i] <= version
      BY <1>0, <1>2
  <2>2. QED
      BY <1>0, <1>2, <2>1, RestingStep
<1>3. CASE /\ version < HeadOf[i]
           /\ inst' = [inst EXCEPT ![i] = Working(version, version, inst[i].failures)]
  <2>1. /\ version < HeadOf[i] /\ version <= version /\ version <= HeadOf[i]
        /\ ~(version > version)
      BY <1>0, <1>3
  <2>2. QED
      BY <1>0, <1>3, <2>1, WorkingStep, Zenon
<1>4. QED
    BY <1>1, <1>2, <1>3 DEF Start

\* An upgrade that started at a version that is behind fails on what has been
\* made meanwhile.
LEMMA OnlyFromTheVersion ==
    ASSUME DeploymentInv, NEW i \in Instances,
           inst[i].at = "MIGRATING", inst[i].done < HeadOf[i],
           Runs(inst[i].done + 1, schema \cup Created(i))
    PROVE  inst[i].from = version
<1>1. /\ inst[i].from \in 0..Len(Revisions) /\ inst[i].done \in 0..Len(Revisions)
      /\ version \in 0..Len(Revisions) /\ HeadOf[i] \in 0..Len(Revisions) /\ Len(Revisions) \in Nat
    BY HeadsAreVersions DEF DeploymentInv, InstancesTyped
<1>2. /\ inst[i].from <= inst[i].done /\ inst[i].from <= version
      /\ HasRun(i) => inst[i].from = version
    BY DEF DeploymentInv, Placed
<1>3. SUFFICES ASSUME inst[i].from < version PROVE FALSE
    BY <1>1, <1>2
<1>4. inst[i].done = inst[i].from
    BY <1>1, <1>2, <1>3 DEF HasRun
<1>5. DEFINE v == inst[i].done + 1
<1>6. v \in 0 + 1..version /\ v \in 1..Len(Revisions)
    BY <1>1, <1>3, <1>4
<1>7. ItemsOf[v] \subseteq ItemsBetween(0, version)
    BY <1>1, <1>6, InBetween
<1>8. ItemsOf[v] \subseteq schema \cup Created(i)
    BY <1>7 DEF DeploymentInv
<1>9. QED
    BY <1>6, <1>8, NotTwice

\* Who has made something has made the revision after the version, which no
\* other can make before it ends.
LEMMA NoOtherHasRun ==
    ASSUME DeploymentInv, NEW i \in Instances, NEW j \in Instances \ {i}, HasRun(j),
           inst[i].done = version, ~MustWait(i, inst[i].done + 1)
    PROVE  FALSE
<1>1. /\ inst[j].from \in 0..Len(Revisions) /\ inst[j].done \in 0..Len(Revisions)
      /\ version \in 0..Len(Revisions) /\ Len(Revisions) \in Nat
    BY HeadsAreVersions DEF DeploymentInv, InstancesTyped
<1>2. inst[j].from = version /\ version < inst[j].done /\ inst[j].at = "MIGRATING"
    BY DEF DeploymentInv, Placed, HasRun
<1>3. DEFINE v == version + 1
<1>4. v \in inst[j].from + 1..inst[j].done /\ v \in 1..Len(Revisions)
    BY <1>1, <1>2
<1>5. PICK x \in ItemsOf[v] : TRUE
    BY <1>4, SomethingMade
<1>6. x \in Created(j)
    BY <1>1, <1>2, <1>4, <1>5, InBetween DEF Created
<1>7. x.id \in Ids(Created(j)) \cap Ids(ItemsOf[v])
    BY <1>5, <1>6 DEF Ids
<1>8. QED
    BY <1>7 DEF MustWait

LEMMA RevisionKeeps ==
    ASSUME DeploymentInv, NEW i \in Instances, RunRevision(i)
    PROVE  DeploymentInv'
<1>0. /\ version' = version /\ schema' = schema /\ inst[i].at = "MIGRATING"
      /\ inst[i].failures \in Int /\ inst[i].done < HeadOf[i]
    BY DEF DeploymentInv, InstancesTyped, RunRevision
<1>1. /\ inst[i].from \in 0..Len(Revisions) /\ inst[i].done \in 0..Len(Revisions)
      /\ HeadOf[i] \in 0..Len(Revisions) /\ version \in 0..Len(Revisions) /\ Len(Revisions) \in Nat
    BY HeadsAreVersions DEF DeploymentInv, InstancesTyped
<1>2. CASE inst' = [inst EXCEPT ![i] = FailedProcess(i)]
    BY <1>0, <1>2, FailedStep
<1>3. CASE /\ Runs(inst[i].done + 1, schema \cup Created(i))
           /\ inst' = [inst EXCEPT ![i] = Working(inst[i].from, inst[i].done + 1, inst[i].failures)]
  <2>1. inst[i].from = version
      BY <1>0, <1>3, OnlyFromTheVersion
  <2>2. ASSUME NEW j \in Instances \ {i}, HasRun(j)
        PROVE  FALSE
    <3>1. CASE HasRun(i)
        BY <2>2, <3>1 DEF DeploymentInv, OneUpgradeRuns
    <3>2. CASE ~HasRun(i)
      <4>1. inst[i].done = version
          BY <1>0, <1>1, <2>1, <3>2 DEF HasRun, DeploymentInv, Placed
      <4>2. ~MustWait(i, inst[i].done + 1)
          BY DEF RunRevision
      <4>3. QED
          BY <2>2, <4>1, <4>2, NoOtherHasRun
    <3>3. QED
        BY <3>1, <3>2
  <2>3. /\ inst[i].from < HeadOf[i] /\ inst[i].from <= inst[i].done + 1
        /\ inst[i].done + 1 <= HeadOf[i] /\ inst[i].done + 1 \in 0..Len(Revisions)
      BY <1>0, <1>1 DEF DeploymentInv, Placed
  <2>4. inst[i].from = version /\ inst[i].from <= version /\ \A j \in Instances \ {i} : ~HasRun(j)
      BY <1>1, <2>1, <2>2
  <2>5. QED
      BY <1>0, <1>1, <1>3, <2>3, <2>4, WorkingStep, Zenon
<1>4. QED
    BY <1>2, <1>3 DEF RunRevision

\* What one transaction has made brings the tables from the version it started
\* at to its head, and nobody else is under way.
LEMMA CommitKeeps ==
    ASSUME DeploymentInv, NEW i \in Instances, CommitUpgrade(i)
    PROVE  DeploymentInv'
<1>1. /\ inst[i].at = "MIGRATING" /\ inst[i].done = HeadOf[i] /\ inst[i].failures \in Int
      /\ HeadOf[i] \in 0..Len(Revisions) /\ version \in 0..Len(Revisions) /\ Len(Revisions) \in Nat
    BY HeadsAreVersions DEF DeploymentInv, InstancesTyped, CommitUpgrade
<1>2. HasRun(i) /\ inst[i].from = version /\ version < HeadOf[i]
    BY <1>1 DEF HasRun, DeploymentInv, Placed
<1>3. schema' = ItemsBetween(0, version')
  <2>1. Created(i) = ItemsBetween(version, HeadOf[i])
      BY <1>1, <1>2 DEF Created
  <2>2. 0 <= version /\ version <= HeadOf[i] /\ 0 \in Int /\ version \in Int /\ HeadOf[i] \in Int
      BY <1>1, <1>2
  <2>3. ItemsBetween(0, HeadOf[i]) = ItemsBetween(0, version) \cup ItemsBetween(version, HeadOf[i])
      BY <2>2, BetweenJoins
  <2>4. QED
      BY <2>1, <2>3 DEF CommitUpgrade, DeploymentInv
<1>4. /\ inst'[i] = Resting("MIGRATED", inst[i].failures) /\ version' = HeadOf[i]
      /\ \A j \in Instances \ {i} : inst'[j] = inst[j]
    BY DEF DeploymentInv, InstancesTyped, CommitUpgrade
<1>5. InstancesTyped'
  <2>1. Resting("MIGRATED", inst[i].failures) \in
            [at : {"STOPPED", "FAILED", "MIGRATING", "MIGRATED", "SERVING", "GAVE_UP"},
             from : 0..Len(Revisions), done : 0..Len(Revisions), failures : Int]
      BY <1>1 DEF Resting
  <2>2. QED
      BY <1>1, <1>4, <2>1 DEF CommitUpgrade, DeploymentInv, InstancesTyped
<1>6. Placed(i)' /\ ~HasRun(i)'
  <2>1. inst'[i].at = "MIGRATED"
      BY <1>4 DEF Resting
  <2>2. QED
      BY <1>1, <1>4, <2>1 DEF Placed, HasRun
<1>7. ASSUME NEW j \in Instances \ {i}
      PROVE  Placed(j)' /\ ~HasRun(j)'
  <2>1. ~HasRun(j)
      BY <1>2 DEF DeploymentInv, OneUpgradeRuns
  <2>2. inst'[j] = inst[j] /\ HeadOf[j] \in 0..Len(Revisions)
      BY <1>4, HeadsAreVersions
  <2>3. inst[j].from \in 0..Len(Revisions) /\ inst[j].done \in 0..Len(Revisions) /\ Placed(j)
      BY DEF DeploymentInv, InstancesTyped
  <2>4. QED
      BY <1>1, <1>2, <1>4, <2>1, <2>2, <2>3 DEF Placed, HasRun
<1>8. OneUpgradeRuns'
    BY <1>6, <1>7 DEF OneUpgradeRuns
<1>9. QED
    BY <1>3, <1>5, <1>6, <1>7, <1>8 DEF DeploymentInv

LEMMA DowngradeKeeps ==
    ASSUME DeploymentInv, NEW target \in Versions, Downgrade(target)
    PROVE  DeploymentInv'
<1>1. target \in 0..Len(Revisions) /\ version \in 0..Len(Revisions) /\ target < version
    BY DeploymentAssumption DEF Downgrade, DeploymentInv, InstancesTyped
<1>2. ItemsBetween(0, version) \ ItemsBetween(target, version) = ItemsBetween(0, target)
    BY <1>1, BetweenParts
<1>3. schema' = ItemsBetween(0, version')
    BY <1>2 DEF Downgrade, DeploymentInv
<1>4. InstancesTyped'
    BY <1>1 DEF Downgrade, DeploymentInv, InstancesTyped
<1>5. \A i \in Instances : Placed(i)' /\ ~HasRun(i)'
    BY DEF Downgrade, Placed, HasRun
<1>6. QED
    BY <1>3, <1>4, <1>5 DEF DeploymentInv, OneUpgradeRuns

LEMMA DeploymentInvNext ==
    DeploymentInv /\ [DeploymentNext]_deploymentVars => DeploymentInv'
<1> SUFFICES ASSUME DeploymentInv, [DeploymentNext]_deploymentVars PROVE DeploymentInv'
    OBVIOUS
<1>1. ASSUME NEW i \in Instances, Start(i) PROVE DeploymentInv'
    BY <1>1, StartKeeps
<1>2. ASSUME NEW i \in Instances, RunRevision(i) PROVE DeploymentInv'
    BY <1>2, RevisionKeeps
<1>3. ASSUME NEW i \in Instances, CommitUpgrade(i) PROVE DeploymentInv'
    BY <1>3, CommitKeeps
<1>4. ASSUME NEW i \in Instances, Serve(i) PROVE DeploymentInv'
  <2>1. inst[i].failures \in Int /\ HeadOf[i] <= version
      BY <1>4 DEF DeploymentInv, InstancesTyped, Placed, Serve
  <2>2. QED
      BY <1>4, <2>1, RestingStep DEF Serve
<1>5. ASSUME NEW i \in Instances, Crash(i) PROVE DeploymentInv'
    BY <1>5, FailedStep DEF Crash
<1>6. ASSUME NEW i \in Instances, Stop(i) PROVE DeploymentInv'
  <2>1. inst' = [inst EXCEPT ![i] = Resting("STOPPED", 0)]
      BY <1>6 DEF Stop, Stopped
  <2>2. version' = version /\ schema' = schema /\ 0 \in Int
      BY <1>6 DEF Stop
  <2>3. QED
      BY <2>1, <2>2, RestingStep, Zenon
<1>7. ASSUME NEW target \in Versions, Downgrade(target) PROVE DeploymentInv'
    BY <1>7, DowngradeKeeps
<1>8. CASE UNCHANGED deploymentVars
    BY <1>8 DEF deploymentVars, DeploymentInv, InstancesTyped, Placed, HasRun, OneUpgradeRuns, ItemsBetween
<1>9. QED
    BY <1>1, <1>2, <1>3, <1>4, <1>5, <1>6, <1>7, <1>8 DEF DeploymentNext, ProcessStep

LEMMA DeploymentInvHolds == DeploymentSpec => []DeploymentInv
    BY DeploymentInvInit, DeploymentInvNext, PTL DEF DeploymentSpec
-----------------------------------------------------------------------------
(* The theorems.                                                           *)

\* However many instances upgrade at once, the committed tables are those of
\* the recorded version (start_cloud_run.sh, run_migrations.py, migrations/env.py).
THEOREM SchemaFollowsVersion == DeploymentSpec => []SchemaIsItsVersion
<1>1. DeploymentInv => SchemaIsItsVersion
    BY HeadsAreVersions DEF DeploymentInv, InstancesTyped, Placed, SchemaIsItsVersion
<1>2. QED
    BY <1>1, DeploymentInvHolds, PTL

LEMMA ServingHasItsImage ==
    ASSUME DeploymentInv, NEW i \in Instances, inst[i].at = "SERVING"
    PROVE  /\ ItemsBetween(0, HeadOf[i]) \subseteq schema
           /\ \A v \in HeadOf[i] + 1..version : v \in HeadOf[i] + 1..Len(Revisions)
<1>1. /\ HeadOf[i] \in Int /\ version \in Int /\ 0 \in Int /\ 0 <= HeadOf[i]
      /\ HeadOf[i] <= version /\ version <= Len(Revisions) /\ Len(Revisions) \in Nat
    BY HeadsAreVersions DEF DeploymentInv, InstancesTyped, Placed
<1>2. ASSUME NEW h \in Int, NEW v \in Int, 0 <= h, h <= v
      PROVE  ItemsBetween(0, h) \subseteq ItemsBetween(0, v)
  <2>1. ItemsBetween(0, v) = ItemsBetween(0, h) \cup ItemsBetween(h, v)
      BY <1>2, BetweenJoins
  <2>2. QED
      BY <2>1
<1>3. ItemsBetween(0, HeadOf[i]) \subseteq ItemsBetween(0, version)
    BY <1>1, <1>2
<1>4. QED
    BY <1>1, <1>3 DEF DeploymentInv

\* If the revisions up to an image's head make all that its classes declare,
\* and those after it fill the columns they add to a table it writes, then the
\* image, once it serves, has what it needs at every moment of every
\* deployment that overlaps with it (scripts/start_cloud_run.sh).
THEOREM ServingIsSafe ==
    ASSUME ImagesFit
    PROVE  DeploymentSpec => []ServesWhatItDeclares
<1>1. ASSUME DeploymentInv, NEW i \in Instances, inst[i].at = "SERVING"
      PROVE  /\ Declares[i] \subseteq schema
             /\ \A v \in HeadOf[i] + 1..version : v \in HeadOf[i] + 1..Len(Revisions)
    BY <1>1, ServingHasItsImage DEF ImagesFit
<1>2. DeploymentInv => ServesWhatItDeclares
    BY <1>1 DEF ServesWhatItDeclares, ImagesFit
<1>3. QED
    BY <1>2, DeploymentInvHolds, PTL
-----------------------------------------------------------------------------
(* Restarts repair lost races.                                             *)

\* Those that a database at version v has come past.
Reached(i, v) == Rivals(i) \cap 1..v

\* Process p of instance i, on a database at version v after c crashes: while
\* i is not superseded, each of its failures is a crash or a rival's version
\* that was reached, and where an upgrade is behind, a rival has got there.
Covered(i, p, v, c) ==
    /\ p.at = "STOPPED" => p.failures = 0
    /\ p.at # "GAVE_UP" /\ v <= HeadOf[i] =>
          p.failures <= c + Cardinality(Reached(i, IF p.at = "MIGRATING" THEN p.from ELSE v))
    /\ p.at = "MIGRATING" /\ p.from < v /\ v <= HeadOf[i] => v \in Rivals(i)

RetriesInv ==
    /\ crashes \in 0..MaxCrashes
    /\ \A i \in Instances : Covered(i, inst[i], version, crashes)

LEMMA ReachedGrows ==
    ASSUME NEW i \in Instances, NEW a \in Nat, NEW b \in Nat, a <= b
    PROVE  /\ Cardinality(Reached(i, a)) \in Nat /\ Cardinality(Reached(i, b)) \in Nat
           /\ Cardinality(Reached(i, a)) <= Cardinality(Reached(i, b))
           /\ Cardinality(Rivals(i)) \in Nat /\ Cardinality(Reached(i, b)) <= Cardinality(Rivals(i))
           /\ a < b /\ b \in Rivals(i) => Cardinality(Reached(i, a)) + 1 <= Cardinality(Reached(i, b))
<1>1. HeadOf[i] \in Nat
    BY HeadsAreVersions
<1>2. IsFiniteSet(1..HeadOf[i])
    BY <1>1, FS_Interval
<1>3. IsFiniteSet(Rivals(i))
    BY <1>2, FS_Subset DEF Rivals
<1>4. /\ Reached(i, a) \in SUBSET Rivals(i) /\ Reached(i, b) \in SUBSET Rivals(i)
      /\ Reached(i, a) \in SUBSET Reached(i, b)
    BY DEF Reached
<1>5. IsFiniteSet(Reached(i, a)) /\ IsFiniteSet(Reached(i, b))
    BY <1>3, <1>4, FS_Subset
<1>6. /\ Cardinality(Reached(i, a)) \in Nat /\ Cardinality(Reached(i, b)) \in Nat
      /\ Cardinality(Rivals(i)) \in Nat
    BY <1>3, <1>5, FS_CardinalityType
<1>7. Cardinality(Reached(i, a)) <= Cardinality(Reached(i, b))
    BY <1>4, <1>5, FS_Subset
<1>8. Cardinality(Reached(i, b)) <= Cardinality(Rivals(i))
    BY <1>3, <1>4, FS_Subset
<1>9. ASSUME a < b, b \in Rivals(i)
      PROVE  Cardinality(Reached(i, a)) + 1 <= Cardinality(Reached(i, b))
  <2>1. b \notin Reached(i, a) /\ Reached(i, a) \cup {b} \in SUBSET Reached(i, b)
      BY <1>9 DEF Reached
  <2>2. Cardinality(Reached(i, a) \cup {b}) = Cardinality(Reached(i, a)) + 1
      BY <1>5, <2>1, FS_AddElement
  <2>3. Cardinality(Reached(i, a) \cup {b}) <= Cardinality(Reached(i, b))
      BY <1>5, <2>1, FS_Subset
  <2>4. QED
      BY <2>2, <2>3
<1>10. QED
    BY <1>6, <1>7, <1>8, <1>9

\* More crashes take nothing away.
LEMMA MoreCrashes ==
    ASSUME NEW i \in Instances, NEW p, p.failures \in Int, NEW v \in Nat, NEW c \in Nat, NEW d \in Nat,
           p.from \in Nat, Covered(i, p, v, c), c <= d
    PROVE  Covered(i, p, v, d)
<1>1. DEFINE base == IF p.at = "MIGRATING" THEN p.from ELSE v
<1>2. Cardinality(Reached(i, base)) \in Nat
    BY ReachedGrows
<1>3. QED
    BY <1>2 DEF Covered

\* Nor does an upgrade of another instance that reaches version u.
LEMMA OthersOvertake ==
    ASSUME NEW i \in Instances, NEW p, p.failures \in Int, p.from \in Nat,
           NEW v \in Nat, NEW u \in Nat, NEW c \in Nat,
           Covered(i, p, v, c), v <= u, u <= HeadOf[i] => u \in Rivals(i)
    PROVE  Covered(i, p, u, c)
<1>1. HeadOf[i] \in Nat
    BY HeadsAreVersions
<1>2. Cardinality(Reached(i, v)) <= Cardinality(Reached(i, u))
      /\ Cardinality(Reached(i, v)) \in Nat /\ Cardinality(Reached(i, u)) \in Nat
    BY ReachedGrows
<1>3. Cardinality(Reached(i, p.from)) \in Nat
    BY ReachedGrows
<1>4. CASE p.at = "MIGRATING"
    BY <1>1, <1>3, <1>4 DEF Covered
<1>5. CASE p.at # "MIGRATING"
    BY <1>1, <1>2, <1>5 DEF Covered
<1>6. QED
    BY <1>4, <1>5

\* A process that fails for a reason that is covered is covered, and if it
\* gives up, its image is superseded.
LEMMA FailureCovered ==
    ASSUME EnoughRetries, NEW i \in Instances, inst[i].failures \in Int,
           NEW v \in Nat, NEW d \in 0..MaxCrashes,
           v <= HeadOf[i] => inst[i].failures + 1 <= d + Cardinality(Reached(i, v))
    PROVE  /\ Covered(i, FailedProcess(i), v, d)
           /\ FailedProcess(i).at = "GAVE_UP" => v > HeadOf[i]
<1>1. HeadOf[i] \in Nat /\ MaxRetries \in Nat /\ MaxCrashes \in Nat
    BY HeadsAreVersions, DeploymentAssumption DEF EnoughRetries
<1>2. Cardinality(Reached(i, v)) \in Nat /\ Cardinality(Rivals(i)) \in Nat
      /\ Cardinality(Reached(i, v)) <= Cardinality(Rivals(i))
    BY ReachedGrows
<1>3. v <= HeadOf[i] => inst[i].failures + 1 <= MaxRetries
    BY <1>1, <1>2 DEF EnoughRetries
<1>4. /\ FailedProcess(i).failures = inst[i].failures + 1
      /\ FailedProcess(i).at = IF inst[i].failures + 1 > MaxRetries THEN "GAVE_UP" ELSE "FAILED"
    BY DEF FailedProcess, Resting
<1>5. QED
    BY <1>1, <1>3, <1>4 DEF Covered

\* What a step keeps, and what it must not do.
RetriesKept ==
    /\ RetriesInv'
    /\ \A i \in Instances :
          inst'[i].at = "GAVE_UP" /\ inst[i].at # "GAVE_UP" => version > HeadOf[i]

LEMMA RetriesFields ==
    ASSUME DeploymentInv, RetriesInv, EnoughRetries, NEW i \in Instances
    PROVE  /\ inst[i].failures \in Int /\ inst[i].from \in Nat
           /\ version \in Nat /\ crashes \in Nat /\ HeadOf[i] \in Nat
           /\ Covered(i, inst[i], version, crashes) /\ Placed(i)
           /\ Cardinality(Reached(i, version)) \in Nat /\ Cardinality(Reached(i, inst[i].from)) \in Nat
<1>1. /\ inst[i].failures \in Int /\ inst[i].from \in Nat /\ version \in Nat
      /\ crashes \in Nat /\ HeadOf[i] \in Nat
    BY HeadsAreVersions DEF DeploymentInv, InstancesTyped, RetriesInv, EnoughRetries
<1>2. Cardinality(Reached(i, version)) \in Nat /\ Cardinality(Reached(i, inst[i].from)) \in Nat
    BY <1>1, ReachedGrows
<1>3. QED
    BY <1>1, <1>2 DEF DeploymentInv, RetriesInv

\* Instance i goes on as process p, on the same database.
LEMMA InstanceCovered ==
    ASSUME DeploymentInv, RetriesInv, EnoughRetries, NEW i \in Instances, NEW p,
           inst' = [inst EXCEPT ![i] = p], version' = version,
           crashes' \in 0..MaxCrashes, crashes <= crashes',
           Covered(i, p, version, crashes'),
           p.at = "GAVE_UP" => version > HeadOf[i]
    PROVE  RetriesKept
<1>1. inst'[i] = p /\ \A j \in Instances \ {i} : inst'[j] = inst[j]
    BY DEF DeploymentInv, InstancesTyped
<1>2. PICK c \in 0..MaxCrashes : c = crashes'
    OBVIOUS
<1>3. ASSUME NEW j \in Instances \ {i}
      PROVE  Covered(j, inst[j], version, c)
  <2>1. c \in Nat /\ crashes <= c
      BY <1>2 DEF EnoughRetries
  <2>2. QED
      BY <2>1, RetriesFields, MoreCrashes
<1>4. ASSUME NEW j \in Instances
      PROVE  Covered(j, inst'[j], version', crashes')
    BY <1>1, <1>2, <1>3
<1>5. RetriesInv'
  <2>1. \A j \in Instances : Covered(j, inst[j], version, crashes)'
      BY <1>4 DEF Covered, Reached, Rivals
  <2>2. QED
      BY <2>1 DEF RetriesInv
<1>6. QED
    BY <1>1, <1>5 DEF RetriesKept

LEMMA StartCovered ==
    ASSUME DeploymentInv, RetriesInv, EnoughRetries, NEW i \in Instances, Start(i)
    PROVE  RetriesKept
<1>0. /\ inst[i].failures \in Int /\ version \in Nat /\ crashes \in 0..MaxCrashes /\ crashes \in Nat
      /\ HeadOf[i] \in Nat /\ Covered(i, inst[i], version, crashes)
      /\ Cardinality(Reached(i, version)) \in Nat
    BY RetriesFields DEF RetriesInv
<1>1. /\ version' = version /\ crashes' = crashes /\ inst[i].at \in {"STOPPED", "FAILED"}
      /\ crashes' \in 0..MaxCrashes /\ crashes <= crashes'
    BY <1>0 DEF Start
<1>2. version <= HeadOf[i] => inst[i].failures <= crashes + Cardinality(Reached(i, version))
    BY <1>0, <1>1 DEF Covered
<1>3. CASE version > HeadOf[i] /\ inst' = [inst EXCEPT ![i] = FailedProcess(i)]
  <2>1. ~(version <= HeadOf[i])
      BY <1>0, <1>3
  <2>2. /\ Covered(i, FailedProcess(i), version, crashes')
        /\ FailedProcess(i).at = "GAVE_UP" => version > HeadOf[i]
      BY <1>0, <1>1, <2>1, FailureCovered
  <2>3. QED
      BY <1>0, <1>1, <1>3, <2>2, InstanceCovered
<1>4. CASE inst' = [inst EXCEPT ![i] = Resting("MIGRATED", inst[i].failures)]
  <2>1. /\ Covered(i, Resting("MIGRATED", inst[i].failures), version, crashes')
        /\ Resting("MIGRATED", inst[i].failures).at # "GAVE_UP"
      BY <1>1, <1>2 DEF Covered, Resting
  <2>2. QED
      BY <1>0, <1>1, <1>4, <2>1, InstanceCovered
<1>5. CASE inst' = [inst EXCEPT ![i] = Working(version, version, inst[i].failures)]
  <2>1. /\ Covered(i, Working(version, version, inst[i].failures), version, crashes')
        /\ Working(version, version, inst[i].failures).at # "GAVE_UP"
      BY <1>0, <1>1, <1>2 DEF Covered, Working
  <2>2. QED
      BY <1>0, <1>1, <1>5, <2>1, InstanceCovered
<1>6. QED
    BY <1>3, <1>4, <1>5 DEF Start

\* The tables that an upgrade from the present version has made so far.
LEMMA MadeSoFar ==
    ASSUME DeploymentInv, NEW i \in Instances, inst[i].at = "MIGRATING", inst[i].from = version
    PROVE  schema \cup Created(i) = ItemsBetween(0, inst[i].done)
<1>1. version \in Int /\ inst[i].done \in Int /\ 0 <= version /\ version <= inst[i].done
    BY HeadsAreVersions DEF DeploymentInv, InstancesTyped, Placed
<1>2. ItemsBetween(0, inst[i].done) = ItemsBetween(0, version) \cup ItemsBetween(version, inst[i].done)
    BY <1>1, BetweenJoins
<1>3. QED
    BY <1>2 DEF DeploymentInv, Created

LEMMA RevisionCovered ==
    ASSUME DeploymentInv, RetriesInv, EnoughRetries, ChainRuns, NEW i \in Instances, RunRevision(i)
    PROVE  RetriesKept
<1>0. /\ inst[i].failures \in Int /\ inst[i].from \in Nat /\ version \in Nat /\ crashes \in 0..MaxCrashes
      /\ crashes \in Nat /\ HeadOf[i] \in Nat /\ Covered(i, inst[i], version, crashes) /\ Placed(i)
      /\ Cardinality(Reached(i, version)) \in Nat /\ Cardinality(Reached(i, inst[i].from)) \in Nat
    BY RetriesFields DEF RetriesInv
<1>1. /\ version' = version /\ crashes' = crashes
      /\ inst[i].at = "MIGRATING" /\ inst[i].done < HeadOf[i]
      /\ crashes' \in 0..MaxCrashes /\ crashes <= crashes'
    BY <1>0 DEF RunRevision
<1>2. inst[i].from <= version
    BY <1>0, <1>1 DEF Placed
<1>3. CASE /\ ~Runs(inst[i].done + 1, schema \cup Created(i))
           /\ inst' = [inst EXCEPT ![i] = FailedProcess(i)]
  <2>1. inst[i].from # version
    <3>1. SUFFICES ASSUME inst[i].from = version
                   PROVE  Runs(inst[i].done + 1, schema \cup Created(i))
        BY <1>3
    <3>2. PICK v \in 1..Len(Revisions) : v = inst[i].done + 1 /\ v - 1 = inst[i].done
        BY <1>1, HeadsAreVersions DEF DeploymentInv, InstancesTyped
    <3>3. Runs(v, ItemsBetween(0, v - 1))
        BY DEF ChainRuns
    <3>4. QED
        BY <1>1, <3>1, <3>2, <3>3, MadeSoFar
  <2>2. ASSUME version <= HeadOf[i]
        PROVE  inst[i].failures + 1 <= crashes + Cardinality(Reached(i, version))
    <3>1. inst[i].from < version
        BY <1>0, <1>2, <2>1
    <3>2. version \in Rivals(i) /\ inst[i].failures <= crashes + Cardinality(Reached(i, inst[i].from))
        BY <1>0, <1>1, <2>2, <3>1 DEF Covered
    <3>3. Cardinality(Reached(i, inst[i].from)) + 1 <= Cardinality(Reached(i, version))
        BY <1>0, <1>2, <3>1, <3>2, ReachedGrows
    <3>4. QED
        BY <1>0, <3>2, <3>3
  <2>3. /\ Covered(i, FailedProcess(i), version, crashes')
        /\ FailedProcess(i).at = "GAVE_UP" => version > HeadOf[i]
      BY <1>0, <1>1, <2>2, FailureCovered
  <2>4. QED
      BY <1>0, <1>1, <1>3, <2>3, InstanceCovered
<1>4. CASE inst' = [inst EXCEPT ![i] = Working(inst[i].from, inst[i].done + 1, inst[i].failures)]
  <2>1. /\ Covered(i, Working(inst[i].from, inst[i].done + 1, inst[i].failures), version, crashes')
        /\ Working(inst[i].from, inst[i].done + 1, inst[i].failures).at # "GAVE_UP"
      BY <1>0, <1>1 DEF Covered, Working
  <2>2. QED
      BY <1>0, <1>1, <1>4, <2>1, InstanceCovered
<1>5. QED
    BY <1>3, <1>4 DEF RunRevision

\* A commit takes the database to a version that is a rival's for all others.
LEMMA CommitCovered ==
    ASSUME DeploymentInv, RetriesInv, EnoughRetries, NEW i \in Instances, CommitUpgrade(i)
    PROVE  RetriesKept
<1>0. /\ inst[i].failures \in Int /\ inst[i].from \in Nat /\ version \in Nat /\ crashes \in 0..MaxCrashes
      /\ crashes \in Nat /\ HeadOf[i] \in Nat /\ Covered(i, inst[i], version, crashes)
      /\ inst[i].done \in Nat
    BY RetriesFields, HeadsAreVersions DEF RetriesInv, DeploymentInv, InstancesTyped
<1>1. /\ inst[i].at = "MIGRATING" /\ inst[i].done = HeadOf[i]
      /\ version' = HeadOf[i] /\ crashes' = crashes
      /\ inst'[i] = Resting("MIGRATED", inst[i].failures)
      /\ \A j \in Instances \ {i} : inst'[j] = inst[j]
    BY DEF CommitUpgrade, DeploymentInv, InstancesTyped
<1>2. HasRun(i) /\ inst[i].from = version /\ version < HeadOf[i]
    BY <1>0, <1>1 DEF HasRun, DeploymentInv, Placed
<1>3. Covered(i, Resting("MIGRATED", inst[i].failures), HeadOf[i], crashes)
  <2>1. /\ Cardinality(Reached(i, version)) <= Cardinality(Reached(i, HeadOf[i]))
        /\ Cardinality(Reached(i, version)) \in Nat /\ Cardinality(Reached(i, HeadOf[i])) \in Nat
      BY <1>0, <1>2, ReachedGrows
  <2>2. inst[i].failures <= crashes + Cardinality(Reached(i, version))
      BY <1>0, <1>1, <1>2 DEF Covered
  <2>3. QED
      BY <1>0, <2>1, <2>2 DEF Covered, Resting
<1>4. ASSUME NEW j \in Instances \ {i}
      PROVE  Covered(j, inst[j], HeadOf[i], crashes)
  <2>1. /\ inst[j].failures \in Int /\ inst[j].from \in Nat /\ HeadOf[j] \in Nat
        /\ Covered(j, inst[j], version, crashes)
      BY RetriesFields
  <2>2. HeadOf[i] <= HeadOf[j] => HeadOf[i] \in Rivals(j)
      BY <1>0, <1>2, <2>1 DEF Rivals
  <2>3. version <= HeadOf[i]
      BY <1>0, <1>2
  <2>4. QED
      BY <1>0, <2>1, <2>2, <2>3, OthersOvertake
<1>5. \A j \in Instances : Covered(j, inst'[j], version', crashes')
    BY <1>1, <1>3, <1>4
<1>6. RetriesInv'
  <2>1. \A j \in Instances : Covered(j, inst[j], version, crashes)'
      BY <1>5 DEF Covered, Reached, Rivals
  <2>2. QED
      BY <1>0, <1>1, <2>1 DEF RetriesInv
<1>7. QED
    BY <1>1, <1>6 DEF RetriesKept, Resting

LEMMA CrashCovered ==
    ASSUME DeploymentInv, RetriesInv, EnoughRetries, NEW i \in Instances, Crash(i)
    PROVE  RetriesKept
<1>0. /\ inst[i].failures \in Int /\ inst[i].from \in Nat /\ version \in Nat /\ crashes \in Nat
      /\ HeadOf[i] \in Nat /\ Covered(i, inst[i], version, crashes) /\ Placed(i)
      /\ Cardinality(Reached(i, version)) \in Nat /\ Cardinality(Reached(i, inst[i].from)) \in Nat
    BY RetriesFields
<1>1. /\ inst[i].at \in {"MIGRATING", "MIGRATED", "SERVING"}
      /\ inst' = [inst EXCEPT ![i] = FailedProcess(i)]
      /\ crashes' = crashes + 1 /\ version' = version /\ crashes' \in 0..MaxCrashes
    BY <1>0 DEF Crash, EnoughRetries
<1>2. ASSUME version <= HeadOf[i]
      PROVE  inst[i].failures + 1 <= crashes + 1 + Cardinality(Reached(i, version))
  <2>1. CASE inst[i].at = "MIGRATING"
    <3>1. Cardinality(Reached(i, inst[i].from)) <= Cardinality(Reached(i, version))
        BY <1>0, <2>1, ReachedGrows DEF Placed
    <3>2. inst[i].failures <= crashes + Cardinality(Reached(i, inst[i].from))
        BY <1>0, <1>2, <2>1 DEF Covered
    <3>3. QED
        BY <1>0, <3>1, <3>2
  <2>2. CASE inst[i].at # "MIGRATING"
    <3>1. inst[i].failures <= crashes + Cardinality(Reached(i, version))
        BY <1>0, <1>1, <1>2, <2>2 DEF Covered
    <3>2. QED
        BY <1>0, <3>1
  <2>3. QED
      BY <2>1, <2>2
<1>3. crashes + 1 \in 0..MaxCrashes /\ crashes <= crashes + 1
    BY <1>0, <1>1
<1>4. /\ Covered(i, FailedProcess(i), version, crashes + 1)
      /\ FailedProcess(i).at = "GAVE_UP" => version > HeadOf[i]
    BY <1>0, <1>2, <1>3, FailureCovered
<1>5. QED
    BY <1>1, <1>3, <1>4, InstanceCovered

LEMMA StopCovered ==
    ASSUME DeploymentInv, RetriesInv, EnoughRetries, NEW i \in Instances, Stop(i)
    PROVE  RetriesKept
<1>0. /\ version \in Nat /\ crashes \in 0..MaxCrashes /\ crashes \in Nat
      /\ Cardinality(Reached(i, version)) \in Nat
    BY RetriesFields DEF RetriesInv
<1>1. Covered(i, Stopped, version, crashes) /\ Stopped.at # "GAVE_UP"
    BY <1>0 DEF Covered, Stopped, Resting
<1>2. inst' = [inst EXCEPT ![i] = Stopped] /\ version' = version /\ crashes' = crashes /\ crashes <= crashes'
    BY <1>0 DEF Stop
<1>3. QED
    BY <1>0, <1>1, <1>2, InstanceCovered

LEMMA DowngradeCovered ==
    ASSUME DeploymentInv, RetriesInv, EnoughRetries, NEW target \in Versions, Downgrade(target)
    PROVE  RetriesKept
<1>1. target \in Nat /\ version' = target /\ inst' = inst /\ crashes' = crashes
    BY DeploymentAssumption DEF Downgrade
<1>2. ASSUME NEW j \in Instances
      PROVE  Covered(j, inst[j], target, crashes)
  <2>1. Covered(j, inst[j], version, crashes) /\ inst[j].at \in {"STOPPED", "GAVE_UP"} /\ crashes \in Nat
      BY RetriesFields DEF Downgrade
  <2>2. Cardinality(Reached(j, target)) \in Nat
      BY <1>1, ReachedGrows
  <2>3. QED
      BY <2>1, <2>2 DEF Covered
<1>3. RetriesInv'
  <2>1. \A j \in Instances : Covered(j, inst[j], version, crashes)'
      BY <1>1, <1>2 DEF Covered, Reached, Rivals
  <2>2. QED
      BY <1>1, <2>1 DEF RetriesInv
<1>4. QED
    BY <1>1, <1>3 DEF RetriesKept

LEMMA RetriesInvInit == DeploymentInit /\ EnoughRetries => RetriesInv
<1> SUFFICES ASSUME DeploymentInit, EnoughRetries PROVE RetriesInv
    OBVIOUS
<1>1. version \in Nat /\ crashes = 0 /\ crashes \in 0..MaxCrashes
    BY DeploymentAssumption DEF DeploymentInit, EnoughRetries
<1>2. ASSUME NEW i \in Instances
      PROVE  Covered(i, inst[i], version, crashes)
  <2>1. inst[i] = Stopped /\ Cardinality(Reached(i, version)) \in Nat
      BY <1>1, <1>2, ReachedGrows DEF DeploymentInit
  <2>2. QED
      BY <1>1, <2>1 DEF Covered, Stopped, Resting
<1>3. QED
    BY <1>1, <1>2 DEF RetriesInv

LEMMA RetriesStep ==
    ASSUME EnoughRetries, ChainRuns, DeploymentInv, RetriesInv, [DeploymentNext]_deploymentVars
    PROVE  RetriesKept
<1>1. ASSUME NEW i \in Instances, Start(i) PROVE RetriesKept
    BY <1>1, StartCovered
<1>2. ASSUME NEW i \in Instances, RunRevision(i) PROVE RetriesKept
    BY <1>2, RevisionCovered
<1>3. ASSUME NEW i \in Instances, CommitUpgrade(i) PROVE RetriesKept
    BY <1>3, CommitCovered
<1>4. ASSUME NEW i \in Instances, Serve(i) PROVE RetriesKept
  <2>1. /\ inst[i].at = "MIGRATED" /\ version' = version /\ crashes' = crashes
        /\ crashes' \in 0..MaxCrashes /\ crashes <= crashes'
        /\ inst' = [inst EXCEPT ![i] = Resting("SERVING", inst[i].failures)]
      BY <1>4, RetriesFields DEF Serve, RetriesInv
  <2>2. /\ Covered(i, inst[i], version, crashes) /\ crashes \in 0..MaxCrashes /\ crashes \in Nat
      BY <1>4, RetriesFields DEF RetriesInv
  <2>3. /\ Covered(i, Resting("SERVING", inst[i].failures), version, crashes')
        /\ Resting("SERVING", inst[i].failures).at # "GAVE_UP"
      BY <2>1, <2>2 DEF Covered, Resting
  <2>4. QED
      BY <2>1, <2>2, <2>3, InstanceCovered
<1>5. ASSUME NEW i \in Instances, Crash(i) PROVE RetriesKept
    BY <1>5, CrashCovered
<1>6. ASSUME NEW i \in Instances, Stop(i) PROVE RetriesKept
    BY <1>6, StopCovered
<1>7. ASSUME NEW target \in Versions, Downgrade(target) PROVE RetriesKept
    BY <1>7, DowngradeCovered
<1>8. CASE UNCHANGED deploymentVars
    BY <1>8 DEF deploymentVars, RetriesKept, RetriesInv, Covered, Reached, Rivals
<1>9. QED
    BY <1>1, <1>2, <1>3, <1>4, <1>5, <1>6, <1>7, <1>8 DEF DeploymentNext, ProcessStep

\* If every revision runs on the tables of the one before it, and a process is
\* restarted at least once for each crash and for each version at which other
\* images can overtake its own (restartPolicyMaxRetries of railway.toml), then
\* only an instance that is superseded gives up.
THEOREM RestartsAreEnough ==
    ASSUME EnoughRetries, ChainRuns
    PROVE  DeploymentSpec => OnlySupersededGiveUp
<1>1. DeploymentInit => DeploymentInv /\ RetriesInv
    BY DeploymentInvInit, RetriesInvInit
<1>2. DeploymentInv /\ RetriesInv /\ [DeploymentNext]_deploymentVars => DeploymentInv' /\ RetriesInv'
    BY DeploymentInvNext, RetriesStep DEF RetriesKept
<1>3. DeploymentInv /\ RetriesInv /\ [DeploymentNext]_deploymentVars
      => [\A i \in Instances :
             inst'[i].at = "GAVE_UP" /\ inst[i].at # "GAVE_UP" => version > HeadOf[i]]_deploymentVars
    BY RetriesStep DEF RetriesKept
<1>4. QED
    BY <1>1, <1>2, <1>3, PTL DEF DeploymentSpec, OnlySupersededGiveUp
-----------------------------------------------------------------------------
(* The counters.                                                           *)

\* Only who gives up has failed once more than it is restarted.
RestartsCounted ==
    /\ DeploymentTypeOK
    /\ \A i \in Instances : inst[i].at # "GAVE_UP" => inst[i].failures <= MaxRetries

\* Instance i comes to be p, and is not behind any bound.
LEMMA CountedStep ==
    ASSUME RestartsCounted, DeploymentInv', NEW i \in Instances, NEW p \in Process,
           p.at # "GAVE_UP" => p.failures <= MaxRetries,
           inst' = [inst EXCEPT ![i] = p], crashes' \in 0..MaxCrashes, downgrades' \in 0..MaxDowngrades
    PROVE  RestartsCounted'
<1>1. version' \in 0..Len(Revisions)
    BY DEF DeploymentInv, InstancesTyped
<1>2. inst \in [Instances -> Process]
    BY DEF RestartsCounted, DeploymentTypeOK
<1>3. inst' \in [Instances -> Process] /\ \A j \in Instances : inst'[j] = IF j = i THEN p ELSE inst[j]
    BY <1>2
<1>4. QED
    BY <1>1, <1>3 DEF RestartsCounted, DeploymentTypeOK

LEMMA FailureCounted ==
    ASSUME RestartsCounted, NEW i \in Instances, inst[i].at # "GAVE_UP"
    PROVE  /\ FailedProcess(i) \in Process
           /\ FailedProcess(i).at # "GAVE_UP" => FailedProcess(i).failures <= MaxRetries
<1>1. inst[i].failures \in 0..MaxRetries /\ MaxRetries \in Nat /\ Len(Revisions) \in Nat
    BY DeploymentAssumption DEF RestartsCounted, DeploymentTypeOK, Process
<1>2. QED
    BY <1>1 DEF FailedProcess, Resting, Process

LEMMA RestartsCountedInit == DeploymentInit => RestartsCounted
<1> SUFFICES ASSUME DeploymentInit PROVE RestartsCounted
    OBVIOUS
<1>1. Stopped \in Process /\ Stopped.failures <= MaxRetries
    BY DeploymentAssumption DEF Stopped, Resting, Process
<1>2. QED
    BY <1>1, DeploymentAssumption DEF DeploymentInit, RestartsCounted, DeploymentTypeOK

LEMMA RestartsCountedNext ==
    DeploymentInv /\ RestartsCounted /\ [DeploymentNext]_deploymentVars => RestartsCounted'
<1> SUFFICES ASSUME DeploymentInv, RestartsCounted, [DeploymentNext]_deploymentVars
             PROVE  RestartsCounted'
    OBVIOUS
<1>0. /\ DeploymentInv' /\ version \in 0..Len(Revisions) /\ Len(Revisions) \in Nat
      /\ crashes \in 0..MaxCrashes /\ downgrades \in 0..MaxDowngrades
      /\ MaxRetries \in Nat /\ MaxCrashes \in Nat /\ MaxDowngrades \in Nat
      /\ inst \in [Instances -> Process]
    BY DeploymentInvNext, DeploymentAssumption DEF RestartsCounted, DeploymentTypeOK
<1>a. ASSUME NEW i \in Instances, inst[i].at # "GAVE_UP"
      PROVE  inst[i] \in Process /\ inst[i].failures \in 0..MaxRetries
    BY <1>0, <1>a DEF RestartsCounted, Process
<1>b. ASSUME NEW i \in Instances, inst[i].at # "GAVE_UP",
             NEW at \in {"STOPPED", "FAILED", "MIGRATED", "SERVING"}
      PROVE  /\ Resting(at, inst[i].failures) \in Process
             /\ Resting(at, inst[i].failures).failures <= MaxRetries
    BY <1>0, <1>a, <1>b DEF Resting, Process
<1>1. ASSUME NEW i \in Instances, Start(i) PROVE RestartsCounted'
  <2>1. inst[i].at # "GAVE_UP" /\ UNCHANGED <<crashes, downgrades>>
      BY <1>1 DEF Start
  <2>2. /\ Working(version, version, inst[i].failures) \in Process
        /\ Working(version, version, inst[i].failures).failures <= MaxRetries
      BY <1>0, <1>a, <2>1 DEF Working, Process
  <2>3. CASE inst' = [inst EXCEPT ![i] = FailedProcess(i)]
      BY <1>0, <2>1, <2>3, FailureCounted, CountedStep
  <2>4. CASE inst' = [inst EXCEPT ![i] = Resting("MIGRATED", inst[i].failures)]
      BY <1>0, <1>b, <2>1, <2>4, CountedStep
  <2>5. CASE inst' = [inst EXCEPT ![i] = Working(version, version, inst[i].failures)]
      BY <1>0, <2>1, <2>2, <2>5, CountedStep
  <2>6. QED
      BY <1>1, <2>3, <2>4, <2>5 DEF Start
<1>2. ASSUME NEW i \in Instances, RunRevision(i) PROVE RestartsCounted'
  <2> DEFINE v == inst[i].done + 1
  <2>1. inst[i].at = "MIGRATING" /\ inst[i].done < HeadOf[i] /\ UNCHANGED <<crashes, downgrades>>
      BY <1>2 DEF RunRevision
  <2>2. v \in 0..Len(Revisions) /\ inst[i].from \in 0..Len(Revisions)
      BY <1>0, <1>a, <2>1, HeadsAreVersions DEF Process
  <2>3. Working(inst[i].from, v, inst[i].failures) \in Process
        /\ Working(inst[i].from, v, inst[i].failures).failures <= MaxRetries
      BY <1>0, <1>a, <2>1, <2>2 DEF Working, Process
  <2>4. CASE inst' = [inst EXCEPT ![i] = FailedProcess(i)]
      BY <1>0, <2>1, <2>4, FailureCounted, CountedStep
  <2>5. CASE inst' = [inst EXCEPT ![i] = Working(inst[i].from, v, inst[i].failures)]
      BY <1>0, <2>1, <2>3, <2>5, CountedStep
  <2>6. QED
      BY <1>2, <2>4, <2>5 DEF RunRevision
<1>3. ASSUME NEW i \in Instances, CommitUpgrade(i) PROVE RestartsCounted'
    BY <1>0, <1>3, <1>b, CountedStep DEF CommitUpgrade
<1>4. ASSUME NEW i \in Instances, Serve(i) PROVE RestartsCounted'
    BY <1>0, <1>4, <1>b, CountedStep DEF Serve
<1>5. ASSUME NEW i \in Instances, Crash(i) PROVE RestartsCounted'
  <2>1. /\ inst[i].at # "GAVE_UP" /\ inst' = [inst EXCEPT ![i] = FailedProcess(i)]
        /\ crashes < MaxCrashes /\ crashes' = crashes + 1 /\ downgrades' = downgrades
      BY <1>5 DEF Crash
  <2>2. crashes' \in 0..MaxCrashes
      BY <1>0, <2>1
  <2>3. QED
      BY <1>0, <2>1, <2>2, FailureCounted, CountedStep
<1>6. ASSUME NEW i \in Instances, Stop(i) PROVE RestartsCounted'
  <2>1. Stopped \in Process /\ Stopped.failures <= MaxRetries
      BY <1>0 DEF Stopped, Resting, Process
  <2>2. QED
      BY <1>0, <1>6, <2>1, CountedStep DEF Stop
<1>7. ASSUME NEW target \in Versions, Downgrade(target) PROVE RestartsCounted'
  <2>1. /\ version' \in 0..Len(Revisions) /\ downgrades' \in 0..MaxDowngrades
        /\ UNCHANGED <<inst, crashes>>
      BY <1>0, <1>7, DeploymentAssumption DEF Downgrade
  <2>2. QED
      BY <2>1 DEF RestartsCounted, DeploymentTypeOK
<1>8. CASE UNCHANGED deploymentVars
    BY <1>8 DEF deploymentVars, RestartsCounted, DeploymentTypeOK
<1>9. QED
    BY <1>1, <1>2, <1>3, <1>4, <1>5, <1>6, <1>7, <1>8 DEF DeploymentNext, ProcessStep

\* A process is restarted at most as often as the platform does, and every
\* instance is at a version of the chain (railway.toml, start_cloud_run.sh).
THEOREM DeploymentTypesAreKept == DeploymentSpec => []DeploymentTypeOK
<1>1. RestartsCounted => DeploymentTypeOK
    BY DEF RestartsCounted
<1>2. QED
    BY DeploymentInvInit, DeploymentInvNext, RestartsCountedInit, RestartsCountedNext, <1>1, PTL
    DEF DeploymentSpec
-----------------------------------------------------------------------------
(* What serving takes.                                                     *)

Threaded == {c \in Calls : InThread(c)}

Refreshing == {c \in Calls : call[c].kind = "UPLOAD" /\ call[c].at = "COMMITTED"}

CallsTyped ==
    /\ call \in [Calls -> [kind : Kinds, at : Stages] \cup {NoCall}]
    /\ connected \subseteq {c \in Calls : call[c] # NoCall}

\* Few calls are at work at a time, however many there are; an upload has no
\* thread of its own when it commits.
ServingInv ==
    /\ CallsTyped
    /\ IsFiniteSet(Threaded) /\ Cardinality(Threaded) <= Threads
    /\ IsFiniteSet(connected) /\ Cardinality(connected) <= Connections
    /\ IsFiniteSet(Refreshing) /\ Cardinality(Refreshing) <= 1
    /\ \A c \in Calls : call[c].kind = "UPLOAD" => call[c].at # "HANDLING"

\* Of a set within its limit, a part is; and one more if there is room.
LEMMA WithinLimit ==
    ASSUME NEW S, IsFiniteSet(S), NEW n \in Nat, Cardinality(S) <= n, NEW T, NEW x,
           \/ T \in SUBSET S
           \/ T \in SUBSET (S \cup {x}) /\ Cardinality(S) < n
    PROVE  IsFiniteSet(T) /\ Cardinality(T) <= n
<1>1. Cardinality(S) \in Nat
    BY FS_CardinalityType
<1>2. CASE T \in SUBSET S
  <2>1. IsFiniteSet(T) /\ Cardinality(T) <= Cardinality(S)
      BY <1>2, FS_Subset
  <2>2. Cardinality(T) \in Nat
      BY <2>1, FS_CardinalityType
  <2>3. QED
      BY <1>1, <2>1, <2>2
<1>3. CASE T \in SUBSET (S \cup {x}) /\ Cardinality(S) < n
  <2>1. IsFiniteSet(S \cup {x}) /\ Cardinality(S \cup {x}) <= Cardinality(S) + 1
      BY <1>1, FS_AddElement
  <2>2. IsFiniteSet(T) /\ Cardinality(T) <= Cardinality(S \cup {x})
      BY <1>3, <2>1, FS_Subset
  <2>3. Cardinality(T) \in Nat /\ Cardinality(S \cup {x}) \in Nat
      BY <2>1, <2>2, FS_CardinalityType
  <2>4. QED
      BY <1>1, <1>3, <2>1, <2>2, <2>3
<1>4. QED
    BY <1>2, <1>3

LEMMA ServingInvInit == ServingInit => ServingInv
<1> SUFFICES ASSUME ServingInit PROVE ServingInv
    OBVIOUS
<1>1. \A c \in Calls : call[c] = NoCall
    BY DEF ServingInit
<1>2. CallsTyped
    BY DEF ServingInit, CallsTyped
<1>3. Threaded = {} /\ Refreshing = {} /\ connected = {}
    BY <1>1 DEF Threaded, Refreshing, InThread, NoCall, ServingInit
<1>4. 0 <= Threads /\ 0 <= Connections /\ 0 <= 1
    BY ServingAssumption
<1>5. IsFiniteSet({}) /\ Cardinality({}) = 0
    BY FS_EmptySet
<1>6. \A c \in Calls : call[c].kind = "UPLOAD" => call[c].at # "HANDLING"
    BY <1>1 DEF NoCall
<1>7. QED
    BY <1>2, <1>3, <1>4, <1>5, <1>6 DEF ServingInv

\* Call c goes on as p: it takes a thread or a connection only if one is free,
\* and commits an upload only if the event loop is not taken.
LEMMA CallGoesOn ==
    ASSUME ServingInv, NEW c \in Calls, NEW p \in [kind : Kinds, at : Stages] \cup {NoCall},
           call' = [call EXCEPT ![c] = p],
           p.kind = "UPLOAD" => p.at # "HANDLING",
           \/ connected' \in SUBSET connected /\ (p = NoCall => c \notin connected')
           \/ connected' = connected \cup {c} /\ ConnectionIsFree /\ p # NoCall,
           \/ ThreadIsFree \/ InThread(c)
           \/ p.at \notin {"AUTHENTICATING", "CHECKING_PASSWORD", "CHECKING_ROLE", "READING_FILE", "HANDLING", "COMMITTED"}
           \/ p.kind = "UPLOAD" /\ p.at = "COMMITTED",
           \/ ~LoopIsTaken
           \/ call[c].kind = "UPLOAD" /\ call[c].at = "COMMITTED"
           \/ ~(p.kind = "UPLOAD" /\ p.at = "COMMITTED")
    PROVE  ServingInv'
<1>1. /\ call'[c] = p /\ \A d \in Calls \ {c} : call'[d] = call[d]
      /\ call' \in [Calls -> [kind : Kinds, at : Stages] \cup {NoCall}]
    BY DEF ServingInv, CallsTyped
<1>2. CallsTyped'
    BY <1>1 DEF ServingInv, CallsTyped
<1>3. \A d \in Calls : call'[d].kind = "UPLOAD" => call'[d].at # "HANDLING"
    BY <1>1 DEF ServingInv
<1>4. Threads \in Nat /\ Connections \in Nat
    BY ServingAssumption
<1>5. IsFiniteSet(connected)' /\ Cardinality(connected') <= Connections
  <2>1. \/ connected' \in SUBSET connected
        \/ connected' \in SUBSET (connected \cup {c}) /\ Cardinality(connected) < Connections
      BY DEF ConnectionIsFree
  <2>2. QED
      BY <1>4, <2>1, WithinLimit DEF ServingInv
<1>6. IsFiniteSet(Threaded)' /\ Cardinality(Threaded') <= Threads
  <2>1. Threaded' \in SUBSET (Threaded \cup {c})
      BY <1>1 DEF Threaded, InThread
  <2>2. \/ Threaded' \in SUBSET Threaded
        \/ Threaded' \in SUBSET (Threaded \cup {c}) /\ Cardinality(Threaded) < Threads
    <3>1. CASE ThreadIsFree
        BY <2>1, <3>1 DEF ThreadIsFree, Threaded
    <3>2. CASE InThread(c)
        BY <2>1, <3>2 DEF Threaded
    <3>3. CASE \/ p.at \notin {"AUTHENTICATING", "CHECKING_PASSWORD", "CHECKING_ROLE", "READING_FILE", "HANDLING", "COMMITTED"}
               \/ p.kind = "UPLOAD" /\ p.at = "COMMITTED"
      <4>1. ~InThread(c)'
          BY <1>1, <3>3 DEF InThread
      <4>2. QED
          BY <2>1, <4>1 DEF Threaded
    <3>4. QED
        BY <3>1, <3>2, <3>3
  <2>3. QED
      BY <1>4, <2>2, WithinLimit DEF ServingInv
<1>7. IsFiniteSet(Refreshing)' /\ Cardinality(Refreshing') <= 1
  <2>1. Refreshing' \in SUBSET (Refreshing \cup {c})
      BY <1>1 DEF Refreshing
  <2>2. \/ Refreshing' \in SUBSET Refreshing
        \/ Refreshing' \in SUBSET (Refreshing \cup {c}) /\ Cardinality(Refreshing) < 1
    <3>1. CASE ~LoopIsTaken
      <4>1. Refreshing = {}
          BY <3>1 DEF Refreshing, LoopIsTaken
      <4>2. QED
          BY <2>1, <4>1, FS_EmptySet
    <3>2. CASE call[c].kind = "UPLOAD" /\ call[c].at = "COMMITTED"
        BY <2>1, <3>2 DEF Refreshing
    <3>3. CASE ~(p.kind = "UPLOAD" /\ p.at = "COMMITTED")
        BY <1>1, <2>1, <3>3 DEF Refreshing
    <3>4. QED
        BY <3>1, <3>2, <3>3
  <2>3. QED
      BY <2>2, WithinLimit DEF ServingInv
<1>8. QED
    BY <1>2, <1>3, <1>5, <1>6, <1>7 DEF ServingInv

LEMMA ServingInvNext ==
    ServingInv /\ [ServingNext]_servingVars => ServingInv'
<1> SUFFICES ASSUME ServingInv, [ServingNext]_servingVars PROVE ServingInv'
    OBVIOUS
<1> DEFINE Record == [kind : Kinds, at : Stages]
<1>1. ASSUME NEW c \in Calls, call[c].at # "IDLE"
      PROVE  /\ call[c] \in Record /\ call[c].kind \in Kinds /\ call[c].at \in Stages
             /\ call[c].kind = "UPLOAD" => call[c].at # "HANDLING"
    BY <1>1 DEF ServingInv, CallsTyped, NoCall
<1>2. ASSUME NEW c \in Calls, NEW stage \in Stages, call[c].at # "IDLE", At(c, stage)
      PROVE  /\ call' = [call EXCEPT ![c] = [kind |-> call[c].kind, at |-> stage]]
             /\ [kind |-> call[c].kind, at |-> stage] \in Record
             /\ [kind |-> call[c].kind, at |-> stage] # NoCall
  <2>1. call[c] \in Record /\ call[c].kind \in Kinds
      BY <1>1, <1>2
  <2>2. [call[c] EXCEPT !.at = stage] = [kind |-> call[c].kind, at |-> stage]
      BY <2>1
  <2>3. call' = [call EXCEPT ![c] = [kind |-> call[c].kind, at |-> stage]]
      BY <1>2, <2>2 DEF At
  <2>4. [kind |-> call[c].kind, at |-> stage] \in Record
      BY <2>1
  <2>5. [kind |-> call[c].kind, at |-> stage].at # NoCall.at
      BY DEF NoCall, Stages
  <2>6. QED
      BY <2>3, <2>4, <2>5
<1>3. ASSUME NEW c \in Calls, NEW kind \in Kinds, Arrive(c, kind)
      PROVE  ServingInv'
  <2>1. /\ [kind |-> kind, at |-> "ARRIVED"] \in Record
        /\ [kind |-> kind, at |-> "ARRIVED"] # NoCall
      BY DEF Stages, NoCall
  <2>2. QED
      BY <1>3, <2>1, CallGoesOn DEF Arrive
<1>4. ASSUME NEW c \in Calls, Authenticate(c)
      PROVE  ServingInv'
  <2>1. PICK stage \in Stages : /\ At(c, stage)
                                /\ stage = "HANDLING" => call[c].kind = "LOGIN"
                                /\ stage \in {"HANDLING", "AUTHENTICATING"}
      BY <1>4 DEF Authenticate, Stages
  <2>2. call[c].at = "ARRIVED" /\ connected' = connected /\ ThreadIsFree /\ ~LoopIsTaken
      BY <1>4 DEF Authenticate
  <2>3. QED
      BY <1>2, <2>1, <2>2, CallGoesOn
<1>5. ASSUME NEW c \in Calls, Authenticated(c) \/ Return(c) \/ TimeOut(c)
      PROVE  ServingInv'
  <2>1. PICK stage \in Stages : At(c, stage) /\ stage \in {"AUTHENTICATED", "ENDED"}
      BY <1>5 DEF Authenticated, Return, TimeOut, Stages
  <2>2. call[c].at # "IDLE" /\ connected' = connected
      BY <1>5 DEF Authenticated, Return, TimeOut, WaitsForConnection
  <2>3. QED
      BY <1>2, <2>1, <2>2, CallGoesOn
<1>6. ASSUME NEW c \in Calls, Dispatch(c)
      PROVE  ServingInv'
  <2>1. PICK stage \in Stages : /\ At(c, stage)
                                /\ stage = "HANDLING" => call[c].kind # "UPLOAD"
                                /\ stage \in {"HANDLING", "READING_FILE"}
      BY <1>6 DEF Dispatch, Stages
  <2>2. call[c].at # "IDLE" /\ connected' = connected /\ ThreadIsFree /\ ~LoopIsTaken
      BY <1>6 DEF Dispatch, IsAccepted
  <2>3. QED
      BY <1>2, <2>1, <2>2, CallGoesOn
<1>7. ASSUME NEW c \in Calls, Check(c)
       PROVE  ServingInv'
  <2>1. PICK stage \in Stages : At(c, stage) /\ stage \in {"CHECKING_PASSWORD", "CHECKING_ROLE"}
      BY <1>7 DEF Check, Stages
  <2>2. call[c].at # "IDLE" /\ connected' = connected /\ ThreadIsFree /\ ~LoopIsTaken
      BY <1>7 DEF Check
  <2>3. QED
      BY <1>2, <2>1, <2>2, CallGoesOn
<1>8. ASSUME NEW c \in Calls, Checked(c)
       PROVE  ServingInv'
  <2>1. PICK stage \in Stages : At(c, stage) /\ stage \in {"PASSWORD_CHECKED", "ROLE_CHECKED", "ENDED"}
      BY <1>8 DEF Checked, Stages
  <2>2. call[c].at # "IDLE" /\ connected' = connected
      BY <1>8 DEF Checked
  <2>3. QED
      BY <1>2, <2>1, <2>2, CallGoesOn
<1>9. ASSUME NEW c \in Calls, Resume(c)
      PROVE  ServingInv'
  <2>1. PICK stage \in Stages : At(c, stage) /\ stage \in {"ENDED", "COMMITTED"}
      BY <1>9 DEF Resume, Stages
  <2>2. /\ call[c].at # "IDLE" /\ connected' \in SUBSET connected /\ ~LoopIsTaken
        /\ call[c].kind = "UPLOAD"
      BY <1>9 DEF Resume
  <2>3. DEFINE p == [kind |-> call[c].kind, at |-> stage]
  <2>4. /\ p \in Record \cup {NoCall} /\ p # NoCall /\ call' = [call EXCEPT ![c] = p]
        /\ p.kind = "UPLOAD" /\ p.at = stage
      BY <1>2, <2>1, <2>2
  <2>5. HIDE DEF p
  <2>6. /\ p.kind = "UPLOAD" => p.at # "HANDLING"
        /\ \/ p.at \notin {"AUTHENTICATING", "CHECKING_PASSWORD", "CHECKING_ROLE", "READING_FILE", "HANDLING", "COMMITTED"}
           \/ p.kind = "UPLOAD" /\ p.at = "COMMITTED"
      BY <2>1, <2>4
  <2>7. QED
      BY <2>2, <2>4, <2>6, CallGoesOn
<1>10. ASSUME NEW c \in Calls, Connect(c)
      PROVE  ServingInv'
  <2>1. /\ call[c].at # "IDLE" /\ connected' = connected \cup {c} /\ ConnectionIsFree /\ call' = call
        /\ InThread(c) \/ (call[c].kind = "UPLOAD" /\ call[c].at = "COMMITTED")
    <3>1. call[c].at \in {"AUTHENTICATING", "HANDLING", "COMMITTED"}
        BY <1>10 DEF Connect, WaitsForConnection
    <3>2. InThread(c) \/ (call[c].kind = "UPLOAD" /\ call[c].at = "COMMITTED")
        BY <3>1 DEF InThread
    <3>3. QED
        BY <1>10, <3>1, <3>2 DEF Connect
  <2>2. call' = [call EXCEPT ![c] = call[c]] /\ call[c] # NoCall
      BY <2>1 DEF ServingInv, CallsTyped, NoCall
  <2>3. QED
      BY <1>1, <2>1, <2>2, CallGoesOn
<1>11. ASSUME NEW c \in Calls, Commit(c)
      PROVE  ServingInv'
  <2>1. PICK stage \in Stages : At(c, stage) /\ stage \in {"ENDED", "COMMITTED"}
      BY <1>11 DEF Commit, Stages
  <2>2. /\ call[c].at = "HANDLING" /\ connected' \in SUBSET connected /\ InThread(c)
        /\ call[c].kind # "UPLOAD"
      BY <1>1, <1>11 DEF Commit, InThread
  <2>3. QED
      BY <1>2, <2>1, <2>2, CallGoesOn
<1>12. ASSUME NEW c \in Calls, Close(c)
       PROVE  ServingInv'
  <2>1. /\ call' = [call EXCEPT ![c] = NoCall] /\ connected' \in SUBSET connected
        /\ c \notin connected'
      BY <1>12 DEF Close
  <2>2. NoCall.kind = "NONE" /\ NoCall.at = "IDLE"
      BY DEF NoCall
  <2>3. QED
      BY <2>1, <2>2, CallGoesOn
<1>13. CASE UNCHANGED servingVars
    BY <1>13 DEF servingVars, ServingInv, CallsTyped, Threaded, Refreshing, InThread
<1>14. QED
    BY <1>3, <1>4, <1>5, <1>6, <1>7, <1>8, <1>9, <1>10, <1>11, <1>12, <1>13 DEF ServingNext, CallStep

\* However many requests arrive, no more threads and connections are in use
\* than there are, the event loop waits for one upload at a time, and a call
\* that has ended holds nothing (db.py, deps.py, documents.py).
THEOREM NothingIsOverused == ServingSpec => []ServingTypeOK
<1>1. ServingInv => ServingTypeOK
    BY DEF ServingInv, CallsTyped, Threaded, Refreshing, ServingTypeOK
<1>2. QED
    BY ServingInvInit, ServingInvNext, <1>1, PTL DEF ServingSpec
=============================================================================
