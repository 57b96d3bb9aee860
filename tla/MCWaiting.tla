----------------------------- MODULE MCWaiting -----------------------------
(* What waits or retries, and has to end: engagement numbers, clients whose *)
(* identifiers collide, instances that start on one database, and requests  *)
(* that want the threads and connections of one process.  The parts share   *)
(* no state, so a behaviour explores one of them: `part`.                   *)
EXTENDS EngagementNumbers, ClientMaster, Deployment, Schema, Serving

CONSTANTS w1, w2, c1, c2, tin, bin, x1, plain, dashed, n1, n2, old, k1, k2, k3

VARIABLES
    part,
    watched     \* a worker, an instance or a call, see NothingWaitsForEver

TwoWorkers == {w1, w2}
TwoClients == {c1, c2}
TwoTypes == {tin, bin}
Of(type, spelling) == [type |-> type, value |-> [core |-> x1, spelling |-> spelling]]
SomeLists == {<<>>, <<Of(tin, dashed)>>, <<Of(tin, plain), Of(bin, plain)>>,
              <<Of(bin, plain), Of(tin, dashed)>>, <<Of(tin, plain), Of(tin, dashed)>>}
OneCore == {x1}
TwoSpellings == {plain, dashed}
One == {1}
ThreeInstances == {n1, n2, old}
\* The old image is the one before the last revision that adds columns to a
\* table in use; it did not have the classes of what came later.
BeforeColumns == 11
TwoImages == [i \in ThreeInstances |-> IF i = old THEN BeforeColumns ELSE Len(Chain)]
TwoModels ==
    [i \in ThreeInstances |->
        IF i = old THEN {x \in DeclaredItems : x.id \in Ids(ItemsBetween(0, BeforeColumns))}
        ELSE DeclaredItems]
EmptyDatabase == {0}
ThreeCalls == {k1, k2, k3}

\* The chain and the retries of the repository are of the kind that the
\* theorems about Deployment ask for.
ASSUME ChainFits == ChainRuns /\ EnoughRetries

numbersOnly == <<year, series, issued>>
clientsOnly == <<client, identifiers, statuses>>

MCInit ==
    /\ part \in {"NUMBERS", "CLIENTS", "DEPLOYMENT", "SERVING"}
    /\ watched \in CASE part = "DEPLOYMENT" -> {n1, old}
                     [] part = "SERVING"    -> {k1}
                     [] OTHER               -> {w1}
    /\ NumbersInit /\ ClientsInit /\ DeploymentInit /\ ServingInit

MCNext ==
    /\ UNCHANGED <<part, watched>>
    /\ \/ /\ part = "NUMBERS" /\ NumbersNext
          /\ UNCHANGED <<clientsOnly, deploymentVars, servingVars>>
       \/ /\ part = "CLIENTS" /\ ClientsNext
          /\ UNCHANGED <<numbersOnly, deploymentVars, servingVars>>
       \/ /\ part = "DEPLOYMENT" /\ DeploymentNext
          /\ UNCHANGED <<numbersOnly, clientsOnly, req, stale, servingVars>>
       \/ /\ part = "SERVING" /\ ServingNext
          /\ UNCHANGED <<numbersOnly, clientsOnly, req, stale, deploymentVars>>

waitingVars == <<numbersVars, clientVars, deploymentVars, servingVars, part, watched>>

MCSpec ==
    /\ MCInit
    /\ [][MCNext]_waitingVars
    /\ NumbersFairness /\ ClientsFairness /\ DeploymentFairness /\ ServingFairness

\* Each part's type invariant, where its requests are.
WaitingTypeOK ==
    CASE part = "NUMBERS"    -> NumbersTypeOK
      [] part = "CLIENTS"    -> ClientsTypeOK
      [] part = "DEPLOYMENT" -> DeploymentTypeOK
      [] part = "SERVING"    -> ServingTypeOK

Busy ==
    CASE part = "DEPLOYMENT" -> Starting(watched)
      [] part = "SERVING"    -> call[watched] # NoCall
      [] OTHER               -> req[watched] # Idle

\* What has begun ends: the creation of an engagement or of a client, though
\* it may wait for the row of the year, for another's first insert, or for a
\* key that another client holds, also when that one waits for a key of its
\* own; an instance that starts comes to serve or gives up, though it may wait
\* for another's upgrade, lose to it and be restarted; and a request, though
\* it may hold the connection that those wait for who hold the threads it
\* waits for, or an upload may stop the event loop waiting for a connection.
\* The workers are alike, and so are the instances of one image and the
\* calls: the one that is watched stands for them.
NothingWaitsForEver == Busy ~> ~Busy
=============================================================================
