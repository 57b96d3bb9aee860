-------------------------- MODULE MCWaitingProofs ---------------------------
(***************************************************************************)
(* The composition of what waits or retries is, part by part, the          *)
(* specification that UniqueKeyProofs and DeploymentProofs are about; and  *)
(* what they prove under conditions on the chain of revisions holds of the *)
(* repository's chain.                                                     *)
(***************************************************************************)
EXTENDS MCWaiting, UniqueKeyProofs, DeploymentProofs

LEMMA NumbersIsExplored == MCSpec /\ part = "NUMBERS" => NumbersSpec /\ [](part = "NUMBERS")
<1>1. MCInit => NumbersInit
    BY DEF MCInit
<1>2. part = "NUMBERS" /\ [MCNext]_waitingVars => (part = "NUMBERS")' /\ [NumbersNext]_numbersVars
    BY DEF MCNext, waitingVars
<1>3. QED
    BY <1>1, <1>2, PTL DEF MCSpec, NumbersSpec

LEMMA ClientsIsExplored == MCSpec /\ part = "CLIENTS" => ClientsSpec /\ [](part = "CLIENTS")
<1>1. MCInit => ClientsInit
    BY DEF MCInit
<1>2. part = "CLIENTS" /\ [MCNext]_waitingVars => (part = "CLIENTS")' /\ [ClientsNext]_clientVars
    BY DEF MCNext, waitingVars
<1>3. QED
    BY <1>1, <1>2, PTL DEF MCSpec, ClientsSpec

LEMMA DeploymentIsExplored == MCSpec /\ part = "DEPLOYMENT" => DeploymentSpec /\ [](part = "DEPLOYMENT")
<1>1. MCInit => DeploymentInit
    BY DEF MCInit
<1>2. part = "DEPLOYMENT" /\ [MCNext]_waitingVars => (part = "DEPLOYMENT")' /\ [DeploymentNext]_deploymentVars
    BY DEF MCNext, waitingVars
<1>3. QED
    BY <1>1, <1>2, PTL DEF MCSpec, DeploymentSpec

LEMMA ServingIsExplored == MCSpec /\ part = "SERVING" => ServingSpec /\ [](part = "SERVING")
<1>1. MCInit => ServingInit
    BY DEF MCInit
<1>2. part = "SERVING" /\ [MCNext]_waitingVars => (part = "SERVING")' /\ [ServingNext]_servingVars
    BY DEF MCNext, waitingVars
<1>3. QED
    BY <1>1, <1>2, PTL DEF MCSpec, ServingSpec

\* A behaviour of the composition is one of the component it explores.
THEOREM WaitingExploresItsParts ==
    MCSpec =>
        /\ part = "NUMBERS" => NumbersSpec
        /\ part = "CLIENTS" => ClientsSpec
        /\ part = "DEPLOYMENT" => DeploymentSpec
        /\ part = "SERVING" => ServingSpec
    BY NumbersIsExplored, ClientsIsExplored, DeploymentIsExplored, ServingIsExplored, PTL

\* In each part, the rows, the processes and the calls have their types.
THEOREM WaitingTypesAreKept == MCSpec => []WaitingTypeOK
<1>1. MCInit =>
          \/ part = "NUMBERS"
          \/ part = "CLIENTS"
          \/ part = "DEPLOYMENT"
          \/ part = "SERVING"
    BY DEF MCInit
<1>2. MCSpec /\ part = "NUMBERS" => []WaitingTypeOK
  <2>1. part = "NUMBERS" /\ NumbersTypeOK => WaitingTypeOK
      BY DEF WaitingTypeOK
  <2>2. QED
      BY <2>1, NumbersIsExplored, NumberTypesAreKept, PTL
<1>3. MCSpec /\ part = "CLIENTS" => []WaitingTypeOK
  <2>1. part = "CLIENTS" /\ ClientsTypeOK => WaitingTypeOK
      BY DEF WaitingTypeOK
  <2>2. QED
      BY <2>1, ClientsIsExplored, ClientTypesAreKept, PTL
<1>4. MCSpec /\ part = "DEPLOYMENT" => []WaitingTypeOK
  <2>1. part = "DEPLOYMENT" /\ DeploymentTypeOK => WaitingTypeOK
      BY DEF WaitingTypeOK
  <2>2. QED
      BY <2>1, DeploymentIsExplored, DeploymentTypesAreKept, PTL
<1>5. MCSpec /\ part = "SERVING" => []WaitingTypeOK
  <2>1. part = "SERVING" /\ ServingTypeOK => WaitingTypeOK
      BY DEF WaitingTypeOK
  <2>2. QED
      BY <2>1, ServingIsExplored, NothingIsOverused, PTL
<1>6. QED
    BY <1>1, <1>2, <1>3, <1>4, <1>5, PTL DEF MCSpec

\* No instance of the repository's images gives up but one that a newer image
\* has superseded: its revisions run on each other's tables, and three restarts
\* are enough for the crashes and the other image (ChainFits, which the model
\* checker evaluates for them; railway.toml, start_cloud_run.sh).
THEOREM ThreeRestartsAreEnough == MCSpec => OnlySupersededGiveUp
<1>1. MCSpec /\ ~(part = "DEPLOYMENT") => OnlySupersededGiveUp
  <2>1. ~(part = "DEPLOYMENT") /\ [MCNext]_waitingVars
        => /\ (~(part = "DEPLOYMENT"))'
           /\ [\A i \in Instances :
                  inst'[i].at = "GAVE_UP" /\ inst[i].at # "GAVE_UP" => version > HeadOf[i]]_deploymentVars
      BY DEF MCNext, waitingVars
  <2>2. QED
      BY <2>1, PTL DEF MCSpec, OnlySupersededGiveUp
<1>2. DeploymentSpec => OnlySupersededGiveUp
    BY RestartsAreEnough, ChainFits
<1>3. MCSpec /\ part = "DEPLOYMENT" => OnlySupersededGiveUp
    BY DeploymentIsExplored, <1>2, PTL
<1>4. QED
    BY <1>1, <1>3, PTL
=============================================================================
