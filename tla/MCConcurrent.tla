---------------------------- MODULE MCConcurrent ----------------------------
(* All executions of one engagement, also those with stale commits, in two  *)
(* parts: reviews, views, updates and the template on a board of one task,  *)
(* or dependency requests on a board of three.                              *)
EXTENDS MCWorkflow

CONSTANTS t2, t3

VARIABLE part

ThreeTasks == {t1, t2, t3}

MCInit ==
    \/ part = "REVIEW" /\ Init
    \/ /\ part = "GRAPH" /\ TaskInit
       /\ engagement = [status |-> "DRAFT", version |-> 2]
       /\ lock = NoLock /\ document = {} /\ trail = <<>>

GraphNext == \E w \in Workers :
    (\E t, on \in Tasks : CreateDependency(w, t, on)) \/ TaskRequestStep(w)

MCNext ==
    /\ part' = part
    /\ \/ part = "REVIEW" /\ \E w \in Workers : RequestArrives(w) \/ RequestStep(w)
       \/ part = "REVIEW" /\ TaskNext /\ UNCHANGED workflowTables
       \/ part = "GRAPH" /\ GraphNext /\ UNCHANGED workflowTables

MCSpec == MCInit /\ [][MCNext]_<<vars, part>> /\ WorkflowFairness

\* A request that has begun ends, in a commit or a refusal: the insert of the
\* lock row waits for another that is not committed, and the walk of a
\* dependency request ends also on a graph that others have made cyclic.  The
\* workers are alike, so w1 stands for them.
RequestsEnd == req[w1] # Idle ~> req[w1] = Idle
=============================================================================
