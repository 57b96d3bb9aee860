------------------------- MODULE EngagementWorkflow -------------------------
(***************************************************************************)
(* The life of one engagement: its row, the lock row and the action trail  *)
(* of app/routers/engagement_closure.py, the template of                   *)
(* app/routers/engagement_templates.py that fills its task board, and the  *)
(* update of app/routers/engagements.py.  The board and its handlers come  *)
(* from EngagementTasks; the worker threads serve all of these requests.   *)
(***************************************************************************)
EXTENDS EngagementTasks

CONSTANTS
    Documents,          \* ids of the required-document rows that can exist
    RequiredTasks,      \* tasks and documents whose `required` column is true
    RequiredDocuments,
    Templates,          \* the active templates of the engagement's service type
    Generates,          \* the tasks and documents each template generates
    MaxVersion,         \* bound: no request starts from a later version
    MaxTrail            \* bound: no review request starts after so many actions

ASSUME WorkflowAssumption ==
    /\ RequiredTasks \subseteq Tasks /\ RequiredDocuments \subseteq Documents
    /\ Generates \in [Templates -> [tasks : SUBSET Tasks, documents : SUBSET Documents]]
    /\ \A p, q \in Templates : p # q =>
            /\ Generates[p].tasks \cap Generates[q].tasks = {}
            /\ Generates[p].documents \cap Generates[q].documents = {}
    /\ MaxVersion \in Nat /\ MaxTrail \in Nat

VARIABLES
    engagement, \* the committed engagement row
    lock,       \* the committed lock row, or NoLock
    document,   \* the required documents that have a row, every one PENDING:
                \* no code in the repository updates their status
    trail       \* the action trail, oldest first

workflowTables == <<engagement, lock, document, trail>>
vars == <<task, dependency, history, today, req, stale, engagement, lock, document, trail>>

-----------------------------------------------------------------------------
(* Rows and requests.                                                      *)

EngagementStatus == {"DRAFT", "IN_PROGRESS", "UNDER_REVIEW", "READY_TO_CLOSE", "CLOSED", "REOPENED"}

EngagementRow == [status : EngagementStatus, version : Nat]

LockRow == [state : {"OPEN", "LOCKED"}, revision : Nat]
NoLock == [state |-> "NO_ROW", revision |-> 0]
OpenLock == [state |-> "OPEN", revision |-> 1]

\* The states each review action is taken from, and the one it leads to.
From == [SUBMIT  |-> {"DRAFT", "IN_PROGRESS", "REOPENED"},
         APPROVE |-> {"UNDER_REVIEW"},
         CLOSE   |-> {"READY_TO_CLOSE"},
         REOPEN  |-> {"CLOSED"}]
\* Mutant: reopening names the lock's state.
ToLockState == [SUBMIT |-> "UNDER_REVIEW", APPROVE |-> "READY_TO_CLOSE",
                CLOSE  |-> "CLOSED",       REOPEN  |-> "OPEN"]
To == [SUBMIT |-> "UNDER_REVIEW", APPROVE |-> "READY_TO_CLOSE",
       CLOSE  |-> "CLOSED",       REOPEN  |-> "REOPENED"]

ReviewOps == {"SUBMIT", "APPROVE", "CLOSE", "REOPEN"}

TrailRow == [action : ReviewOps, from : EngagementStatus, to : EngagementStatus, revision : Nat]

\* VIEW is a GET: it shows the lock row, and inserts it when there is none.
ReviewRequest ==
    {r \in [op : ReviewOps \cup {"VIEW"},
            at : {"tasks", "overdue", "documents", "lock", "insert", "commit"},
            row : EngagementRow, lock : LockRow \cup {NoLock}, inserted : BOOLEAN] :
        /\ r.at = "commit" => r.lock # NoLock
        /\ r.inserted => r.at = "commit" /\ r.lock = OpenLock}

UpdateRequest == [op : {"UPDATE"}, row : EngagementRow]

ApplyRequest == [op : {"APPLY"}, at : {"existing", "commit"}, row : EngagementRow,
                 template : Templates]

WorkflowRequest == ReviewRequest \cup UpdateRequest \cup ApplyRequest

\* The three counts of _blockers, as the rows they count.
IncompleteTasks == {t \in RequiredTasks : task[t] # NoRow /\ task[t].status # "COMPLETED"}
OverdueTasks == {t \in IncompleteTasks : task[t].escalation = "OVERDUE"}
PendingDocuments == document \cap RequiredDocuments

Outstanding == IncompleteTasks \cup PendingDocuments

-----------------------------------------------------------------------------
Init ==
    /\ engagement = [status |-> "DRAFT", version |-> 1]
    /\ lock = NoLock
    /\ document = {}
    /\ trail = <<>>
    /\ task = [t \in Tasks |-> NoRow]
    /\ dependency = {}
    /\ history = [t \in Tasks |-> <<>>]
    /\ today = 0
    /\ req = [w \in Workers |-> Idle]
    /\ stale = FALSE

\* Mutant: a review starts with the last of the blocker counts.
StartAtDocuments(w, op) ==
    /\ engagement.status \in From[op]
    /\ engagement.version < MaxVersion /\ Len(trail) < MaxTrail
    /\ Begin(w, [op |-> op, at |-> IF op = "REOPEN" THEN "lock" ELSE "documents",
                 row |-> engagement, lock |-> NoLock, inserted |-> FALSE])
    /\ UNCHANGED <<tables, workflowTables>>

\* submit_review, approve_review, close_engagement, reopen_engagement: load
\* the row, check the version (always the client's when it goes on) and state.
StartReview(w, op) ==
    /\ engagement.status \in From[op]
    /\ engagement.version < MaxVersion /\ Len(trail) < MaxTrail
    /\ Begin(w, [op |-> op, at |-> IF op = "REOPEN" THEN "lock" ELSE "tasks",
                 row |-> engagement, lock |-> NoLock, inserted |-> FALSE])
    /\ UNCHANGED <<tables, workflowTables>>

\* review_queue and workflow_status: the lock row before the blockers.
StartView(w) ==
    /\ Begin(w, [op |-> "VIEW", at |-> "lock", row |-> engagement,
                 lock |-> NoLock, inserted |-> FALSE])
    /\ UNCHANGED <<tables, workflowTables>>

\* _blockers: three selects, one after the other; any hit refuses the request.
CheckBlockers(w) ==
    LET Found == [tasks |-> IncompleteTasks, overdue |-> OverdueTasks, documents |-> PendingDocuments]
        After == [tasks |-> "overdue", overdue |-> "documents", documents |-> "lock"]
    IN  /\ req[w].op \in ReviewOps /\ req[w].at \in DOMAIN Found
        /\ IF Found[req[w].at] # {} THEN Finish(w)
                                    ELSE req' = [req EXCEPT ![w].at = After[@]]
        /\ UNCHANGED <<tables, workflowTables>>

\* _lock: select the lock row.
ReadLock(w) ==
    /\ req[w].op \in ReviewOps \cup {"VIEW"} /\ req[w].at = "lock"
    /\ req' = [req EXCEPT ![w].at = IF lock = NoLock THEN "insert" ELSE "commit",
                          ![w].lock = lock]
    /\ UNCHANGED <<tables, workflowTables>>

HoldsInsert(w) == req[w].op \in ReviewOps \cup {"VIEW"} /\ req[w].inserted

\* Mutant: the insert does not wait for another.
InsertLockAnyway(w) ==
    /\ req[w].op \in ReviewOps \cup {"VIEW"} /\ req[w].at = "insert"
    /\ IF lock # NoLock
       THEN Finish(w)
       ELSE req' = [req EXCEPT ![w].at = "commit", ![w].lock = OpenLock, ![w].inserted = TRUE]
    /\ UNCHANGED <<tables, workflowTables>>

\* Mutant: an insert that lost the race waits instead of failing.
InsertLockOrWait(w) ==
    /\ req[w].op \in ReviewOps \cup {"VIEW"} /\ req[w].at = "insert"
    /\ lock = NoLock /\ \A v \in Workers : ~HoldsInsert(v)
    /\ req' = [req EXCEPT ![w].at = "commit", ![w].lock = OpenLock, ![w].inserted = TRUE]
    /\ UNCHANGED <<tables, workflowTables>>

\* _lock, no row found: insert one and flush.  The unique constraint makes the
\* insert wait for another uncommitted one, and fail once that is committed.
InsertLock(w) ==
    /\ req[w].op \in ReviewOps \cup {"VIEW"} /\ req[w].at = "insert"
    /\ \A v \in Workers : ~HoldsInsert(v)
    /\ IF lock # NoLock
       THEN Finish(w)
       ELSE req' = [req EXCEPT ![w].at = "commit", ![w].lock = OpenLock, ![w].inserted = TRUE]
    /\ UNCHANGED <<tables, workflowTables>>

\* The response of a GET, after which the session closes without a commit.
FinishView(w) ==
    /\ req[w].op = "VIEW" /\ req[w].at = "commit"
    /\ Finish(w)
    /\ UNCHANGED <<tables, workflowTables>>

\* "Closed engagement is not locked as expected".
RefuseReopen(w) ==
    /\ req[w].op = "REOPEN" /\ req[w].at = "commit" /\ req[w].lock.state # "LOCKED"
    /\ Finish(w)
    /\ UNCHANGED <<tables, workflowTables>>

\* Mutants: a reopening that keeps the lock, and one that keeps the revision.
LockKept(op, l) ==
    IF op = "REOPEN" THEN [state |-> l.state, revision |-> l.revision + 1]
    ELSE IF op = "CLOSE" THEN [state |-> "LOCKED", revision |-> l.revision] ELSE l

RevisionKept(op, l) ==
    IF op = "REOPEN" THEN [state |-> "OPEN", revision |-> l.revision]
    ELSE IF op = "CLOSE" THEN [state |-> "LOCKED", revision |-> l.revision] ELSE l

\* The lock row as action op leaves it in the session that loaded l.
LockAfter(op, l) ==
    CASE op = "CLOSE"  -> [state |-> "LOCKED", revision |-> l.revision]
      [] op = "REOPEN" -> [state |-> "OPEN", revision |-> l.revision + 1]
      [] OTHER         -> l

\* _record: what a review action adds to the trail.
Recorded(r, revision) ==
    [action |-> r.op, from |-> r.row.status, to |-> To[r.op], revision |-> revision]

\* The commit of a review action.
CommitReview(w) ==
    LET r == req[w]
        kept == IF r.inserted THEN OpenLock ELSE lock
        left == LockAfter(r.op, r.lock)
    IN  /\ r.op \in ReviewOps /\ r.at = "commit"
        /\ r.op = "REOPEN" => r.lock.state = "LOCKED"
        /\ engagement' = [status |-> To[r.op], version |-> r.row.version + 1]
        /\ lock' = [state    |-> Column(kept.state, r.lock.state, left.state),
                    revision |-> Column(kept.revision, r.lock.revision, left.revision)]
        /\ trail' = Append(trail, Recorded(r, left.revision))
        /\ stale' = (stale \/ engagement # r.row)
        /\ Finish(w)
        /\ UNCHANGED <<task, dependency, history, today, document>>

\* update_engagement: of its columns only the version matters to the others.
StartUpdate(w) ==
    /\ engagement.version < MaxVersion
    /\ Begin(w, [op |-> "UPDATE", row |-> engagement])
    /\ UNCHANGED <<tables, workflowTables>>

\* Mutant: an update takes the engagement into progress by itself.
CommitUpdateInProgress(w) ==
    /\ req[w].op = "UPDATE"
    /\ engagement' = [status |-> "IN_PROGRESS", version |-> req[w].row.version + 1]
    /\ stale' = (stale \/ engagement # req[w].row)
    /\ Finish(w)
    /\ UNCHANGED <<task, dependency, history, today, lock, document, trail>>

CommitUpdate(w) ==
    LET r == req[w]
    IN  /\ r.op = "UPDATE"
        /\ engagement' = [engagement EXCEPT !.version = r.row.version + 1]
        /\ stale' = (stale \/ engagement # r.row)
        /\ Finish(w)
        /\ UNCHANGED <<task, dependency, history, today, lock, document, trail>>

\* apply_template: there is no condition on the engagement's status.
StartApply(w, p) ==
    /\ engagement.version < MaxVersion
    /\ Begin(w, [op |-> "APPLY", at |-> "existing", row |-> engagement, template |-> p])
    /\ UNCHANGED <<tables, workflowTables>>

\* A board that has tasks refuses the template; one with documents does not.
CheckNotApplied(w) ==
    /\ req[w].op = "APPLY" /\ req[w].at = "existing"
    /\ IF Generated # {} THEN Finish(w) ELSE req' = [req EXCEPT ![w].at = "commit"]
    /\ UNCHANGED <<tables, workflowTables>>

\* The rows of template p exist already: the unique constraints refuse them.
Applied(p) == \/ \E t \in Generates[p].tasks : task[t] # NoRow
              \/ Generates[p].documents \cap document # {}

CommitApply(w) ==
    LET r == req[w]
        made == Generates[r.template]
    IN  /\ r.op = "APPLY" /\ r.at = "commit" /\ ~Applied(r.template)
        /\ \E due \in [made.tasks -> Due] :
              task' = [t \in Tasks |-> IF t \in made.tasks THEN NewTask(due[t]) ELSE task[t]]
        /\ document' = document \cup made.documents
        /\ engagement' = [engagement EXCEPT !.version = r.row.version + 1]
        /\ stale' = (stale \/ engagement # r.row)
        /\ Finish(w)
        /\ UNCHANGED <<dependency, history, today, lock, trail>>

FailApply(w) ==
    /\ req[w].op = "APPLY" /\ req[w].at = "commit" /\ Applied(req[w].template)
    /\ Finish(w)
    /\ UNCHANGED <<tables, workflowTables>>

RequestArrives(w) ==
    \/ \E op \in ReviewOps : StartReview(w, op)
    \/ StartView(w)
    \/ StartUpdate(w)
    \/ \E p \in Templates : StartApply(w, p)

RequestStep(w) ==
    \/ CheckBlockers(w)
    \/ ReadLock(w)
    \/ InsertLock(w)
    \/ FinishView(w)
    \/ RefuseReopen(w)
    \/ CommitReview(w)
    \/ CommitUpdate(w)
    \/ CheckNotApplied(w)
    \/ CommitApply(w)
    \/ FailApply(w)

Next == \/ \E w \in Workers : RequestArrives(w) \/ RequestStep(w)
        \/ TaskNext /\ UNCHANGED workflowTables

Spec == Init /\ [][Next]_vars

\* The executions in which every commit still rests on what its request read:
\* those a version check made in the UPDATE itself would leave.
FreshSpec == Init /\ [][Next /\ ~stale']_vars

\* Threads are scheduled; an insert that waits is not passed over for ever.
WorkflowFairness ==
    \A w \in Workers :
        /\ WF_vars(RequestStep(w))
        /\ WF_vars(TaskRequestStep(w) /\ UNCHANGED workflowTables)
        /\ SF_vars(InsertLock(w))
-----------------------------------------------------------------------------
(* Properties.                                                             *)

\* Every request record is one a handler can have built from committed rows.
WorkflowTypeOK ==
    /\ engagement \in EngagementRow
    /\ lock \in LockRow \cup {NoLock}
    /\ document \subseteq Documents
    /\ trail \in Seq(TrailRow)
    /\ task \in TaskTable
    /\ dependency \subseteq Tasks \X Tasks
    /\ today \in Nat
    /\ stale \in BOOLEAN
    /\ req \in [Workers -> {Idle} \cup TaskRequest \cup WorkflowRequest]

\* Unless stale, a closed engagement has its lock, and no other one has: the
\* status is a column of one row and the lock a row of another table, read and
\* written at different moments by overlapping requests.
ClosedIsLocked == ~stale => (engagement.status = "CLOSED" <=> lock.state = "LOCKED")

\* Unless stale, the action trail replays to what the tables hold: each action
\* starts from the status and the revision the one before it left, a reopening
\* and nothing else opens a new revision, and the last one left the engagement
\* and the lock as they are.
TrailReplays ==
    LET StatusAfter(i) == IF i = 0 THEN "DRAFT" ELSE trail[i].to
        RevisionAfter(i) == IF i = 0 THEN 1 ELSE trail[i].revision
    IN  ~stale =>
            /\ \A i \in DOMAIN trail :
                  /\ trail[i].from = StatusAfter(i - 1)
                  /\ trail[i].revision = RevisionAfter(i - 1)
                                         + (IF trail[i].action = "REOPEN" THEN 1 ELSE 0)
            /\ engagement.status = StatusAfter(Len(trail))
            /\ lock # NoLock => lock.revision = RevisionAfter(Len(trail))

\* Even with stale commits, no action is recorded from a state no earlier
\* action led to: nothing is closed that was never approved, nothing approved
\* that was never submitted; and every revision up to the lock row's was
\* opened by a reopening the trail shows: a number may be used twice, never
\* skipped.
ActionsHaveCauses ==
    /\ \A i \in DOMAIN trail :
          trail[i].from # "DRAFT" => \E j \in 1..(i - 1) : trail[j].to = trail[i].from
    /\ \A n \in 2..lock.revision : \E i \in DOMAIN trail :
          trail[i].action = "REOPEN" /\ trail[i].revision = n

\* A worker that holds an uncommitted lock row is the only one, and no lock
\* row is committed then: the unique constraint under overlapping first
\* reviews and views.
LockInsertIsExclusive ==
    \A w \in Workers : HoldsInsert(w) =>
        lock = NoLock /\ \A v \in Workers : HoldsInsert(v) => v = w

\* The fresh executions implement the abstract protocol.
Protocol == INSTANCE ClosureProtocol WITH
    Items <- RequiredTasks \cup RequiredDocuments,
    status <- engagement.status,
    locked <- lock.state = "LOCKED",
    revision <- IF lock = NoLock THEN 1 ELSE lock.revision,
    outstanding <- Outstanding

\* Unless stale, reviews, templates, views and task work on the database
\* amount to the indivisible steps of ClosureProtocol: the engagement moves on
\* only at a moment when no required task is open and no required document
\* pending, although the blockers were read in earlier statements.
ImplementsProtocol == Protocol!ProtocolSpec

-----------------------------------------------------------------------------
(* What the repository says without "unless stale", and the code does not   *)
(* keep; each is refuted by a run of its own.                               *)

\* "Closed engagement is not locked as expected" is an error the code expects
\* never to raise: a closing request that read the lock of the closure before
\* a reopening, and commits after it, leaves a closed engagement unlocked.
ClosedIsAlwaysLocked == engagement.status = "CLOSED" => lock.state = "LOCKED"

\* A closed engagement has passed the completion blockers: a template applied
\* to it after closure leaves it with open required work.
ClosedIsComplete == engagement.status = "CLOSED" => Outstanding = {}
=============================================================================
