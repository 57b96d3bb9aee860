-------------------------- MODULE EngagementTasks --------------------------
(***************************************************************************)
(* The task board of one engagement: the task rows a template generated,   *)
(* their dependency edges and their status history, and the handlers of    *)
(* app/routers/engagement_tasks.py that change them.                       *)
(***************************************************************************)
EXTENDS Requests

CONSTANTS
    Tasks,          \* ids of the task rows that can exist
    Due,            \* due dates a template or a user may give, days or NoDate
    Progress,       \* values of progress_percent a user may send
    MaxDay,         \* bound: the last day the calendar reaches
    MaxTaskVersion, \* bound: no request starts from a later row version
    MaxHistory      \* bound: no transition starts after so many of a task

NoDate == MaxDay + 1      \* no due date: a day that never passes

ASSUME TasksAssumption ==
    /\ MaxDay \in Nat /\ MaxTaskVersion \in Nat /\ MaxHistory \in Nat
    /\ Due \subseteq 0..NoDate
    /\ Progress \subseteq 0..100

VARIABLES
    task,       \* the committed task rows, NoRow for an id without one
    dependency, \* the committed dependency edges <<task, what it waits for>>
    history,    \* for each task, its status history, oldest first
    today       \* the date date.today() gives

taskVars == <<task, dependency, history, today, req, stale>>

-----------------------------------------------------------------------------
(* Rows and requests.                                                      *)

Status == {"NOT_STARTED", "IN_PROGRESS", "BLOCKED", "COMPLETED", "CANCELLED"}

\* Mutant: a cancelled task may be taken up again.
ReopeningTransitions ==
    [s \in Status |->
        CASE s = "NOT_STARTED" -> {"IN_PROGRESS", "BLOCKED", "CANCELLED"}
          [] s = "IN_PROGRESS" -> {"BLOCKED", "COMPLETED", "CANCELLED"}
          [] s \in {"BLOCKED", "CANCELLED"} -> {"IN_PROGRESS", "CANCELLED"}
          [] OTHER -> {}]

AllowedTransitions ==
    [s \in Status |->
        CASE s = "NOT_STARTED" -> {"IN_PROGRESS", "BLOCKED", "CANCELLED"}
          [] s = "IN_PROGRESS" -> {"BLOCKED", "COMPLETED", "CANCELLED"}
          [] s = "BLOCKED"     -> {"IN_PROGRESS", "CANCELLED"}
          [] OTHER             -> {}]

Terminal == {"COMPLETED", "CANCELLED"}

TaskRow == [status     : Status,
            progress   : 0..100,
            due        : 0..NoDate,
            escalation : {"NONE", "OVERDUE"},
            version    : Nat]

NewTask(due) == [status |-> "NOT_STARTED", progress |-> 0, due |-> due,
                 escalation |-> "NONE", version |-> 1]

TaskTable == [Tasks -> TaskRow \cup {NoRow}]

HistoryRow == [from : Status, to : Status]

TransitionRequest ==
    [op : {"TRANSITION"}, at : {"dependencies", "parents", "commit"},
     task : Tasks, row : TaskRow, to : Status, progress : 0..100,
     waitsFor : SUBSET Tasks, unread : SUBSET Tasks]

ConfigureRequest ==
    [op : {"CONFIGURE"}, task : Tasks, row : TaskRow, due : 0..NoDate]

DependencyRequest ==
    [op : {"DEPENDENCY"}, task : Tasks, on : Tasks, edges : SUBSET (Tasks \X Tasks),
     frontier : SUBSET Tasks, seen : SUBSET Tasks]

ScanRequest == [op : {"SCAN"}, rows : TaskTable, date : Nat]

TaskRequest == TransitionRequest \cup ConfigureRequest
               \cup DependencyRequest \cup ScanRequest

Generated == {t \in Tasks : task[t] # NoRow}

\* Mutant: the edges read the wrong way round.
DependentsOf(t) == {d \in Tasks : <<d, t>> \in dependency}

DependenciesOf(t) == {d \in Tasks : <<t, d>> \in dependency}

\* Row r is past its due date and still open, on date day.
PastDue(r, day) == r.due < day /\ r.status \notin Terminal

-----------------------------------------------------------------------------
TaskInit ==
    /\ \E due \in [Tasks -> Due] : task = [t \in Tasks |-> NewTask(due[t])]
    /\ dependency = {}
    /\ history = [t \in Tasks |-> <<>>]
    /\ today = 0
    /\ req = [w \in Workers |-> Idle]
    /\ stale = FALSE

tables == <<task, dependency, history, today, stale>>

\* transition_task: load the row, compare its version with the client's copy
\* (a client that sends an older one is refused) and the requested move with
\* the table of allowed ones.  A request without progress_percent is one that
\* sends the row's own.
TransitionTask(w, t, to) ==
    /\ t \in Generated
    /\ task[t].version < MaxTaskVersion /\ Len(history[t]) < MaxHistory
    /\ to \in AllowedTransitions[task[t].status]
    /\ \E p \in Progress \cup {task[t].progress} :
          Begin(w, [op |-> "TRANSITION",
                    at |-> IF to \in {"IN_PROGRESS", "COMPLETED"} THEN "dependencies" ELSE "commit",
                    task |-> t, row |-> task[t], to |-> to, progress |-> p,
                    waitsFor |-> {}, unread |-> {}])
    /\ UNCHANGED tables

\* _dependency_blockers: select the dependency rows of the task ...
ReadDependencies(w) ==
    /\ req[w].op = "TRANSITION" /\ req[w].at = "dependencies"
    /\ LET found == DependenciesOf(req[w].task)
       IN  req' = [req EXCEPT ![w].at = "parents", ![w].waitsFor = found, ![w].unread = found]
    /\ UNCHANGED tables

\* ... then load each parent; one that is not completed refuses the request.
ReadParent(w, d) ==
    /\ req[w].op = "TRANSITION" /\ req[w].at = "parents" /\ d \in req[w].unread
    /\ IF task[d].status = "COMPLETED"
       THEN req' = [req EXCEPT ![w].unread = @ \ {d}]
       ELSE Finish(w)
    /\ UNCHANGED tables

\* Mutant: completion adds to the progress.
ProgressAdded(to, old, p) ==
    CASE to = "COMPLETED"   -> old + 100
      [] to = "IN_PROGRESS" -> IF p # 0 THEN p ELSE IF old > 1 THEN old ELSE 1
      [] OTHER              -> p

\* The progress a move to status `to` leaves in a row that had progress old.
ProgressAfter(to, old, p) ==
    CASE to = "COMPLETED"   -> 100
      [] to = "IN_PROGRESS" -> IF p # 0 THEN p ELSE IF old > 1 THEN old ELSE 1
      [] OTHER              -> p

\* Mutant: the branch of a blocked task forgets the status.
TransitionedUnlessBlocked(current, r) ==
    [current EXCEPT !.status = IF r.to = "BLOCKED" THEN @ ELSE r.to,
                    !.progress = ProgressAfter(r.to, @, r.progress),
                    !.escalation = IF r.to = "COMPLETED" THEN "NONE" ELSE @,
                    !.version = @ + 1]

Transitioned(current, r) ==
    [status     |-> r.to,
     progress   |-> Column(current.progress, r.row.progress,
                           ProgressAfter(r.to, r.row.progress, r.progress)),
     due        |-> current.due,
     escalation |-> IF r.to = "COMPLETED"
                    THEN Column(current.escalation, r.row.escalation, "NONE")
                    ELSE current.escalation,
     version    |-> r.row.version + 1]

CommitTransition(w) ==
    LET r == req[w]
    IN  /\ r.op = "TRANSITION"
        /\ r.at = "commit" \/ (r.at = "parents" /\ r.unread = {})
        /\ task' = [task EXCEPT ![r.task] = Transitioned(@, r)]
        /\ history' = [history EXCEPT ![r.task] = Append(@, [from |-> r.row.status, to |-> r.to])]
        /\ stale' = (\/ stale
                     \/ task[r.task] # r.row
                     \/ r.at = "parents" /\ DependenciesOf(r.task) # r.waitsFor)
        /\ Finish(w)
        /\ UNCHANGED <<dependency, today>>

\* configure_task: of the fields it can set only the due date matters to the
\* other handlers.  There is no condition on the task's status.
ConfigureTask(w, t, due) ==
    /\ t \in Generated /\ task[t].version < MaxTaskVersion
    /\ due \in Due
    /\ Begin(w, [op |-> "CONFIGURE", task |-> t, row |-> task[t], due |-> due])
    /\ UNCHANGED tables

CommitConfigure(w) ==
    LET r == req[w]
    IN  /\ r.op = "CONFIGURE"
        /\ task' = [task EXCEPT ![r.task].due = Column(@, r.row.due, r.due),
                                ![r.task].version = r.row.version + 1]
        /\ stale' = (stale \/ task[r.task] # r.row)
        /\ Finish(w)
        /\ UNCHANGED <<dependency, history, today>>

\* create_dependency: both tasks exist and differ; the walk of
\* _would_create_cycle starts at the task to depend on.  `edges` remembers, for
\* `stale` alone, the table the walk began with.
CreateDependency(w, t, on) ==
    /\ t \in Generated /\ on \in Generated /\ t # on
    /\ Begin(w, [op |-> "DEPENDENCY", task |-> t, on |-> on, edges |-> dependency,
                 frontier |-> {on}, seen |-> {}])
    /\ UNCHANGED tables

\* Mutant: only the direct dependency is looked at.
WalkOneEdge(w, current) ==
    /\ req[w].op = "DEPENDENCY" /\ current \in req[w].frontier
    /\ IF current = req[w].task THEN Finish(w)
                               ELSE req' = [req EXCEPT ![w].frontier = {}]
    /\ UNCHANGED tables

\* Mutant: the walk does not remember where it has been.
WalkForgetful(w, current) ==
    /\ req[w].op = "DEPENDENCY" /\ current \in req[w].frontier
    /\ IF current = req[w].task
       THEN Finish(w)
       ELSE req' = [req EXCEPT ![w].frontier = (@ \ {current}) \cup DependenciesOf(current)]
    /\ UNCHANGED tables

\* One turn of the walk: reaching the task itself refuses the request.
WalkDependency(w, current) ==
    LET r == req[w]
    IN  /\ r.op = "DEPENDENCY" /\ current \in r.frontier
        /\ IF current = r.task
           THEN Finish(w)
           ELSE req' = [req EXCEPT
                    ![w].frontier = ((@ \cup DependenciesOf(current)) \ r.seen) \ {current},
                    ![w].seen = @ \cup {current}]
        /\ UNCHANGED tables

\* The insert; the unique constraint turns a duplicate into a 409.
CommitDependency(w) ==
    LET r == req[w]
    IN  /\ r.op = "DEPENDENCY" /\ r.frontier = {}
        /\ dependency' = dependency \cup {<<r.task, r.on>>}
        /\ stale' = (stale \/ (<<r.task, r.on>> \notin dependency /\ dependency # r.edges))
        /\ Finish(w)
        /\ UNCHANGED <<task, history, today>>

\* deadline_scan: one select of every task row, then one commit that
\* escalates the open tasks that are past due and not yet escalated.  It
\* needs no bound: it raises a version once per escalation.
DeadlineScan(w) ==
    /\ Begin(w, [op |-> "SCAN", rows |-> task, date |-> today])
    /\ UNCHANGED tables

Escalates(r, t) == /\ r.rows[t] # NoRow
                   /\ PastDue(r.rows[t], r.date)
                   /\ r.rows[t].escalation # "OVERDUE"

CommitScan(w) ==
    LET r == req[w]
    IN  /\ r.op = "SCAN"
        /\ task' = [t \in Tasks |->
                        IF Escalates(r, t)
                        THEN [task[t] EXCEPT !.escalation = "OVERDUE",
                                             !.version = r.rows[t].version + 1]
                        ELSE task[t]]
        /\ stale' = (stale \/ \E t \in Tasks : Escalates(r, t) /\ task[t] # r.rows[t])
        /\ Finish(w)
        /\ UNCHANGED <<dependency, history, today>>

\* The calendar moves on.
DayPasses == /\ today < MaxDay
             /\ today' = today + 1
             /\ UNCHANGED <<task, dependency, history, req, stale>>

\* A user sends a request that passes the first checks of its handler.
TaskRequestArrives(w) ==
    \/ \E t \in Tasks, to \in Status : TransitionTask(w, t, to)
    \/ \E t \in Tasks, due \in Due : ConfigureTask(w, t, due)
    \/ \E t, on \in Tasks : CreateDependency(w, t, on)
    \/ DeadlineScan(w)

\* The thread takes the next step of the request it serves.
TaskRequestStep(w) ==
    \/ ReadDependencies(w)
    \/ \E d \in Tasks : ReadParent(w, d)
    \/ CommitTransition(w)
    \/ CommitConfigure(w)
    \/ \E t \in Tasks : WalkDependency(w, t)
    \/ CommitDependency(w)
    \/ CommitScan(w)

TaskNext == \/ \E w \in Workers : TaskRequestArrives(w) \/ TaskRequestStep(w)
            \/ DayPasses

TaskSpec == TaskInit /\ [][TaskNext]_taskVars
-----------------------------------------------------------------------------
(* Properties.  "Unless stale" reads: as long as no commit has rested on    *)
(* data replaced since its request read it.                                 *)

\* Every request record is one a handler can have built from committed rows.
TaskTypeOK ==
    /\ task \in TaskTable
    /\ dependency \subseteq Tasks \X Tasks
    /\ history \in [Tasks -> Seq(HistoryRow)]
    /\ today \in Nat
    /\ req \in [Workers -> {Idle} \cup TaskRequest]
    /\ stale \in BOOLEAN

\* Unless stale, a task that is completed or cancelled stays so, whatever
\* other requests (deadline scans, configuration) do to its row: the two
\* empty rows of _ALLOWED_TRANSITIONS.
FinishedIsFinal ==
    [][\A t \in Generated :
          ~stale' /\ task[t].status \in Terminal => task'[t].status = task[t].status]_taskVars

\* Unless stale, the history of a task is an unbroken chain of moves from
\* NOT_STARTED to the status its row shows, each of them a new version, so a
\* client that read the row before a move cannot act on it after; and a
\* completed task shows 100 percent and no escalation, also when scans and
\* configuration requests were in flight as it completed.
HistoryIsChain ==
    ~stale => \A t \in Generated :
        LET h == history[t]
            StatusBefore(i) == IF i = 1 THEN "NOT_STARTED" ELSE h[i - 1].to
        IN  /\ \A i \in DOMAIN h : h[i].from = StatusBefore(i)
            /\ task[t].status = StatusBefore(Len(h) + 1)
            /\ task[t].version > Len(h)
            /\ task[t].status = "COMPLETED" => task[t].progress = 100 /\ task[t].escalation = "NONE"

\* Unless stale, a task starts or completes only when every task it waits for
\* is completed: the gate of _dependency_blockers.
DependenciesComeFirst ==
    [][\A t \in Generated :
          LET moved == task'[t].status # task[t].status
          IN  ~stale' /\ moved /\ task'[t].status \in {"IN_PROGRESS", "COMPLETED"}
              => \A d \in Tasks : <<t, d>> \in dependency => task[d].status = "COMPLETED"]_taskVars

\* A set of edges is acyclic: in any set of tasks, one waits for none of them.
Acyclic(edges) ==
    \A S \in (SUBSET Tasks) \ {{}} : \E t \in S : \A d \in S : <<t, d>> \notin edges

\* Unless stale, the dependency graph never gets a cycle, which would leave
\* its tasks waiting for each other for ever: the walk of _would_create_cycle.
NoDependencyCycle == ~stale => Acyclic(dependency)

-----------------------------------------------------------------------------
(* What the repository says without "unless stale", and the code does not   *)
(* keep.                                                                    *)

\* "Dependency would create a cycle" refuses every cycle: not when the two
\* halves of one are requested together.
CyclesAreRefused == Acyclic(dependency)
=============================================================================
