---------------------------- MODULE TasksProofs ----------------------------
(***************************************************************************)
(* Theorems about EngagementTasks, for any set of workers and tasks, any   *)
(* due dates and any value of the bounds.  The invariant says nothing of   *)
(* requests to other routers, so that a module which adds some can use the *)
(* same lemmas: EngagementWorkflowProofs does.                             *)
(***************************************************************************)
EXTENDS EngagementTasks, TLAPS

-----------------------------------------------------------------------------
(* The inductive invariant.                                                *)

\* A request to the task board has the shape its handler gives it.
Shaped(r) ==
    /\ r.op = "TRANSITION" => r \in TransitionRequest
    /\ r.op = "CONFIGURE" => r \in ConfigureRequest
    /\ r.op = "DEPENDENCY" => r \in DependencyRequest
    /\ r.op = "SCAN" => r \in ScanRequest

\* The rows it has loaded still exist: no handler deletes a task.
RowsExist(r) ==
    /\ r.op \in {"TRANSITION", "CONFIGURE"} => task[r.task] # NoRow
    /\ r.op = "SCAN" => \A t \in Tasks : r.rows[t] # NoRow => task[t] # NoRow

\* A move is an allowed one from the row as loaded, and one that starts or
\* completes a task is on its way through the dependency gate.
Gated(r) ==
    r.op = "TRANSITION" =>
        /\ r.to \in AllowedTransitions[r.row.status]
        /\ r.to \in {"IN_PROGRESS", "COMPLETED"} => r.at # "commit"

\* The parents the gate has read are completed.
Cleared(r) ==
    r.op = "TRANSITION" /\ r.at = "parents" =>
        \A d \in r.waitsFor \ r.unread : task[d].status = "COMPLETED"

\* The walk has not met the task, and has seen or has still to see all that the
\* tasks it saw depend on.
WalkFacts(r) ==
    /\ r.on \in r.seen \cup r.frontier
    /\ r.task \notin r.seen
    /\ \A x \in r.seen : DependenciesOf(x) \subseteq r.seen \cup r.frontier

\* Edges are never removed; so if the table is the one the walk began with, it
\* was so all along.
Walked(r) ==
    r.op = "DEPENDENCY" =>
        /\ r.edges \subseteq dependency
        /\ dependency = r.edges => WalkFacts(r)

BoardOK ==
    /\ task \in TaskTable
    /\ dependency \subseteq Tasks \X Tasks
    /\ history \in [Tasks -> Seq(HistoryRow)]
    /\ today \in Nat
    /\ stale \in BOOLEAN
    /\ req = [w \in Workers |-> req[w]]
    /\ \A t \in Tasks : task[t] = NoRow => history[t] = <<>>

RequestsOK ==
    \A w \in Workers : Shaped(req[w]) /\ RowsExist(req[w]) /\ Gated(req[w]) /\ Walked(req[w])

\* The status that the first i moves of history h leave.
StatusAt(h, i) == IF i = 0 THEN "NOT_STARTED" ELSE h[i].to

\* Row and history of one task fit together.
Chain(row, h) ==
    /\ \A i \in DOMAIN h : h[i].from = StatusAt(h, i - 1)
    /\ row.status = StatusAt(h, Len(h))
    /\ row.version > Len(h)
    /\ row.status = "COMPLETED" => row.progress = 100 /\ row.escalation = "NONE"

FreshBoard ==
    ~stale =>
        /\ \A w \in Workers : Cleared(req[w])
        /\ \A t \in Generated : Chain(task[t], history[t])
        /\ Acyclic(dependency)

BoardInv == BoardOK /\ RequestsOK /\ FreshBoard

-----------------------------------------------------------------------------
(* Facts about the operators of the model.                                 *)

\* A commit leaves a column at one of the values it may have had.
LEMMA ColumnType ==
    ASSUME NEW S, NEW a \in S, NEW b, NEW c \in S
    PROVE  Column(a, b, c) \in S
    BY DEF Column

\* A row stays typed under a move.
LEMMA TransitionedType ==
    ASSUME NEW c \in TaskRow, NEW r \in TransitionRequest
    PROVE  Transitioned(c, r) \in TaskRow
<1>1. /\ c.progress \in 0..100 /\ c.due \in 0..NoDate /\ c.escalation \in {"NONE", "OVERDUE"}
      /\ r.to \in Status /\ r.row.version \in Nat
      /\ r.row.progress \in 0..100 /\ r.progress \in 0..100
    BY DEF TaskRow, TransitionRequest
<1>2. ProgressAfter(r.to, r.row.progress, r.progress) \in 0..100
    BY <1>1 DEF ProgressAfter
<1>3. QED
    BY <1>1, <1>2 DEF Transitioned, Column, TaskRow

\* No move leads out of COMPLETED or CANCELLED.
LEMMA TerminalStays == \A s \in Terminal : AllowedTransitions[s] = {}
    BY DEF AllowedTransitions, Status, Terminal

LEMMA RowIsARow == \A row \in TaskRow : row # NoRow /\ row.status \in Status /\ row.version \in Nat
    BY DEF TaskRow, NoRow, Status

\* An edge to a task from which the walk found no way back closes no cycle: a
\* cycle through the new edge would go on inside the set the walk has seen.
LEMMA EdgeKeepsAcyclic ==
    ASSUME NEW edges, NEW seen \in SUBSET Tasks, NEW t \in Tasks, NEW on \in seen,
           Acyclic(edges), t \notin seen,
           \A x \in seen, d \in Tasks : <<x, d>> \in edges => d \in seen
    PROVE  Acyclic(edges \cup {<<t, on>>})
<1> SUFFICES ASSUME NEW S \in SUBSET Tasks, S # {}
             PROVE  \E x \in S : \A d \in S : <<x, d>> \notin edges \cup {<<t, on>>}
    BY DEF Acyclic
<1>1. CASE S \cap seen = {}
  <2>1. PICK x \in S : \A d \in S : <<x, d>> \notin edges
      BY DEF Acyclic
  <2>2. \A d \in S : d # on
      BY <1>1
  <2>3. \A d \in S : <<x, d>> # <<t, on>>
      BY <2>2
  <2>4. QED
      BY <2>1, <2>3
<1>2. CASE S \cap seen # {}
  <2>1. PICK x \in S \cap seen : \A d \in S \cap seen : <<x, d>> \notin edges
      BY <1>2 DEF Acyclic
  <2>2. \A d \in S : <<x, d>> \notin edges
      BY <2>1
  <2>3. \A d \in S : <<x, d>> # <<t, on>>
      BY <2>1
  <2>4. QED
      BY <2>1, <2>2, <2>3
<1>3. QED
    BY <1>1, <1>2

LEMMA NoEdges == Acyclic({})
<1>1. ASSUME NEW S \in (SUBSET Tasks) \ {{}}
      PROVE  \E t \in S : \A d \in S : <<t, d>> \notin {}
  <2>1. S # {}
      OBVIOUS
  <2>2. PICK t \in S : TRUE
      BY <2>1
  <2>3. QED
      BY <2>2
<1>2. QED
    BY <1>1 DEF Acyclic

\* A generated task has its place at the start of an empty history.
LEMMA NewTaskFits ==
    ASSUME NEW due \in 0..NoDate
    PROVE  NewTask(due) \in TaskRow /\ NewTask(due) # NoRow /\ Chain(NewTask(due), <<>>)
<1>1. NewTask(due) \in TaskRow
    BY DEF NewTask, TaskRow, Status
<1>2. Chain(NewTask(due), <<>>)
    BY DEF NewTask, Chain, StatusAt
<1>3. QED
    BY <1>1, <1>2, RowIsARow

\* The history of a task after one more move.
LEMMA ChainGrows ==
    ASSUME NEW h \in Seq(HistoryRow), NEW row \in TaskRow, NEW new \in TaskRow,
           Chain(row, h), NEW move \in HistoryRow,
           move.from = row.status, move.to = new.status, new.version = row.version + 1,
           new.status = "COMPLETED" => new.progress = 100 /\ new.escalation = "NONE"
    PROVE  Chain(new, Append(h, move))
<1> DEFINE g == Append(h, move)
<1>1. PICK k \in Nat : k = Len(h)
    OBVIOUS
<1>2. /\ Len(g) = k + 1 /\ DOMAIN g = 1..(k + 1) /\ g[k + 1] = move
      /\ DOMAIN h = 1..k /\ \A i \in 1..k : g[i] = h[i]
    BY <1>1
<1>3. row.version \in Nat /\ new.version \in Nat
    BY RowIsARow
<1> HIDE DEF g
<1>4. \A i \in 0..k : StatusAt(g, i) = StatusAt(h, i)
    BY <1>2 DEF StatusAt
<1>5. StatusAt(g, k + 1) = move.to
    BY <1>2 DEF StatusAt
<1>6. ASSUME NEW i \in DOMAIN g
      PROVE  g[i].from = StatusAt(g, i - 1)
  <2>1. CASE i = k + 1
      BY <1>1, <1>2, <1>4, <2>1 DEF Chain
  <2>2. CASE i # k + 1
    <3>1. i \in 1..k /\ i - 1 \in 0..k
        BY <1>2, <1>6, <2>2
    <3>2. QED
        BY <1>2, <1>4, <3>1 DEF Chain
  <2>3. QED
      BY <2>1, <2>2
<1>7. new.version > k + 1
    BY <1>1, <1>3 DEF Chain
<1>8. QED
    BY <1>2, <1>5, <1>6, <1>7 DEF Chain, g


-----------------------------------------------------------------------------
(* What one step of a thread does to its request.                          *)

OthersKeep(w) == \A v \in Workers : v # w => req'[v] = req[v]

BoardCommits(w) ==
    CommitTransition(w) \/ CommitConfigure(w) \/ CommitDependency(w) \/ CommitScan(w)

LEMMA BoardShape ==
    ASSUME BoardOK, NEW w \in Workers, TaskRequestArrives(w) \/ TaskRequestStep(w)
    PROVE  /\ OthersKeep(w) /\ req' = [v \in Workers |-> req'[v]]
           /\ stale => stale'
           /\ BoardCommits(w) => req'[w] = Idle
           /\ ~BoardCommits(w) => UNCHANGED tables
<1>1. req = [v \in Workers |-> req[v]]
    BY DEF BoardOK
<1>2. ASSUME NEW r, req' = [req EXCEPT ![w] = r]
      PROVE  OthersKeep(w) /\ req' = [v \in Workers |-> req'[v]] /\ req'[w] = r
    BY <1>1, <1>2 DEF OthersKeep
<1>3. CASE TaskRequestArrives(w)
  <2>1. req[w] = Idle /\ UNCHANGED tables
      BY <1>3
      DEF TaskRequestArrives, TransitionTask, ConfigureTask, CreateDependency, DeadlineScan, Begin
  <2>2. ~BoardCommits(w)
      BY <2>1
      DEF BoardCommits, CommitTransition, CommitConfigure, CommitDependency, CommitScan, Idle
  <2>3. OthersKeep(w) /\ req' = [v \in Workers |-> req'[v]]
      BY <1>2, <1>3
      DEF TaskRequestArrives, TransitionTask, ConfigureTask, CreateDependency, DeadlineScan, Begin
  <2>4. QED
      BY <2>1, <2>2, <2>3 DEF tables
<1>4. CASE BoardCommits(w)
    BY <1>2, <1>4
    DEF BoardCommits, CommitTransition, CommitConfigure, CommitDependency, CommitScan, Finish
<1>5. CASE TaskRequestStep(w) /\ ~BoardCommits(w)
  <2>1. UNCHANGED tables
      BY <1>5 DEF TaskRequestStep, BoardCommits, ReadDependencies, ReadParent, WalkDependency
  <2>2. OthersKeep(w) /\ req' = [v \in Workers |-> req'[v]]
      BY <1>2, <1>5
      DEF TaskRequestStep, BoardCommits, ReadDependencies, ReadParent, WalkDependency, Finish
  <2>3. QED
      BY <1>5, <2>1, <2>2 DEF tables
<1>6. QED
    BY <1>3, <1>4, <1>5

\* What is to show of a request after a step.
GoodRequest(r) ==
    Shaped(r) /\ RowsExist(r) /\ Gated(r) /\ Walked(r) /\ (~stale => Cleared(r))

LEMMA IdleIsGood == GoodRequest(Idle)
    BY DEF GoodRequest, Shaped, RowsExist, Gated, Walked, Cleared, Idle

LEMMA ArrivalIsGood ==
    ASSUME BoardInv, NEW w \in Workers, TaskRequestArrives(w)
    PROVE  GoodRequest(req'[w])
<1>1. /\ req = [v \in Workers |-> req[v]] /\ task \in TaskTable
      /\ dependency \subseteq Tasks \X Tasks /\ today \in Nat
    BY DEF BoardInv, BoardOK
<1>2. ASSUME NEW r, Begin(w, r)
      PROVE  req'[w] = r
    BY <1>1, <1>2 DEF Begin
<1>3. ASSUME NEW t \in Tasks, NEW to \in Status, TransitionTask(w, t, to)
      PROVE  GoodRequest(req'[w])
  <2>1. task[t] \in TaskRow /\ task[t] # NoRow
      BY <1>1, <1>3 DEF TransitionTask, Generated, TaskTable
  <2>2. PICK p \in Progress \cup {task[t].progress} :
            Begin(w, [op |-> "TRANSITION",
                      at |-> IF to \in {"IN_PROGRESS", "COMPLETED"} THEN "dependencies" ELSE "commit",
                      task |-> t, row |-> task[t], to |-> to, progress |-> p,
                      waitsFor |-> {}, unread |-> {}])
      BY <1>3 DEF TransitionTask
  <2> DEFINE at == IF to \in {"IN_PROGRESS", "COMPLETED"} THEN "dependencies" ELSE "commit"
             r == [op |-> "TRANSITION", at |-> at, task |-> t, row |-> task[t], to |-> to,
                   progress |-> p, waitsFor |-> {}, unread |-> {}]
  <2>3. p \in 0..100
      BY <2>1, TasksAssumption DEF TaskRow
  <2>4. at \in {"dependencies", "commit"} /\ (to \in {"IN_PROGRESS", "COMPLETED"} => at # "commit")
      OBVIOUS
  <2>5. req'[w] = r
      BY <1>2, <2>2
  <2> HIDE DEF at
  <2>6. r \in TransitionRequest
      BY <2>1, <2>3, <2>4 DEF TransitionRequest
  <2>7. to \in AllowedTransitions[task[t].status]
      BY <1>3 DEF TransitionTask
  <2>8. GoodRequest(r)
      BY <2>1, <2>4, <2>6, <2>7 DEF GoodRequest, Shaped, RowsExist, Gated, Walked, Cleared
  <2>9. QED
      BY <2>5, <2>8
<1>4. ASSUME NEW t \in Tasks, NEW due \in Due, ConfigureTask(w, t, due)
      PROVE  GoodRequest(req'[w])
  <2> DEFINE r == [op |-> "CONFIGURE", task |-> t, row |-> task[t], due |-> due]
  <2>1. task[t] \in TaskRow /\ task[t] # NoRow
      BY <1>1, <1>4 DEF ConfigureTask, Generated, TaskTable
  <2>2. GoodRequest(r)
      BY <2>1, TasksAssumption
      DEF ConfigureRequest, GoodRequest, Shaped, RowsExist, Gated, Walked, Cleared
  <2>3. QED
      BY <1>2, <1>4, <2>2 DEF ConfigureTask
<1>5. ASSUME NEW t \in Tasks, NEW on \in Tasks, CreateDependency(w, t, on)
      PROVE  GoodRequest(req'[w])
  <2> DEFINE r == [op |-> "DEPENDENCY", task |-> t, on |-> on, edges |-> dependency,
                   frontier |-> {on}, seen |-> {}]
  <2>1. r \in DependencyRequest
      BY <1>1 DEF DependencyRequest
  <2>2. WalkFacts(r)
      BY DEF WalkFacts
  <2>3. GoodRequest(r)
      BY <2>1, <2>2 DEF GoodRequest, Shaped, RowsExist, Gated, Walked, Cleared
  <2>4. QED
      BY <1>2, <1>5, <2>3 DEF CreateDependency
<1>6. ASSUME DeadlineScan(w)
      PROVE  GoodRequest(req'[w])
  <2> DEFINE r == [op |-> "SCAN", rows |-> task, date |-> today]
  <2>1. GoodRequest(r)
      BY <1>1 DEF ScanRequest, GoodRequest, Shaped, RowsExist, Gated, Walked, Cleared
  <2>2. QED
      BY <1>2, <1>6, <2>1 DEF DeadlineScan
<1>7. QED
    BY <1>3, <1>4, <1>5, <1>6 DEF TaskRequestArrives

LEMMA StepIsGood ==
    ASSUME BoardInv, NEW w \in Workers, TaskRequestStep(w), UNCHANGED tables
    PROVE  GoodRequest(req'[w])
<1>1. req = [v \in Workers |-> req[v]] /\ task \in TaskTable
    BY DEF BoardInv, BoardOK
<1>2. GoodRequest(req[w])
    BY DEF BoardInv, RequestsOK, FreshBoard, GoodRequest
<1>3. CASE req'[w] = Idle
    BY <1>3, IdleIsGood
<1>4. CASE ReadDependencies(w)
  <2> DEFINE found == DependenciesOf(req[w].task)
             r == [req[w] EXCEPT !.at = "parents", !.waitsFor = found, !.unread = found]
  <2>1. req[w] \in TransitionRequest /\ req[w].op = "TRANSITION"
      BY <1>2, <1>4 DEF ReadDependencies, GoodRequest, Shaped
  <2>2. found \subseteq Tasks
      BY DEF DependenciesOf
  <2> HIDE DEF found
  <2>3. /\ r \in TransitionRequest /\ r.op = "TRANSITION" /\ r.at = "parents"
        /\ r.task = req[w].task /\ r.row = req[w].row /\ r.to = req[w].to
        /\ r.waitsFor = found /\ r.unread = found
      BY <2>1, <2>2 DEF TransitionRequest
  <2>4. req'[w] = r
      BY <1>1, <1>4 DEF ReadDependencies, found
  <2> HIDE DEF r
  <2>5. GoodRequest(r)
      BY <1>2, <2>1, <2>3 DEF GoodRequest, Shaped, RowsExist, Gated, Walked, Cleared
  <2>6. QED
      BY <2>4, <2>5
<1>5. ASSUME NEW d \in Tasks, ReadParent(w, d), req'[w] # Idle
      PROVE  GoodRequest(req'[w])
  <2> DEFINE r == [req[w] EXCEPT !.unread = @ \ {d}]
  <2>1. req[w] \in TransitionRequest /\ req[w].op = "TRANSITION" /\ task[d].status = "COMPLETED"
      BY <1>1, <1>2, <1>5 DEF ReadParent, GoodRequest, Shaped, Finish
  <2>2. /\ r \in TransitionRequest /\ r.op = "TRANSITION" /\ r.at = req[w].at
        /\ r.task = req[w].task /\ r.row = req[w].row /\ r.to = req[w].to
        /\ r.waitsFor = req[w].waitsFor /\ r.unread = req[w].unread \ {d}
      BY <2>1 DEF TransitionRequest
  <2>3. req'[w] = r
      BY <1>1, <1>5 DEF ReadParent, Finish
  <2> HIDE DEF r
  <2>4. GoodRequest(r)
      BY <1>2, <2>1, <2>2 DEF GoodRequest, Shaped, RowsExist, Gated, Walked, Cleared
  <2>5. QED
      BY <2>3, <2>4
<1>6. ASSUME NEW c \in Tasks, WalkDependency(w, c), req'[w] # Idle
      PROVE  GoodRequest(req'[w])
  <2> DEFINE q == req[w]
             deps == DependenciesOf(c)
             r == [q EXCEPT !.frontier = ((q.frontier \cup deps) \ q.seen) \ {c},
                            !.seen = q.seen \cup {c}]
  <2>1. q \in DependencyRequest /\ q.op = "DEPENDENCY" /\ c # q.task
      BY <1>1, <1>2, <1>6 DEF WalkDependency, GoodRequest, Shaped, Finish
  <2>2. deps \subseteq Tasks
      BY DEF DependenciesOf
  <2>3. req'[w] = r
      BY <1>1, <1>6 DEF WalkDependency, Finish
  <2> HIDE DEF deps
  <2>4. /\ r \in DependencyRequest /\ r.op = "DEPENDENCY"
        /\ r.task = q.task /\ r.on = q.on /\ r.edges = q.edges
        /\ r.frontier = ((q.frontier \cup deps) \ q.seen) \ {c} /\ r.seen = q.seen \cup {c}
      BY <2>1, <2>2 DEF DependencyRequest
  <2> HIDE DEF r
  <2>5. ASSUME WalkFacts(q)
        PROVE  WalkFacts(r)
    <3>1. r.seen \cup r.frontier = q.seen \cup q.frontier \cup deps \cup {c}
        BY <2>4
    <3>2. ASSUME NEW x \in r.seen
          PROVE  DependenciesOf(x) \subseteq r.seen \cup r.frontier
      <4>1. CASE x = c
          BY <3>1, <4>1 DEF deps
      <4>2. CASE x # c
          BY <2>4, <2>5, <3>1, <3>2, <4>2 DEF WalkFacts
      <4>3. QED
          BY <4>1, <4>2
    <3>3. r.on \in r.seen \cup r.frontier
        BY <2>4, <2>5, <3>1 DEF WalkFacts
    <3>4. QED
        BY <2>1, <2>4, <2>5, <3>2, <3>3 DEF WalkFacts
  <2>6. Walked(r)
      BY <1>2, <2>1, <2>4, <2>5 DEF GoodRequest, Walked
  <2>7. GoodRequest(r)
      BY <2>4, <2>6 DEF GoodRequest, Shaped, RowsExist, Gated, Cleared
  <2>8. QED
      BY <2>3, <2>7
<1>7. BoardCommits(w) => req'[w] = Idle
    BY BoardShape DEF BoardInv
<1>8. QED
    BY <1>3, <1>4, <1>5, <1>6, <1>7 DEF TaskRequestStep, BoardCommits


-----------------------------------------------------------------------------
(* What the commits do to the rows.                                        *)

\* The commit of a move.
LEMMA MovedRow ==
    ASSUME BoardInv, NEW w \in Workers, CommitTransition(w)
    PROVE  LET r == req[w] IN
           /\ r \in TransitionRequest /\ r.task \in Tasks /\ task[r.task] \in TaskRow
           /\ task' = [task EXCEPT ![r.task] = Transitioned(task[r.task], r)]
           /\ task'[r.task] \in TaskRow
           /\ history' = [history EXCEPT
                  ![r.task] = Append(history[r.task], [from |-> r.row.status, to |-> r.to])]
           /\ [from |-> r.row.status, to |-> r.to] \in HistoryRow
           /\ task'[r.task].status = r.to
           /\ dependency' = dependency
<1> DEFINE r == req[w]
<1>1. /\ r \in TransitionRequest /\ r.op = "TRANSITION" /\ task[r.task] # NoRow
      /\ task \in TaskTable
    BY DEF BoardInv, BoardOK, RequestsOK, Shaped, RowsExist, CommitTransition
<1>2. r.task \in Tasks /\ r.to \in Status /\ r.row \in TaskRow
    BY <1>1 DEF TransitionRequest
<1>3. task[r.task] \in TaskRow
    BY <1>1, <1>2 DEF TaskTable
<1>4. /\ task' = [task EXCEPT ![r.task] = Transitioned(task[r.task], r)]
      /\ history' = [history EXCEPT
             ![r.task] = Append(history[r.task], [from |-> r.row.status, to |-> r.to])]
      /\ dependency' = dependency
    BY DEF CommitTransition
<1>5. task'[r.task] = Transitioned(task[r.task], r)
    BY <1>1, <1>2, <1>4 DEF TaskTable
<1>6. task'[r.task] \in TaskRow
    BY <1>1, <1>3, <1>5, TransitionedType
<1>7. task'[r.task].status = r.to
    BY <1>5 DEF Transitioned
<1>8. [from |-> r.row.status, to |-> r.to] \in HistoryRow
    BY <1>2 DEF HistoryRow, TaskRow
<1>9. QED
    BY <1>1, <1>2, <1>3, <1>4, <1>6, <1>7, <1>8

\* What every step leaves alone in a row that has not moved.
RowStays(t) ==
    /\ task'[t] \in TaskRow
    /\ task'[t].status = task[t].status /\ task'[t].progress = task[t].progress
    /\ history'[t] = history[t]
    /\ ~stale' => /\ task'[t].version >= task[t].version
                  /\ task'[t].escalation = task[t].escalation \/ task[t].status \notin Terminal

LEMMA RowsMove ==
    ASSUME BoardInv, NEW w \in Workers, TaskRequestArrives(w) \/ TaskRequestStep(w)
    PROVE  /\ task' \in TaskTable /\ history' \in [Tasks -> Seq(HistoryRow)]
           /\ \A t \in Tasks : task[t] = NoRow => task'[t] = NoRow /\ history'[t] = history[t]
           /\ \A t \in Tasks : task[t] # NoRow =>
                  \/ RowStays(t)
                  \/ CommitTransition(w) /\ t = req[w].task
           /\ \A t \in Tasks : task[t] # NoRow => task'[t] \in TaskRow
<1>1. /\ task \in TaskTable /\ history \in [Tasks -> Seq(HistoryRow)]
      /\ \A t \in Tasks : task[t] # NoRow => task[t] \in TaskRow /\ task[t].version \in Nat
  <2>1. task \in TaskTable /\ history \in [Tasks -> Seq(HistoryRow)]
      BY DEF BoardInv, BoardOK
  <2>2. QED
      BY <2>1, RowIsARow DEF TaskTable
<1>2. ASSUME NEW t \in Tasks, task'[t] = task[t], history'[t] = history[t], task[t] # NoRow
      PROVE  RowStays(t)
    BY <1>1, <1>2 DEF RowStays
<1>3. CASE task' = task /\ history' = history
    BY <1>1, <1>2, <1>3
<1>4. CASE CommitTransition(w)
  <2> DEFINE u == req[w].task
  <2>1. /\ u \in Tasks /\ task[u] \in TaskRow /\ task'[u] \in TaskRow
        /\ task' \in TaskTable /\ history' \in [Tasks -> Seq(HistoryRow)]
    <3> DEFINE m == [from |-> req[w].row.status, to |-> req[w].to]
               new == Transitioned(task[u], req[w])
    <3>1. /\ u \in Tasks /\ task[u] \in TaskRow /\ task'[u] \in TaskRow /\ m \in HistoryRow
          /\ task' = [task EXCEPT ![u] = new]
          /\ history' = [history EXCEPT ![u] = Append(history[u], m)]
        BY <1>4, MovedRow
    <3> HIDE DEF m, new
    <3>2. Append(history[u], m) \in Seq(HistoryRow)
        BY <1>1, <3>1
    <3>3. history' \in [Tasks -> Seq(HistoryRow)]
        BY <1>1, <3>1, <3>2
    <3>4. task' \in TaskTable
        BY <1>1, <3>1 DEF TaskTable
    <3>5. QED
        BY <3>1, <3>3, <3>4
  <2>2. \A t \in Tasks : t # u => task'[t] = task[t] /\ history'[t] = history[t]
      BY <1>1, <1>4, MovedRow DEF TaskTable
  <2>3. task[u] # NoRow
      BY <2>1, RowIsARow
  <2>4. QED
      BY <1>1, <1>2, <1>4, <2>1, <2>2, <2>3
<1>5. CASE CommitConfigure(w)
  <2> DEFINE r == req[w]
             u == r.task
             due == Column(task[u].due, r.row.due, r.due)
             new == [task[u] EXCEPT !.due = due, !.version = r.row.version + 1]
  <2>1. r \in ConfigureRequest /\ task[u] # NoRow
      BY <1>5 DEF BoardInv, RequestsOK, Shaped, RowsExist, CommitConfigure
  <2>2. u \in Tasks /\ r.row \in TaskRow /\ r.due \in 0..NoDate /\ task[u] \in TaskRow
      BY <1>1, <2>1 DEF ConfigureRequest
  <2>3. r.row.version + 1 \in Nat /\ task[u].due \in 0..NoDate
      BY <2>2 DEF TaskRow
  <2>4. due \in 0..NoDate
      BY <2>2, <2>3, ColumnType
  <2>5. task' = [task EXCEPT ![u] = new]
      BY <1>1, <1>5, <2>2 DEF CommitConfigure, TaskTable, TaskRow
  <2> HIDE DEF due
  <2>6. /\ new \in TaskRow /\ new.status = task[u].status /\ new.progress = task[u].progress
        /\ new.escalation = task[u].escalation /\ new.version = r.row.version + 1
      BY <2>2, <2>3, <2>4 DEF TaskRow
  <2> HIDE DEF new
  <2>7. /\ task' \in TaskTable /\ history' = history /\ task'[u] = new
        /\ \A t \in Tasks : t # u => task'[t] = task[t]
      BY <1>1, <1>5, <2>2, <2>5, <2>6 DEF TaskTable, CommitConfigure
  <2>8. ~stale' => task[u] = r.row
      BY <1>5 DEF CommitConfigure
  <2>9. ~stale' => new.version >= task[u].version
      BY <1>1, <2>2, <2>6, <2>8, RowIsARow
  <2>10. RowStays(u)
      BY <2>6, <2>7, <2>9 DEF RowStays
  <2>11. ASSUME NEW t \in Tasks, t # u, task[t] # NoRow
         PROVE  RowStays(t)
      BY <1>2, <2>7, <2>11
  <2>12. QED
      BY <1>1, <2>1, <2>7, <2>6, <2>10, <2>11
<1>6. CASE CommitScan(w)
  <2> DEFINE r == req[w]
             row(t) == [task[t] EXCEPT !.escalation = "OVERDUE", !.version = r.rows[t].version + 1]
  <2>1. r \in ScanRequest /\ r.rows \in TaskTable /\ r.date \in Nat
      BY <1>6 DEF BoardInv, RequestsOK, Shaped, CommitScan, ScanRequest
  <2>2. /\ task' = [t \in Tasks |-> IF Escalates(r, t) THEN row(t) ELSE task[t]]
        /\ history' = history
      BY <1>6 DEF CommitScan
  <2>3. ASSUME NEW t \in Tasks, Escalates(r, t)
        PROVE  task[t] # NoRow /\ RowStays(t)
    <3>1. task[t] # NoRow /\ r.rows[t] # NoRow
        BY <1>6, <2>3 DEF BoardInv, RequestsOK, RowsExist, CommitScan, Escalates
    <3>2. task[t] \in TaskRow /\ r.rows[t].version \in Nat /\ task[t].version \in Nat
        BY <1>1, <2>1, <3>1, RowIsARow DEF TaskTable
    <3>3. task'[t] = row(t)
        BY <2>2, <2>3
    <3>n. PICK n \in Nat : n = r.rows[t].version + 1
        BY <3>2
    <3>4. /\ task'[t] \in TaskRow /\ task'[t].status = task[t].status
          /\ task'[t].progress = task[t].progress /\ task'[t].version = r.rows[t].version + 1
      <4>1. task'[t] = [task[t] EXCEPT !.escalation = "OVERDUE", !.version = n]
          BY <3>3, <3>n
      <4>2. QED
          BY <3>2, <3>n, <4>1 DEF TaskRow
    <3>5. ASSUME ~stale'
          PROVE  task'[t].version >= task[t].version /\ task[t].status \notin Terminal
      <4>1. task[t] = r.rows[t]
          BY <1>6, <2>3, <3>5 DEF CommitScan
      <4>2. task[t].status \notin Terminal
          BY <2>3, <4>1 DEF Escalates, PastDue
      <4>3. QED
          BY <3>2, <3>4, <4>1, <4>2
    <3>6. QED
        BY <2>2, <3>1, <3>4, <3>5 DEF RowStays
  <2>4. ASSUME NEW t \in Tasks, ~Escalates(r, t)
        PROVE  task'[t] = task[t]
      BY <2>2, <2>4
  <2>5. \A t \in Tasks : task[t] # NoRow => RowStays(t)
      BY <1>2, <2>2, <2>3, <2>4
  <2>6. \A t \in Tasks : task[t] = NoRow => task'[t] = NoRow
      BY <2>3, <2>4
  <2>7. task' = [t \in Tasks |-> task'[t]]
      BY <2>2
  <2>8. task' \in TaskTable
      BY <2>5, <2>6, <2>7 DEF RowStays, TaskTable
  <2>9. QED
      BY <1>1, <2>2, <2>5, <2>6, <2>8 DEF RowStays
<1>7. (task' = task /\ history' = history) \/ BoardCommits(w)
    BY BoardShape DEF BoardInv, tables
<1>8. CommitDependency(w) => task' = task /\ history' = history
    BY DEF CommitDependency
<1>9. QED
    BY <1>3, <1>4, <1>5, <1>6, <1>7, <1>8 DEF BoardCommits


\* A task at the end of its life does not move, as long as commits are fresh.
LEMMA TerminalRows ==
    ASSUME BoardInv, NEW w \in Workers, TaskRequestArrives(w) \/ TaskRequestStep(w), ~stale',
           NEW t \in Generated, task[t].status \in Terminal
    PROVE  task'[t].status = task[t].status
<1>1. t \in Tasks /\ task[t] # NoRow
    BY DEF Generated
<1>2. CASE RowStays(t)
    BY <1>2 DEF RowStays
<1>3. CASE CommitTransition(w) /\ t = req[w].task
  <2>1. task[t] = req[w].row /\ Gated(req[w]) /\ req[w].op = "TRANSITION"
      BY <1>3 DEF CommitTransition, BoardInv, RequestsOK
  <2>2. req[w].to \in AllowedTransitions[task[t].status]
      BY <2>1 DEF Gated
  <2>3. QED
      BY <2>2, TerminalStays
<1>4. QED
    BY <1>1, <1>2, <1>3, RowsMove

\* The edges: none is removed, and only create_dependency adds one.
LEMMA EdgesMove ==
    ASSUME BoardInv, NEW w \in Workers, TaskRequestArrives(w) \/ TaskRequestStep(w)
    PROVE  /\ dependency \subseteq dependency' /\ dependency' \subseteq Tasks \X Tasks
           /\ dependency' = dependency \/ CommitDependency(w)
<1>1. dependency \subseteq Tasks \X Tasks
    BY DEF BoardInv, BoardOK
<1>2. CASE CommitDependency(w)
  <2>1. req[w] \in DependencyRequest
      BY <1>2 DEF BoardInv, RequestsOK, Shaped, CommitDependency
  <2>2. <<req[w].task, req[w].on>> \in Tasks \X Tasks
      BY <2>1 DEF DependencyRequest
  <2>3. QED
      BY <1>1, <1>2, <2>2 DEF CommitDependency
<1>3. CASE ~CommitDependency(w)
  <2>1. dependency' = dependency
      BY <1>3, BoardShape
      DEF BoardInv, BoardCommits, CommitTransition, CommitConfigure, CommitScan, tables
  <2>2. QED
      BY <1>1, <2>1
<1>4. QED
    BY <1>2, <1>3

\* Whatever worker w does, another thread's request keeps what it knows.
LEMMA OthersAreGood ==
    ASSUME BoardInv, NEW w \in Workers, TaskRequestArrives(w) \/ TaskRequestStep(w),
           NEW v \in Workers, req'[v] = req[v]
    PROVE  GoodRequest(req[v])'
<1>1. /\ Shaped(req[v]) /\ RowsExist(req[v]) /\ Gated(req[v]) /\ Walked(req[v])
      /\ ~stale => Cleared(req[v])
    BY DEF BoardInv, RequestsOK, FreshBoard
<1>2. \A t \in Tasks : task[t] # NoRow => task'[t] # NoRow
    BY RowsMove, RowIsARow
<1>3. RowsExist(req[v])'
  <2>1. req[v].op \in {"TRANSITION", "CONFIGURE"} => req[v].task \in Tasks
      BY <1>1 DEF Shaped, TransitionRequest, ConfigureRequest
  <2>2. QED
      BY <1>1, <1>2, <2>1 DEF RowsExist
<1>4. Walked(req[v])'
  <2>1. dependency \subseteq dependency'
      BY EdgesMove
  <2>2. ASSUME req[v].op = "DEPENDENCY"
        PROVE  /\ req[v].edges \subseteq dependency'
               /\ dependency' = req[v].edges => dependency' = dependency /\ WalkFacts(req[v])
      BY <1>1, <2>1, <2>2 DEF Walked
  <2>3. QED
      BY <2>2 DEF Walked, WalkFacts, DependenciesOf
<1>5. (~stale => Cleared(req[v]))'
  <2>1. SUFFICES ASSUME ~stale', req[v].op = "TRANSITION", req[v].at = "parents",
                        NEW d \in req[v].waitsFor \ req[v].unread
                 PROVE  task'[d].status = "COMPLETED"
      BY DEF Cleared
  <2>2. ~stale
      BY <2>1, BoardShape DEF BoardInv
  <2>3. task[d].status = "COMPLETED" /\ d \in Tasks
      BY <1>1, <2>1, <2>2 DEF Cleared, Shaped, TransitionRequest
  <2>4. d \in Generated
      BY <2>3 DEF Generated, NoRow
  <2>5. QED
      BY <2>1, <2>3, <2>4, TerminalRows DEF Terminal
<1>6. QED
    BY <1>1, <1>3, <1>4, <1>5 DEF GoodRequest, Shaped, Gated

\* The chain of moves of every task goes on.
LEMMA ChainsGoOn ==
    ASSUME BoardInv, NEW w \in Workers, TaskRequestArrives(w) \/ TaskRequestStep(w), ~stale',
           NEW t \in Generated'
    PROVE  Chain(task'[t], history'[t])
<1>1. t \in Tasks /\ task[t] # NoRow
    BY RowsMove DEF Generated
<1>2. /\ Chain(task[t], history[t]) /\ task[t] \in TaskRow /\ history[t] \in Seq(HistoryRow)
      /\ task[t].version \in Nat
  <2>1. ~stale
      BY BoardShape DEF BoardInv
  <2>2. task[t] \in TaskRow /\ history[t] \in Seq(HistoryRow)
      BY <1>1 DEF BoardInv, BoardOK, TaskTable
  <2>3. QED
      BY <1>1, <2>1, <2>2, RowIsARow DEF BoardInv, FreshBoard, Generated
<1>3. CASE RowStays(t)
  <2>1. /\ task'[t].status = task[t].status /\ task'[t].progress = task[t].progress
        /\ history'[t] = history[t] /\ task'[t].version >= task[t].version
        /\ task'[t].escalation = task[t].escalation \/ task[t].status \notin Terminal
        /\ task'[t].version \in Nat
      BY <1>3, RowIsARow DEF RowStays
  <2>2. task'[t].version > Len(history'[t])
    <3>1. PICK k \in Nat : k = Len(history[t])
        BY <1>2
    <3>2. QED
        BY <1>2, <2>1, <3>1 DEF Chain
  <2>3. task'[t].status = "COMPLETED" => task'[t].progress = 100 /\ task'[t].escalation = "NONE"
      BY <1>2, <2>1 DEF Chain, Terminal
  <2>4. QED
      BY <1>2, <2>1, <2>2, <2>3 DEF Chain
<1>4. CASE CommitTransition(w) /\ t = req[w].task
  <2> DEFINE r == req[w]
             move == [from |-> r.row.status, to |-> r.to]
  <2>1. /\ r \in TransitionRequest /\ task \in TaskTable /\ history \in [Tasks -> Seq(HistoryRow)]
        /\ task' = [task EXCEPT ![t] = Transitioned(task[t], r)]
        /\ history' = [history EXCEPT ![t] = Append(history[t], move)]
        /\ move \in HistoryRow /\ task'[t] \in TaskRow /\ task'[t].status = r.to
      BY <1>4, MovedRow DEF BoardInv, BoardOK
  <2>2. task[t] = r.row
      BY <1>4 DEF CommitTransition
  <2>3. task'[t] = Transitioned(task[t], r) /\ history'[t] = Append(history[t], move)
      BY <1>1, <2>1 DEF TaskTable
  <2>4. /\ task'[t].version = task[t].version + 1
        /\ r.to = "COMPLETED" => task'[t].progress = 100 /\ task'[t].escalation = "NONE"
      BY <2>2, <2>3 DEF Transitioned, ProgressAfter, Column
  <2>5. move.from = task[t].status /\ move.to = task'[t].status
      BY <2>1, <2>2
  <2> HIDE DEF move
  <2>6. Chain(task'[t], Append(history[t], move))
      BY <1>2, <2>1, <2>4, <2>5, ChainGrows
  <2>7. QED
      BY <2>3, <2>6
<1>5. QED
    BY <1>1, <1>3, <1>4, RowsMove

\* A committed dependency closes no cycle.
LEMMA NoCycleIsClosed ==
    ASSUME BoardInv, NEW w \in Workers, TaskRequestArrives(w) \/ TaskRequestStep(w), ~stale'
    PROVE  Acyclic(dependency')
<1>1. Acyclic(dependency) /\ ~stale
    BY BoardShape DEF BoardInv, FreshBoard
<1>2. CASE dependency' = dependency
    BY <1>1, <1>2
<1>3. CASE CommitDependency(w) /\ dependency' # dependency
  <2> DEFINE r == req[w]
  <2>1. r \in DependencyRequest /\ Walked(r) /\ r.frontier = {} /\ r.op = "DEPENDENCY"
        /\ dependency' = dependency \cup {<<r.task, r.on>>}
      BY <1>3 DEF BoardInv, RequestsOK, Shaped, CommitDependency
  <2>2. dependency = r.edges
      BY <1>3, <2>1 DEF CommitDependency
  <2>3. WalkFacts(r)
      BY <2>1, <2>2 DEF Walked
  <2>4. /\ r.seen \in SUBSET Tasks /\ r.task \in Tasks /\ r.on \in r.seen /\ r.task \notin r.seen
        /\ \A x \in r.seen, d \in Tasks : <<x, d>> \in dependency => d \in r.seen
      BY <2>1, <2>3 DEF DependencyRequest, WalkFacts, DependenciesOf
  <2>5. QED
      BY <1>1, <2>1, <2>4, EdgeKeepsAcyclic
<1>4. QED
    BY <1>2, <1>3, EdgesMove

\* A step of a thread that serves the board keeps the invariant.
LEMMA BoardStep ==
    ASSUME BoardInv, NEW w \in Workers, TaskRequestArrives(w) \/ TaskRequestStep(w)
    PROVE  BoardInv'
<1>1. /\ OthersKeep(w) /\ req' = [v \in Workers |-> req'[v]]
      /\ BoardCommits(w) => req'[w] = Idle
      /\ ~BoardCommits(w) => UNCHANGED tables
    BY BoardShape DEF BoardInv
<1>2. BoardOK'
  <2>1. /\ task' \in TaskTable /\ history' \in [Tasks -> Seq(HistoryRow)]
        /\ dependency' \subseteq Tasks \X Tasks
      BY RowsMove, EdgesMove
  <2>2. today' \in Nat /\ stale' \in BOOLEAN
      BY <1>1
      DEF BoardInv, BoardOK, BoardCommits, CommitTransition, CommitConfigure, CommitDependency,
          CommitScan, tables
  <2>3. ASSUME NEW t \in Tasks, task'[t] = NoRow
        PROVE  history'[t] = <<>>
    <3>1. task[t] = NoRow
        BY <2>3, RowsMove, RowIsARow
    <3>2. QED
        BY <3>1, RowsMove DEF BoardInv, BoardOK
  <2>4. QED
      BY <1>1, <2>1, <2>2, <2>3 DEF BoardOK
<1>3. GoodRequest(req[w])'
  <2>1. CASE req'[w] = Idle
      BY <2>1 DEF GoodRequest, Shaped, RowsExist, Gated, Walked, Cleared, Idle
  <2>2. CASE UNCHANGED tables
    <3>1. GoodRequest(req'[w])
        BY <2>2, ArrivalIsGood, StepIsGood
    <3>2. QED
        BY <2>2, <3>1
        DEF GoodRequest, Shaped, RowsExist, Gated, Walked, WalkFacts, DependenciesOf, Cleared,
            tables
  <2>3. QED
      BY <1>1, <2>1, <2>2
<1>4. \A v \in Workers : GoodRequest(req[v])'
    BY <1>1, <1>3, OthersAreGood DEF OthersKeep
<1>5. RequestsOK'
    BY <1>4 DEF RequestsOK, GoodRequest
<1>6. FreshBoard'
    BY <1>4, ChainsGoOn, NoCycleIsClosed DEF FreshBoard, GoodRequest
<1>7. QED
    BY <1>2, <1>5, <1>6 DEF BoardInv

\* So does a step that touches neither the board nor a request to it.
LEMMA BoardUntouched ==
    ASSUME BoardInv, UNCHANGED <<task, dependency, history>>, today' \in Nat, stale' \in BOOLEAN,
           stale => stale', req' = [v \in Workers |-> req'[v]],
           \A v \in Workers : \/ req'[v] = req[v]
                              \/ req'[v].op \notin {"TRANSITION", "CONFIGURE", "DEPENDENCY", "SCAN"}
    PROVE  BoardInv'
<1>1. BoardOK'
    BY DEF BoardInv, BoardOK
<1>2. ASSUME NEW v \in Workers
      PROVE  GoodRequest(req[v])'
  <2>1. CASE req'[v] = req[v]
    <3>1. GoodRequest(req[v])
        BY DEF BoardInv, RequestsOK, FreshBoard, GoodRequest
    <3>2. QED
        BY <2>1, <3>1
        DEF GoodRequest, Shaped, RowsExist, Gated, Walked, WalkFacts, DependenciesOf, Cleared
  <2>2. CASE req'[v].op \notin {"TRANSITION", "CONFIGURE", "DEPENDENCY", "SCAN"}
      BY <2>2 DEF GoodRequest, Shaped, RowsExist, Gated, Walked, Cleared
  <2>3. QED
      BY <2>1, <2>2
<1>3. RequestsOK' /\ FreshBoard'
    BY <1>2 DEF BoardInv, RequestsOK, FreshBoard, GoodRequest, Generated
<1>4. QED
    BY <1>1, <1>3 DEF BoardInv


\* The gate: what is started or completed waits for nothing.
LEMMA GateHolds ==
    ASSUME BoardInv, NEW w \in Workers, TaskRequestArrives(w) \/ TaskRequestStep(w), ~stale',
           NEW t \in Generated, task'[t].status # task[t].status,
           task'[t].status \in {"IN_PROGRESS", "COMPLETED"},
           NEW d \in Tasks, <<t, d>> \in dependency
    PROVE  task[d].status = "COMPLETED"
<1> DEFINE r == req[w]
<1>1. CommitTransition(w) /\ t = r.task
    BY RowsMove DEF RowStays, Generated
<1>2. /\ r.op = "TRANSITION" /\ task'[t].status = r.to /\ Gated(r) /\ ~stale
      /\ r \in TransitionRequest
    BY <1>1, MovedRow, BoardShape DEF BoardInv, RequestsOK, CommitTransition
<1>3. r.at = "parents" /\ r.unread = {}
    BY <1>1, <1>2 DEF Gated, CommitTransition
<1>4. DependenciesOf(t) = r.waitsFor
    BY <1>1, <1>3 DEF CommitTransition
<1>5. d \in r.waitsFor \ r.unread
    BY <1>3, <1>4 DEF DependenciesOf
<1>6. Cleared(r)
    BY <1>2 DEF BoardInv, FreshBoard
<1>7. QED
    BY <1>2, <1>3, <1>5, <1>6 DEF Cleared

-----------------------------------------------------------------------------
(* The task board on its own.                                              *)

BoardOps == {"TRANSITION", "CONFIGURE", "DEPENDENCY", "SCAN"}

OnlyTaskRequests == \A w \in Workers : req[w] = Idle \/ req[w].op \in BoardOps

TaskInv == BoardInv /\ OnlyTaskRequests

LEMMA OnlyTaskRequestsStep ==
    ASSUME TaskInv, NEW w \in Workers, TaskRequestArrives(w) \/ TaskRequestStep(w)
    PROVE  OnlyTaskRequests'
<1>1. OthersKeep(w) /\ req = [v \in Workers |-> req[v]]
    BY BoardShape DEF TaskInv, BoardInv, BoardOK
<1>2. ASSUME NEW r, Begin(w, r), r.op \in BoardOps
      PROVE  req'[w].op \in BoardOps
    BY <1>1, <1>2 DEF Begin
<1>3. ASSUME TaskRequestArrives(w)
      PROVE  req'[w].op \in BoardOps
  <2>1. ASSUME NEW t \in Tasks, NEW to \in Status, TransitionTask(w, t, to)
        PROVE  req'[w].op \in BoardOps
      BY <1>2, <2>1 DEF TransitionTask, BoardOps
  <2>2. ASSUME NEW t \in Tasks, NEW due \in Due, ConfigureTask(w, t, due)
        PROVE  req'[w].op \in BoardOps
      BY <1>2, <2>2 DEF ConfigureTask, BoardOps
  <2>3. ASSUME NEW t \in Tasks, NEW on \in Tasks, CreateDependency(w, t, on)
        PROVE  req'[w].op \in BoardOps
      BY <1>2, <2>3 DEF CreateDependency, BoardOps
  <2>4. CASE DeadlineScan(w)
      BY <1>2, <2>4 DEF DeadlineScan, BoardOps
  <2>5. QED
      BY <1>3, <2>1, <2>2, <2>3, <2>4 DEF TaskRequestArrives
<1>4. ASSUME TaskRequestStep(w)
      PROVE  req'[w] = Idle \/ req'[w].op \in BoardOps
  <2>1. CASE BoardCommits(w)
      BY <2>1, BoardShape DEF TaskInv, BoardInv
  <2>2. CASE ReadDependencies(w) \/ \E d \in Tasks : ReadParent(w, d)
    <3>1. req[w] \in TransitionRequest
        BY <2>2 DEF TaskInv, BoardInv, RequestsOK, Shaped, ReadDependencies, ReadParent
    <3>2. QED
        BY <1>1, <2>2, <3>1 DEF ReadDependencies, ReadParent, Finish, TransitionRequest, BoardOps
  <2>3. CASE \E c \in Tasks : WalkDependency(w, c)
    <3>1. req[w] \in DependencyRequest
        BY <2>3 DEF TaskInv, BoardInv, RequestsOK, Shaped, WalkDependency
    <3>2. QED
        BY <1>1, <2>3, <3>1 DEF WalkDependency, Finish, DependencyRequest, BoardOps
  <2>4. QED
      BY <1>4, <2>1, <2>2, <2>3 DEF TaskRequestStep, BoardCommits
<1>5. QED
    BY <1>1, <1>3, <1>4 DEF TaskInv, OnlyTaskRequests, OthersKeep

LEMMA TaskInvInit == TaskInit => TaskInv
<1> SUFFICES ASSUME TaskInit PROVE TaskInv
    OBVIOUS
<1>1. \A w \in Workers : req[w] = Idle
    BY DEF TaskInit
<1>2. PICK due \in [Tasks -> Due] : task = [t \in Tasks |-> NewTask(due[t])]
    BY DEF TaskInit
<1>3. ASSUME NEW t \in Tasks
      PROVE  task[t] \in TaskRow /\ task[t] # NoRow /\ Chain(task[t], <<>>)
  <2>1. due[t] \in 0..NoDate
      BY TasksAssumption
  <2>2. QED
      BY <1>2, <2>1, NewTaskFits
<1>4. BoardOK
  <2>1. task \in TaskTable
      BY <1>2, <1>3 DEF TaskTable
  <2>2. history \in [Tasks -> Seq(HistoryRow)]
      BY DEF TaskInit
  <2>3. QED
      BY <1>3, <2>1, <2>2 DEF BoardOK, TaskInit
<1>5. \A w \in Workers : GoodRequest(req[w])
    BY <1>1, IdleIsGood
<1>6. \A t \in Tasks : history[t] = <<>>
    BY DEF TaskInit
<1>7. BoardInv
    BY <1>3, <1>4, <1>5, <1>6, NoEdges
    DEF BoardInv, RequestsOK, FreshBoard, GoodRequest, Generated, TaskInit
<1>8. QED
    BY <1>1, <1>7 DEF TaskInv, OnlyTaskRequests

LEMMA TaskInvNext == TaskInv /\ [TaskNext]_taskVars => TaskInv'
<1> SUFFICES ASSUME TaskInv, [TaskNext]_taskVars PROVE TaskInv'
    OBVIOUS
<1>1. ASSUME NEW w \in Workers, TaskRequestArrives(w) \/ TaskRequestStep(w)
      PROVE  TaskInv'
    BY <1>1, BoardStep, OnlyTaskRequestsStep DEF TaskInv
<1>2. CASE UNCHANGED taskVars \/ DayPasses
  <2>1. UNCHANGED <<task, dependency, history, req, stale>> /\ today' \in Nat
      BY <1>2 DEF taskVars, DayPasses, TaskInv, BoardInv, BoardOK
  <2>2. BoardInv'
      BY <2>1, BoardUntouched DEF TaskInv, BoardInv, BoardOK
  <2>3. QED
      BY <2>1, <2>2 DEF TaskInv, OnlyTaskRequests
<1>3. QED
    BY <1>1, <1>2 DEF TaskNext

LEMMA TaskInvTypes == TaskInv => TaskTypeOK
<1> SUFFICES ASSUME TaskInv PROVE TaskTypeOK
    OBVIOUS
<1>1. \A w \in Workers : req[w] \in {Idle} \cup TaskRequest
    BY DEF TaskInv, OnlyTaskRequests, BoardOps, BoardInv, RequestsOK, Shaped, TaskRequest
<1>2. req \in [Workers -> {Idle} \cup TaskRequest]
    BY <1>1 DEF TaskInv, BoardInv, BoardOK
<1>3. QED
    BY <1>2 DEF TaskTypeOK, TaskInv, BoardInv, BoardOK

LEMMA ChainsAreHistories == BoardInv => HistoryIsChain
<1> SUFFICES ASSUME BoardInv, ~stale, NEW t \in Generated
             PROVE  LET h == history[t]
                        StatusBefore(i) == IF i = 1 THEN "NOT_STARTED" ELSE h[i - 1].to
                    IN  /\ \A i \in DOMAIN h : h[i].from = StatusBefore(i)
                        /\ task[t].status = StatusBefore(Len(h) + 1)
                        /\ task[t].version > Len(h)
                        /\ task[t].status = "COMPLETED" =>
                              task[t].progress = 100 /\ task[t].escalation = "NONE"
    BY DEF HistoryIsChain
<1> DEFINE h == history[t]
           StatusBefore(i) == IF i = 1 THEN "NOT_STARTED" ELSE h[i - 1].to
<1>1. Chain(task[t], h)
    BY DEF BoardInv, FreshBoard
<1>2. PICK k \in Nat : k = Len(h) /\ DOMAIN h = 1..k
    BY DEF BoardInv, BoardOK, Generated
<1>3. \A i \in 1..(k + 1) : StatusBefore(i) = StatusAt(h, i - 1)
    BY DEF StatusAt
<1>4. StatusBefore(k + 1) = StatusAt(h, k)
    BY DEF StatusAt
<1> HIDE DEF h, StatusBefore
<1>5. /\ \A i \in DOMAIN h : h[i].from = StatusBefore(i)
      /\ task[t].status = StatusBefore(Len(h) + 1)
      /\ task[t].version > Len(h)
      /\ task[t].status = "COMPLETED" => task[t].progress = 100 /\ task[t].escalation = "NONE"
    BY <1>1, <1>2, <1>3, <1>4 DEF Chain
<1>6. QED
    BY <1>5 DEF h, StatusBefore

\* The two action properties, as what one step of the board may do.
FinalStep ==
    \A t \in Generated :
        ~stale' /\ task[t].status \in Terminal => task'[t].status = task[t].status

GateStep ==
    \A t \in Generated :
        LET moved == task'[t].status # task[t].status
        IN  ~stale' /\ moved /\ task'[t].status \in {"IN_PROGRESS", "COMPLETED"}
            => \A d \in Tasks : <<t, d>> \in dependency => task[d].status = "COMPLETED"

LEMMA BoardStepsAreRight ==
    ASSUME BoardInv, [TaskNext]_taskVars
    PROVE  FinalStep /\ GateStep
<1>1. CASE task' = task
    BY <1>1 DEF FinalStep, GateStep
<1>2. ASSUME NEW w \in Workers, TaskRequestArrives(w) \/ TaskRequestStep(w)
      PROVE  FinalStep /\ GateStep
    BY <1>2, TerminalRows, GateHolds DEF FinalStep, GateStep
<1>3. QED
    BY <1>1, <1>2 DEF TaskNext, DayPasses, taskVars

LEMMA TaskInvHolds == TaskSpec => []TaskInv
    BY TaskInvInit, TaskInvNext, PTL DEF TaskSpec

\* Every task row, edge and history row, and every request in flight, has the
\* shape its table and its handler give it.
THEOREM BoardTypesAreKept == TaskSpec => []TaskTypeOK
    BY TaskInvHolds, TaskInvTypes, PTL

\* As long as no commit was stale, each task's history is an unbroken chain of
\* moves to the status of its row, whatever scans and configuration requests
\* overlapped the moves.
THEOREM HistoriesAreChains == TaskSpec => []HistoryIsChain
<1>1. TaskInv => HistoryIsChain
    BY ChainsAreHistories DEF TaskInv
<1>2. QED
    BY <1>1, TaskInvHolds, PTL

\* As long as no commit was stale, a completed or cancelled task stays so.
THEOREM FinishedTasksStay == TaskSpec => FinishedIsFinal
<1>1. TaskInv /\ [TaskNext]_taskVars
      => [\A t \in Generated :
             ~stale' /\ task[t].status \in Terminal => task'[t].status = task[t].status]_taskVars
    BY BoardStepsAreRight DEF TaskInv, FinalStep
<1>2. QED
    BY <1>1, TaskInvHolds, PTL DEF TaskSpec, FinishedIsFinal

\* As long as no commit was stale, a task starts or completes only at a moment
\* when all it waits for is completed, although its dependencies and each of
\* their rows were read in statements of their own.
THEOREM DependenciesGate == TaskSpec => DependenciesComeFirst
<1>1. TaskInv /\ [TaskNext]_taskVars
      => [\A t \in Generated :
             LET moved == task'[t].status # task[t].status
             IN  ~stale' /\ moved /\ task'[t].status \in {"IN_PROGRESS", "COMPLETED"}
                 => \A d \in Tasks : <<t, d>> \in dependency => task[d].status = "COMPLETED"]_taskVars
    BY BoardStepsAreRight DEF TaskInv, GateStep
<1>2. QED
    BY <1>1, TaskInvHolds, PTL DEF TaskSpec, DependenciesComeFirst

\* As long as no commit was stale, no set of tasks waits for itself: the walk
\* that looks for a cycle is right about the edges it read one task at a time.
THEOREM NoCycles == TaskSpec => []NoDependencyCycle
<1>1. TaskInv => NoDependencyCycle
    BY DEF TaskInv, BoardInv, FreshBoard, NoDependencyCycle
<1>2. QED
    BY <1>1, TaskInvHolds, PTL
=============================================================================
