---------------------- MODULE EngagementWorkflowProofs ----------------------
(***************************************************************************)
(* Theorems about EngagementWorkflow, for any set of workers, tasks,       *)
(* documents and templates and any value of the bounds.                    *)
(***************************************************************************)
EXTENDS EngagementWorkflow, TasksProofs

Requests == {Idle} \cup TaskRequest \cup WorkflowRequest

-----------------------------------------------------------------------------
(* Requests.                                                               *)

\* The operation of a request tells which handler built it.
LEMMA RequestKinds ==
    ASSUME NEW r \in Requests
    PROVE  /\ r.op = "TRANSITION" => r \in TransitionRequest
           /\ r.op = "CONFIGURE" => r \in ConfigureRequest
           /\ r.op = "DEPENDENCY" => r \in DependencyRequest
           /\ r.op = "SCAN" => r \in ScanRequest
           /\ r.op = "UPDATE" => r \in UpdateRequest
           /\ r.op = "APPLY" => r \in ApplyRequest
           /\ r.op \in ReviewOps \cup {"VIEW"} => r \in ReviewRequest
    BY DEF Requests, Idle, TaskRequest, WorkflowRequest, TransitionRequest, ConfigureRequest,
           DependencyRequest, ScanRequest, UpdateRequest, ApplyRequest, ReviewRequest, ReviewOps

-----------------------------------------------------------------------------
(* Type correctness.                                                       *)

\* The tables other than the requests are typed.
TablesOK ==
    /\ engagement \in EngagementRow
    /\ lock \in LockRow \cup {NoLock}
    /\ document \subseteq Documents
    /\ trail \in Seq(TrailRow)
    /\ task \in TaskTable
    /\ dependency \subseteq Tasks \X Tasks
    /\ today \in Nat
    /\ stale \in BOOLEAN

LEMMA TypeOKSplit == WorkflowTypeOK <=> TablesOK /\ req \in [Workers -> Requests]
    BY DEF WorkflowTypeOK, TablesOK, Requests

LEMMA TypeOKNext == (TablesOK /\ req \in [Workers -> Requests])' => WorkflowTypeOK'
    BY DEF WorkflowTypeOK, TablesOK, Requests

LEMMA TypeInit == Init => WorkflowTypeOK
<1> SUFFICES ASSUME Init PROVE WorkflowTypeOK
    OBVIOUS
<1>1. engagement \in EngagementRow /\ lock \in LockRow \cup {NoLock}
    BY DEF Init, EngagementRow, EngagementStatus
<1>2. trail \in Seq(TrailRow) /\ document \subseteq Documents
    BY DEF Init
<1>3. task \in TaskTable /\ dependency \subseteq Tasks \X Tasks
    BY DEF Init, TaskTable
<1>4. today \in Nat /\ stale \in BOOLEAN
    BY DEF Init
<1>5. req \in [Workers -> {Idle} \cup TaskRequest \cup WorkflowRequest]
    BY DEF Init
<1>6. QED
    BY <1>1, <1>2, <1>3, <1>4, <1>5 DEF WorkflowTypeOK

\* The rows a request refers to exist: no handler deletes a task or a lock.
HasRows(r) ==
    /\ r.op \in {"TRANSITION", "CONFIGURE"} => task[r.task] # NoRow
    /\ r.op = "SCAN" => \A t \in Tasks : r.rows[t] # NoRow => task[t] # NoRow
    /\ r.op \in ReviewOps \cup {"VIEW"} /\ r.at = "commit" /\ ~r.inserted => lock # NoLock

TypeInv == WorkflowTypeOK /\ \A w \in Workers : HasRows(req[w])

\* A step of worker w that leaves it with request r.
LEMMA StepType ==
    ASSUME TypeInv, NEW w \in Workers, NEW r \in Requests, HasRows(r),
           req' = [req EXCEPT ![w] = r], TablesOK',
           \A t \in Tasks : task[t] # NoRow => task'[t] # NoRow,
           lock # NoLock => lock' # NoLock
    PROVE  TypeInv'
<1>1. req \in [Workers -> Requests] /\ req' \in [Workers -> Requests]
    BY TypeOKSplit DEF TypeInv
<1>2. ASSUME NEW v \in Workers
      PROVE  HasRows(req[v])'
  <2>1. req'[v] \in Requests /\ HasRows(req'[v])
      BY <1>1 DEF TypeInv
  <2>2. req'[v].op \in {"TRANSITION", "CONFIGURE"} => req'[v].task \in Tasks
      BY <2>1, RequestKinds DEF TransitionRequest, ConfigureRequest
  <2>3. QED
      BY <2>1, <2>2 DEF HasRows, ReviewOps
<1>3. QED
    BY <1>1, <1>2, TypeOKNext DEF TypeInv

\* The same for a step that commits nothing.
LEMMA ReadType ==
    ASSUME TypeInv, NEW w \in Workers, NEW r \in Requests, HasRows(r),
           req' = [req EXCEPT ![w] = r], UNCHANGED <<tables, workflowTables>>
    PROVE  TypeInv'
<1>1. TablesOK' /\ task' = task /\ lock' = lock
    BY TypeOKSplit DEF TypeInv, TablesOK, tables, workflowTables
<1>2. QED
    BY <1>1, StepType

LEMMA IdleRequest == Idle \in Requests /\ HasRows(Idle)
    BY DEF Requests, Idle, HasRows, ReviewOps

LEMMA TaskArrivalType ==
    ASSUME TypeInv, NEW w \in Workers, TaskRequestArrives(w), UNCHANGED workflowTables
    PROVE  TypeInv'
<1>1. TablesOK /\ req \in [Workers -> Requests]
    BY TypeOKSplit DEF TypeInv
<1>2. ASSUME NEW t \in Tasks, NEW to \in Status, TransitionTask(w, t, to)
      PROVE  TypeInv'
  <2>1. task[t] \in TaskRow /\ task[t] # NoRow
      BY <1>1, <1>2 DEF TablesOK, TransitionTask, Generated, TaskTable
  <2>2. PICK p \in Progress \cup {task[t].progress} :
            Begin(w, [op |-> "TRANSITION",
                      at |-> IF to \in {"IN_PROGRESS", "COMPLETED"} THEN "dependencies" ELSE "commit",
                      task |-> t, row |-> task[t], to |-> to, progress |-> p,
                      waitsFor |-> {}, unread |-> {}])
      BY <1>2 DEF TransitionTask
  <2> DEFINE r == [op |-> "TRANSITION",
                   at |-> IF to \in {"IN_PROGRESS", "COMPLETED"} THEN "dependencies" ELSE "commit",
                   task |-> t, row |-> task[t], to |-> to, progress |-> p,
                   waitsFor |-> {}, unread |-> {}]
  <2>3. p \in 0..100
      BY <2>1, TasksAssumption DEF TaskRow
  <2>4. r \in Requests
      BY <2>1, <2>3 DEF Requests, TaskRequest, TransitionRequest
  <2>5. HasRows(r)
      BY <2>1 DEF HasRows, ReviewOps
  <2>6. req' = [req EXCEPT ![w] = r] /\ UNCHANGED <<tables, workflowTables>>
      BY <1>2, <2>2 DEF Begin, TransitionTask
  <2>7. QED
      BY <2>4, <2>5, <2>6, ReadType
<1>3. ASSUME NEW t \in Tasks, NEW due \in Due, ConfigureTask(w, t, due)
      PROVE  TypeInv'
  <2> DEFINE r == [op |-> "CONFIGURE", task |-> t, row |-> task[t], due |-> due]
  <2>1. task[t] \in TaskRow /\ task[t] # NoRow
      BY <1>1, <1>3 DEF TablesOK, ConfigureTask, Generated, TaskTable
  <2>2. r \in Requests /\ HasRows(r)
      BY <2>1, TasksAssumption DEF Requests, TaskRequest, ConfigureRequest, HasRows, ReviewOps
  <2>3. req' = [req EXCEPT ![w] = r] /\ UNCHANGED <<tables, workflowTables>>
      BY <1>3 DEF Begin, ConfigureTask
  <2>4. QED
      BY <2>2, <2>3, ReadType
<1>4. ASSUME NEW t \in Tasks, NEW on \in Tasks, CreateDependency(w, t, on)
      PROVE  TypeInv'
  <2> DEFINE r == [op |-> "DEPENDENCY", task |-> t, on |-> on, edges |-> dependency,
                   frontier |-> {on}, seen |-> {}]
  <2>1. r \in Requests /\ HasRows(r)
      BY <1>1 DEF TablesOK, Requests, TaskRequest, DependencyRequest, HasRows, ReviewOps
  <2>2. req' = [req EXCEPT ![w] = r] /\ UNCHANGED <<tables, workflowTables>>
      BY <1>4 DEF Begin, CreateDependency
  <2>3. QED
      BY <2>1, <2>2, ReadType
<1>5. ASSUME DeadlineScan(w)
      PROVE  TypeInv'
  <2> DEFINE r == [op |-> "SCAN", rows |-> task, date |-> today]
  <2>1. r \in Requests /\ HasRows(r)
      BY <1>1 DEF TablesOK, Requests, TaskRequest, ScanRequest, HasRows, ReviewOps
  <2>2. req' = [req EXCEPT ![w] = r] /\ UNCHANGED <<tables, workflowTables>>
      BY <1>5 DEF Begin, DeadlineScan
  <2>3. QED
      BY <2>1, <2>2, ReadType
<1>6. QED
    BY <1>2, <1>3, <1>4, <1>5 DEF TaskRequestArrives

LEMMA TaskStepType ==
    ASSUME TypeInv, NEW w \in Workers, TaskRequestStep(w), UNCHANGED workflowTables
    PROVE  TypeInv'
<1>1. TablesOK /\ req \in [Workers -> Requests]
    BY TypeOKSplit DEF TypeInv
<1>2. req[w] \in Requests /\ HasRows(req[w]) /\ lock' = lock
    BY <1>1 DEF TypeInv, workflowTables
<1>3. CASE ReadDependencies(w)
  <2> DEFINE found == DependenciesOf(req[w].task)
             r == [req[w] EXCEPT !.at = "parents", !.waitsFor = found, !.unread = found]
  <2>1. req[w] \in TransitionRequest
      BY <1>2, <1>3, RequestKinds DEF ReadDependencies
  <2>2. found \subseteq Tasks
      BY DEF DependenciesOf
  <2>3. r \in Requests
      BY <2>1, <2>2 DEF Requests, TaskRequest, TransitionRequest
  <2>4. HasRows(r)
      BY <1>2, <2>1 DEF TransitionRequest, HasRows, ReviewOps
  <2>5. req' = [req EXCEPT ![w] = r] /\ UNCHANGED <<tables, workflowTables>>
      BY <1>1, <1>3 DEF ReadDependencies
  <2>6. QED
      BY <2>3, <2>4, <2>5, ReadType
<1>4. ASSUME NEW d \in Tasks, ReadParent(w, d)
      PROVE  TypeInv'
  <2> DEFINE r == [req[w] EXCEPT !.unread = req[w].unread \ {d}]
  <2>1. req[w] \in TransitionRequest
      BY <1>2, <1>4, RequestKinds DEF ReadParent
  <2>2. r \in Requests /\ HasRows(r)
      BY <1>2, <2>1 DEF Requests, TaskRequest, TransitionRequest, HasRows, ReviewOps
  <2>3. /\ \/ req' = [req EXCEPT ![w] = r]
           \/ req' = [req EXCEPT ![w] = Idle]
        /\ UNCHANGED <<tables, workflowTables>>
      BY <1>1, <1>4 DEF ReadParent, Finish
  <2>4. QED
      BY <2>2, <2>3, ReadType, IdleRequest
<1>5. CASE CommitTransition(w)
  <2> DEFINE t == req[w].task
  <2>1. req[w] \in TransitionRequest /\ t \in Tasks /\ task[t] # NoRow
      BY <1>2, <1>5, RequestKinds DEF CommitTransition, TransitionRequest, HasRows, ReviewOps
  <2>2. task' = [task EXCEPT ![t] = Transitioned(task[t], req[w])]
      BY <1>5 DEF CommitTransition
  <2>3. task[t] \in TaskRow
      BY <1>1, <2>1 DEF TablesOK, TaskTable
  <2>4. Transitioned(task[t], req[w]) \in TaskRow
      BY <2>1, <2>3, TransitionedType
  <2>5. TablesOK'
      BY <1>1, <1>5, <2>2, <2>4 DEF TablesOK, TaskTable, CommitTransition, workflowTables
  <2>6. \A u \in Tasks : task[u] # NoRow => task'[u] # NoRow
      BY <1>1, <2>2, <2>4 DEF TablesOK, TaskTable, TaskRow, NoRow, Status
  <2>7. req' = [req EXCEPT ![w] = Idle]
      BY <1>5 DEF CommitTransition, Finish
  <2>8. QED
      BY <2>5, <2>6, <2>7, <1>2, StepType, IdleRequest
<1>6. CASE CommitConfigure(w)
  <2> DEFINE t == req[w].task
             row == [task[t] EXCEPT !.due = Column(@, req[w].row.due, req[w].due),
                                    !.version = req[w].row.version + 1]
  <2>1. req[w] \in ConfigureRequest /\ t \in Tasks /\ task[t] # NoRow
      BY <1>2, <1>6, RequestKinds DEF CommitConfigure, ConfigureRequest, HasRows, ReviewOps
  <2>2. task[t] \in TaskRow
      BY <1>1, <2>1 DEF TablesOK, TaskTable
  <2>3. task' = [task EXCEPT ![t] = row]
      BY <1>1, <1>6, <2>1, <2>2 DEF CommitConfigure, TablesOK, TaskTable, TaskRow
  <2>4. row \in TaskRow
    <3>1. req[w].row.version + 1 \in Nat /\ req[w].due \in 0..NoDate
        BY <2>1 DEF ConfigureRequest, TaskRow
    <3>2. Column(task[t].due, req[w].row.due, req[w].due) \in 0..NoDate
        BY <2>2, <3>1 DEF TaskRow, Column
    <3>3. QED
        BY <2>2, <3>1, <3>2 DEF TaskRow
  <2>5. TablesOK'
      BY <1>1, <1>6, <2>3, <2>4 DEF TablesOK, TaskTable, CommitConfigure, workflowTables
  <2>6. \A u \in Tasks : task[u] # NoRow => task'[u] # NoRow
      BY <1>1, <2>3, <2>4 DEF TablesOK, TaskTable, TaskRow, NoRow, Status
  <2>7. req' = [req EXCEPT ![w] = Idle]
      BY <1>6 DEF CommitConfigure, Finish
  <2>8. QED
      BY <2>5, <2>6, <2>7, <1>2, StepType, IdleRequest
<1>7. ASSUME NEW c \in Tasks, WalkDependency(w, c)
      PROVE  TypeInv'
  <2> DEFINE r == [req[w] EXCEPT
                      !.frontier = ((@ \cup DependenciesOf(c)) \ req[w].seen) \ {c},
                      !.seen = @ \cup {c}]
  <2>1. req[w] \in DependencyRequest
      BY <1>2, <1>7, RequestKinds DEF WalkDependency
  <2>2. DependenciesOf(c) \subseteq Tasks
      BY DEF DependenciesOf
  <2>3. r \in Requests /\ HasRows(r)
      BY <2>1, <2>2 DEF Requests, TaskRequest, DependencyRequest, HasRows, ReviewOps
  <2>4. /\ \/ req' = [req EXCEPT ![w] = r]
           \/ req' = [req EXCEPT ![w] = Idle]
        /\ UNCHANGED <<tables, workflowTables>>
      BY <1>1, <1>7 DEF WalkDependency, Finish
  <2>5. QED
      BY <2>3, <2>4, ReadType, IdleRequest
<1>8. CASE CommitDependency(w)
  <2>1. req[w] \in DependencyRequest
      BY <1>2, <1>8, RequestKinds DEF CommitDependency
  <2>2. TablesOK' /\ task' = task
      BY <1>1, <1>8, <2>1 DEF TablesOK, CommitDependency, workflowTables, DependencyRequest
  <2>3. req' = [req EXCEPT ![w] = Idle]
      BY <1>8 DEF CommitDependency, Finish
  <2>4. QED
      BY <2>2, <2>3, <1>2, StepType, IdleRequest
<1>9. CASE CommitScan(w)
  <2> DEFINE row(t) == IF Escalates(req[w], t)
                       THEN [task[t] EXCEPT !.escalation = "OVERDUE",
                                            !.version = req[w].rows[t].version + 1]
                       ELSE task[t]
  <2>1. req[w] \in ScanRequest
      BY <1>2, <1>9, RequestKinds DEF CommitScan
  <2>2. task' = [t \in Tasks |-> row(t)]
      BY <1>9 DEF CommitScan
  <2>3. ASSUME NEW t \in Tasks
        PROVE  row(t) \in TaskRow \cup {NoRow} /\ (task[t] # NoRow => row(t) # NoRow)
    <3>1. CASE Escalates(req[w], t)
      <4>1. req[w].rows[t] \in TaskRow /\ task[t] \in TaskRow
          BY <1>1, <1>2, <1>9, <2>1, <3>1
          DEF Escalates, ScanRequest, TaskTable, TablesOK, HasRows, CommitScan
      <4>2. req[w].rows[t].version + 1 \in Nat
          BY <4>1 DEF TaskRow
      <4>3. row(t) \in TaskRow
          BY <3>1, <4>1, <4>2 DEF TaskRow
      <4>4. QED
          BY <4>3 DEF TaskRow, NoRow, Status
    <3>2. CASE ~Escalates(req[w], t)
        BY <1>1, <3>2 DEF TablesOK, TaskTable
    <3>3. QED
        BY <3>1, <3>2
  <2>4. TablesOK'
      BY <1>1, <1>9, <2>2, <2>3 DEF TablesOK, TaskTable, CommitScan, workflowTables
  <2>5. \A u \in Tasks : task[u] # NoRow => task'[u] # NoRow
      BY <2>2, <2>3
  <2>6. req' = [req EXCEPT ![w] = Idle]
      BY <1>9 DEF CommitScan, Finish
  <2>7. QED
      BY <2>4, <2>5, <2>6, <1>2, StepType, IdleRequest
<1>10. QED
    BY <1>3, <1>4, <1>5, <1>6, <1>7, <1>8, <1>9 DEF TaskRequestStep

LEMMA ArrivalType ==
    ASSUME TypeInv, NEW w \in Workers, RequestArrives(w)
    PROVE  TypeInv'
<1>1. engagement \in EngagementRow
    BY DEF TypeInv, WorkflowTypeOK
<1>2. ASSUME NEW op \in ReviewOps, StartReview(w, op)
      PROVE  TypeInv'
  <2> DEFINE r == [op |-> op, at |-> IF op = "REOPEN" THEN "lock" ELSE "tasks",
                   row |-> engagement, lock |-> NoLock, inserted |-> FALSE]
  <2>1. r \in Requests /\ HasRows(r)
      BY <1>1 DEF Requests, WorkflowRequest, ReviewRequest, HasRows, ReviewOps
  <2>2. req' = [req EXCEPT ![w] = r] /\ UNCHANGED <<tables, workflowTables>>
      BY <1>2 DEF StartReview, Begin
  <2>3. QED
      BY <2>1, <2>2, ReadType
<1>3. CASE StartView(w)
  <2> DEFINE r == [op |-> "VIEW", at |-> "lock", row |-> engagement,
                   lock |-> NoLock, inserted |-> FALSE]
  <2>1. r \in Requests /\ HasRows(r)
      BY <1>1 DEF Requests, WorkflowRequest, ReviewRequest, HasRows, ReviewOps
  <2>2. req' = [req EXCEPT ![w] = r] /\ UNCHANGED <<tables, workflowTables>>
      BY <1>3 DEF StartView, Begin
  <2>3. QED
      BY <2>1, <2>2, ReadType
<1>4. CASE StartUpdate(w)
  <2> DEFINE r == [op |-> "UPDATE", row |-> engagement]
  <2>1. r \in Requests /\ HasRows(r)
      BY <1>1 DEF Requests, WorkflowRequest, UpdateRequest, HasRows, ReviewOps
  <2>2. req' = [req EXCEPT ![w] = r] /\ UNCHANGED <<tables, workflowTables>>
      BY <1>4 DEF StartUpdate, Begin
  <2>3. QED
      BY <2>1, <2>2, ReadType
<1>5. ASSUME NEW p \in Templates, StartApply(w, p)
      PROVE  TypeInv'
  <2> DEFINE r == [op |-> "APPLY", at |-> "existing", row |-> engagement, template |-> p]
  <2>1. r \in Requests /\ HasRows(r)
      BY <1>1 DEF Requests, WorkflowRequest, ApplyRequest, HasRows, ReviewOps
  <2>2. req' = [req EXCEPT ![w] = r] /\ UNCHANGED <<tables, workflowTables>>
      BY <1>5 DEF StartApply, Begin
  <2>3. QED
      BY <2>1, <2>2, ReadType
<1>6. QED
    BY <1>2, <1>3, <1>4, <1>5 DEF RequestArrives

\* The lock row stays typed under a review action.
LEMMA LockAfterType ==
    ASSUME NEW l \in LockRow, NEW op \in ReviewOps
    PROVE  LockAfter(op, l) \in LockRow
<1>1. l.revision + 1 \in Nat /\ l.revision \in Nat
    BY DEF LockRow
<1>2. QED
    BY <1>1 DEF LockAfter, LockRow

LEMMA CommitReviewType ==
    ASSUME TypeInv, NEW w \in Workers, CommitReview(w)
    PROVE  TypeInv'
<1>1. TablesOK /\ req \in [Workers -> Requests] /\ HasRows(req[w])
    BY TypeOKSplit DEF TypeInv
<1> DEFINE r == req[w]
           kept == IF r.inserted THEN OpenLock ELSE lock
           left == LockAfter(r.op, r.lock)
<1>2. r \in ReviewRequest /\ r.op \in ReviewOps /\ r.at = "commit"
    BY <1>1, RequestKinds DEF CommitReview
<1>3. r.lock \in LockRow /\ r.row \in EngagementRow /\ r.row.version + 1 \in Nat
  <2>1. r.lock \in LockRow /\ r.row \in EngagementRow
      BY <1>2 DEF ReviewRequest
  <2>2. QED
      BY <2>1 DEF EngagementRow
<1>4. kept \in LockRow
  <2>1. OpenLock \in LockRow
      BY DEF OpenLock, LockRow
  <2>2. ~r.inserted => lock \in LockRow
      BY <1>1, <1>2 DEF TablesOK, HasRows
  <2>3. QED
      BY <2>1, <2>2
<1>5. left \in LockRow
    BY <1>2, <1>3, LockAfterType
<1>6. lock' \in LockRow
  <2>1. /\ Column(kept.state, r.lock.state, left.state) \in {"OPEN", "LOCKED"}
        /\ Column(kept.revision, r.lock.revision, left.revision) \in Nat
      BY <1>4, <1>5 DEF LockRow, Column
  <2>2. lock' = [state    |-> Column(kept.state, r.lock.state, left.state),
                 revision |-> Column(kept.revision, r.lock.revision, left.revision)]
      BY DEF CommitReview
  <2>3. QED
      BY <2>1, <2>2 DEF LockRow
<1>7. To[r.op] \in EngagementStatus
    BY <1>2 DEF To, ReviewOps, EngagementStatus
<1>8. engagement' \in EngagementRow
    BY <1>3, <1>7 DEF CommitReview, EngagementRow
<1>9. trail' \in Seq(TrailRow)
  <2>1. r.row.status \in EngagementStatus /\ left.revision \in Nat
      BY <1>3, <1>5 DEF EngagementRow, LockRow
  <2>2. [action |-> r.op, from |-> r.row.status, to |-> To[r.op], revision |-> left.revision]
            \in TrailRow
      BY <1>2, <1>7, <2>1 DEF TrailRow
  <2>3. QED
      BY <1>1, <2>2 DEF CommitReview, Recorded, TablesOK
<1>10. TablesOK'
    BY <1>1, <1>6, <1>8, <1>9 DEF TablesOK, CommitReview
<1>11. task' = task /\ lock' # NoLock
    BY <1>6 DEF CommitReview, LockRow, NoLock
<1>12. req' = [req EXCEPT ![w] = Idle]
    BY DEF CommitReview, Finish
<1>13. QED
    BY <1>10, <1>11, <1>12, StepType, IdleRequest

LEMMA CommitApplyType ==
    ASSUME TypeInv, NEW w \in Workers, CommitApply(w)
    PROVE  TypeInv'
<1>1. TablesOK /\ req \in [Workers -> Requests]
    BY TypeOKSplit DEF TypeInv
<1> DEFINE r == req[w]
           made == Generates[r.template]
<1>2. r \in ApplyRequest
    BY <1>1, RequestKinds DEF CommitApply
<1>3. made.tasks \subseteq Tasks /\ made.documents \subseteq Documents
    BY <1>2, WorkflowAssumption DEF ApplyRequest
<1>4. PICK due \in [made.tasks -> Due] :
          task' = [t \in Tasks |-> IF t \in made.tasks THEN NewTask(due[t]) ELSE task[t]]
    BY DEF CommitApply
<1>5. ASSUME NEW t \in made.tasks
      PROVE  NewTask(due[t]) \in TaskRow /\ NewTask(due[t]) # NoRow
  <2>1. due[t] \in 0..NoDate
      BY <1>4, TasksAssumption
  <2>2. QED
      BY <2>1 DEF NewTask, TaskRow, Status, NoRow
<1>6. task' \in TaskTable /\ \A t \in Tasks : task[t] # NoRow => task'[t] # NoRow
    BY <1>1, <1>4, <1>5 DEF TablesOK, TaskTable
<1>7. engagement' \in EngagementRow
  <2>1. r.row.version + 1 \in Nat
      BY <1>2 DEF ApplyRequest, EngagementRow
  <2>2. QED
      BY <1>1, <2>1 DEF TablesOK, EngagementRow, CommitApply
<1>8. TablesOK' /\ lock' = lock
    BY <1>1, <1>3, <1>6, <1>7 DEF TablesOK, CommitApply
<1>9. req' = [req EXCEPT ![w] = Idle]
    BY DEF CommitApply, Finish
<1>10. QED
    BY <1>6, <1>8, <1>9, StepType, IdleRequest

LEMMA RequestStepType ==
    ASSUME TypeInv, NEW w \in Workers, RequestStep(w)
    PROVE  TypeInv'
<1>1. TablesOK /\ req \in [Workers -> Requests] /\ req[w] \in Requests /\ HasRows(req[w])
    BY TypeOKSplit DEF TypeInv
<1>2. ASSUME req' = [req EXCEPT ![w] = Idle], UNCHANGED <<tables, workflowTables>>
      PROVE  TypeInv'
    BY <1>2, ReadType, IdleRequest
<1>3. CASE CheckBlockers(w)
  <2> DEFINE after == [tasks |-> "overdue", overdue |-> "documents", documents |-> "lock"]
             r == [req[w] EXCEPT !.at = after[@]]
  <2>1. req[w] \in ReviewRequest /\ req[w].at \in {"tasks", "overdue", "documents"}
      BY <1>1, <1>3, RequestKinds DEF CheckBlockers
  <2>2. after[req[w].at] \in {"overdue", "documents", "lock"}
      BY <2>1
  <2>3. r \in ReviewRequest /\ r.at # "commit"
      BY <2>1, <2>2 DEF ReviewRequest
  <2>4. r \in Requests /\ HasRows(r)
      BY <2>3 DEF Requests, WorkflowRequest, ReviewRequest, HasRows, ReviewOps
  <2>5. /\ \/ req' = [req EXCEPT ![w] = r]
           \/ req' = [req EXCEPT ![w] = Idle]
        /\ UNCHANGED <<tables, workflowTables>>
      BY <1>1, <1>3 DEF CheckBlockers, Finish
  <2>6. QED
      BY <2>4, <2>5, <1>2, ReadType
<1>4. CASE ReadLock(w)
  <2> DEFINE r == [req[w] EXCEPT !.at = IF lock = NoLock THEN "insert" ELSE "commit", !.lock = lock]
  <2>1. req[w] \in ReviewRequest
      BY <1>1, <1>4, RequestKinds DEF ReadLock
  <2>2. r \in ReviewRequest /\ (r.at = "commit" => lock # NoLock)
    <3>1. req[w].at = "lock" /\ ~req[w].inserted /\ lock \in LockRow \cup {NoLock}
        BY <1>1, <1>4, <2>1 DEF ReadLock, ReviewRequest, TablesOK
    <3>2. CASE lock = NoLock
        BY <2>1, <3>1, <3>2 DEF ReviewRequest
    <3>3. CASE lock # NoLock
        BY <2>1, <3>1, <3>3 DEF ReviewRequest
    <3>4. QED
        BY <3>2, <3>3
  <2>3. r \in Requests /\ HasRows(r)
      BY <2>2 DEF Requests, WorkflowRequest, ReviewRequest, HasRows, ReviewOps
  <2>4. req' = [req EXCEPT ![w] = r] /\ UNCHANGED <<tables, workflowTables>>
      BY <1>1, <1>4 DEF ReadLock
  <2>5. QED
      BY <2>3, <2>4, ReadType
<1>5. CASE InsertLock(w)
  <2> DEFINE r == [req[w] EXCEPT !.at = "commit", !.lock = OpenLock, !.inserted = TRUE]
  <2>1. req[w] \in ReviewRequest
      BY <1>1, <1>5, RequestKinds DEF InsertLock
  <2>2. OpenLock \in LockRow /\ OpenLock # NoLock
      BY DEF OpenLock, LockRow, NoLock
  <2>3. r \in ReviewRequest /\ r.inserted
      BY <2>1, <2>2 DEF ReviewRequest
  <2>4. r \in Requests /\ HasRows(r)
      BY <2>3 DEF Requests, WorkflowRequest, ReviewRequest, HasRows, ReviewOps
  <2>5. /\ \/ req' = [req EXCEPT ![w] = r]
           \/ req' = [req EXCEPT ![w] = Idle]
        /\ UNCHANGED <<tables, workflowTables>>
      BY <1>1, <1>5 DEF InsertLock, Finish
  <2>6. QED
      BY <2>4, <2>5, <1>2, ReadType
<1>6. CASE FinishView(w)
    BY <1>2, <1>6 DEF FinishView, Finish
<1>7. CASE RefuseReopen(w)
    BY <1>2, <1>7 DEF RefuseReopen, Finish
<1>8. CASE CommitUpdate(w)
  <2>1. req[w].row.version + 1 \in Nat
    <3>1. req[w] \in UpdateRequest
        BY <1>1, <1>8, RequestKinds DEF CommitUpdate
    <3>2. QED
        BY <3>1 DEF UpdateRequest, EngagementRow
  <2>2. engagement' \in EngagementRow
      BY <1>1, <1>8, <2>1 DEF TablesOK, EngagementRow, CommitUpdate
  <2>3. TablesOK' /\ task' = task /\ lock' = lock
      BY <1>1, <1>8, <2>2 DEF TablesOK, CommitUpdate
  <2>4. req' = [req EXCEPT ![w] = Idle]
      BY <1>8 DEF CommitUpdate, Finish
  <2>5. QED
      BY <2>3, <2>4, StepType, IdleRequest
<1>9. CASE CheckNotApplied(w)
  <2> DEFINE r == [req[w] EXCEPT !.at = "commit"]
  <2>1. req[w] \in ApplyRequest
      BY <1>1, <1>9, RequestKinds DEF CheckNotApplied
  <2>2. r \in Requests /\ HasRows(r)
      BY <2>1 DEF Requests, WorkflowRequest, ApplyRequest, HasRows, ReviewOps
  <2>3. /\ \/ req' = [req EXCEPT ![w] = r]
           \/ req' = [req EXCEPT ![w] = Idle]
        /\ UNCHANGED <<tables, workflowTables>>
      BY <1>1, <1>9 DEF CheckNotApplied, Finish
  <2>4. QED
      BY <2>2, <2>3, <1>2, ReadType
<1>10. CASE FailApply(w)
    BY <1>2, <1>10 DEF FailApply, Finish
<1>11. QED
    BY <1>3, <1>4, <1>5, <1>6, <1>7, <1>8, <1>9, <1>10, CommitReviewType, CommitApplyType
    DEF RequestStep

LEMMA TypeInvInit == Init => TypeInv
<1> SUFFICES ASSUME Init PROVE TypeInv
    OBVIOUS
<1>1. \A w \in Workers : req[w] = Idle
    BY DEF Init
<1>2. QED
    BY <1>1, TypeInit, IdleRequest DEF TypeInv

LEMMA TypeInvStep == TypeInv /\ [Next]_vars => TypeInv'
<1> SUFFICES ASSUME TypeInv, [Next]_vars PROVE TypeInv'
    OBVIOUS
<1>1. TablesOK /\ req \in [Workers -> Requests]
    BY TypeOKSplit DEF TypeInv
<1>2. CASE UNCHANGED vars
  <2>1. TablesOK' /\ req' = req
      BY <1>1, <1>2 DEF vars, TablesOK
  <2>2. \A w \in Workers : HasRows(req[w])'
      BY <1>2 DEF TypeInv, HasRows, vars
  <2>3. QED
      BY <1>1, <2>1, <2>2, TypeOKNext DEF TypeInv
<1>3. CASE DayPasses /\ UNCHANGED workflowTables
  <2>1. TablesOK' /\ req' = req
      BY <1>1, <1>3 DEF DayPasses, TablesOK, workflowTables
  <2>2. \A w \in Workers : HasRows(req[w])'
      BY <1>3 DEF TypeInv, HasRows, DayPasses, workflowTables
  <2>3. QED
      BY <1>1, <2>1, <2>2, TypeOKNext DEF TypeInv
<1>4. QED
    BY <1>2, <1>3, TaskArrivalType, TaskStepType, ArrivalType, RequestStepType
    DEF Next, TaskNext

\* Every row the database can hold and every request in flight has the shape
\* its table and its handler give it, for any number of threads and rows.
THEOREM TypeCorrect == Spec => []WorkflowTypeOK
<1>1. Init => TypeInv
    BY TypeInvInit
<1>2. TypeInv /\ [Next]_vars => TypeInv'
    BY TypeInvStep
<1>3. TypeInv => WorkflowTypeOK
    BY DEF TypeInv
<1>4. QED
    BY <1>1, <1>2, <1>3, PTL DEF Spec

-----------------------------------------------------------------------------
(* How a step changes the requests: worker w gets the request req'[w], and *)
(* the others keep theirs.                                                 *)


TaskOps == BoardOps \cup {"IDLE"}

LEMMA TaskStepShape ==
    ASSUME TypeInv, NEW w \in Workers, TaskRequestArrives(w) \/ TaskRequestStep(w)
    PROVE  req'[w].op \in TaskOps /\ OthersKeep(w) /\ (stale => stale')
<1>1. req \in [Workers -> Requests] /\ req[w] \in Requests
    BY TypeOKSplit DEF TypeInv
<1>2. stale => stale'
    BY DEF TaskRequestArrives, TaskRequestStep, TransitionTask, ConfigureTask, CreateDependency,
           DeadlineScan, ReadDependencies, ReadParent, CommitTransition, CommitConfigure,
           WalkDependency, CommitDependency, CommitScan, tables
<1>3. OthersKeep(w)
    BY <1>1 DEF OthersKeep, Begin, Finish, TaskRequestArrives, TaskRequestStep, TransitionTask,
           ConfigureTask, CreateDependency,
           DeadlineScan, ReadDependencies, ReadParent, CommitTransition, CommitConfigure,
           WalkDependency, CommitDependency, CommitScan
<1>4. CASE TaskRequestArrives(w)
  <2>1. ASSUME NEW r, Begin(w, r), r.op \in TaskOps
        PROVE  req'[w].op \in TaskOps
      BY <1>1, <2>1 DEF Begin
  <2>2. ASSUME NEW t \in Tasks, NEW to \in Status, TransitionTask(w, t, to)
        PROVE  req'[w].op \in TaskOps
      BY <2>1, <2>2 DEF TransitionTask, TaskOps, BoardOps
  <2>3. ASSUME NEW t \in Tasks, NEW due \in Due, ConfigureTask(w, t, due)
        PROVE  req'[w].op \in TaskOps
      BY <2>1, <2>3 DEF ConfigureTask, TaskOps, BoardOps
  <2>4. ASSUME NEW t \in Tasks, NEW on \in Tasks, CreateDependency(w, t, on)
        PROVE  req'[w].op \in TaskOps
      BY <2>1, <2>4 DEF CreateDependency, TaskOps, BoardOps
  <2>5. ASSUME DeadlineScan(w)
        PROVE  req'[w].op \in TaskOps
      BY <2>1, <2>5 DEF DeadlineScan, TaskOps, BoardOps
  <2>6. QED
      BY <1>2, <1>3, <1>4, <2>2, <2>3, <2>4, <2>5 DEF TaskRequestArrives
<1>5. CASE TaskRequestStep(w)
  <2>1. CASE req' = [req EXCEPT ![w] = Idle]
      BY <1>1, <1>2, <1>3, <2>1 DEF Idle, TaskOps, BoardOps
  <2>2. CASE ReadDependencies(w)
    <3>1. req[w] \in TransitionRequest
        BY <1>1, <2>2, RequestKinds DEF ReadDependencies
    <3>2. QED
        BY <1>1, <1>2, <1>3, <2>2, <3>1 DEF ReadDependencies, TransitionRequest, TaskOps, BoardOps
  <2>3. ASSUME NEW d \in Tasks, ReadParent(w, d), req' # [req EXCEPT ![w] = Idle]
        PROVE  req'[w].op \in TaskOps
    <3>1. req[w] \in TransitionRequest
        BY <1>1, <2>3, RequestKinds DEF ReadParent
    <3>2. QED
        BY <1>1, <2>3, <3>1 DEF ReadParent, Finish, TransitionRequest, TaskOps, BoardOps
  <2>4. ASSUME NEW c \in Tasks, WalkDependency(w, c), req' # [req EXCEPT ![w] = Idle]
        PROVE  req'[w].op \in TaskOps
    <3>1. req[w] \in DependencyRequest
        BY <1>1, <2>4, RequestKinds DEF WalkDependency
    <3>2. QED
        BY <1>1, <2>4, <3>1 DEF WalkDependency, Finish, DependencyRequest, TaskOps, BoardOps
  <2>5. QED
      BY <1>2, <1>3, <1>5, <2>1, <2>2, <2>3, <2>4
      DEF TaskRequestStep, CommitTransition, CommitConfigure, CommitDependency, CommitScan, Finish
<1>6. QED
    BY <1>2, <1>3, <1>4, <1>5

-----------------------------------------------------------------------------
(* One uncommitted lock row at a time.                                     *)

ReadyInv == TypeInv /\ LockInsertIsExclusive

LEMMA KeepsExclusion ==
    ASSUME LockInsertIsExclusive, NEW w \in Workers, OthersKeep(w), lock' = lock,
           HoldsInsert(w)' => HoldsInsert(w)
    PROVE  LockInsertIsExclusive'
    BY DEF LockInsertIsExclusive, HoldsInsert, OthersKeep

LEMMA ExclusionStep ==
    ASSUME ReadyInv, NEW w \in Workers, RequestArrives(w) \/ RequestStep(w)
    PROVE  LockInsertIsExclusive' /\ OthersKeep(w)
<1>1. req \in [Workers -> Requests] /\ req[w] \in Requests /\ HasRows(req[w])
    BY TypeOKSplit DEF ReadyInv, TypeInv
<1>2. OthersKeep(w)
    BY <1>1 DEF OthersKeep, RequestArrives, RequestStep, Begin, Finish, StartReview, StartView,
           StartUpdate, StartApply, CheckBlockers, ReadLock, InsertLock, FinishView, RefuseReopen,
           CommitReview, CommitUpdate, CheckNotApplied, CommitApply, FailApply
<1>3. ASSUME lock' = lock, req'[w] = Idle
      PROVE  LockInsertIsExclusive'
    BY <1>2, <1>3, KeepsExclusion DEF ReadyInv, HoldsInsert, Idle, ReviewOps
<1>4. CASE RequestArrives(w)
  <2>1. ~HoldsInsert(w)' /\ lock' = lock
    <3>1. ASSUME NEW r, Begin(w, r), r.inserted = FALSE \/ r.op \in {"UPDATE", "APPLY"}
          PROVE  ~HoldsInsert(w)'
        BY <1>1, <3>1 DEF Begin, HoldsInsert, ReviewOps
    <3>2. QED
        BY <1>4, <3>1
        DEF RequestArrives, StartReview, StartView, StartUpdate, StartApply, workflowTables
  <2>2. QED
      BY <1>2, <2>1, KeepsExclusion DEF ReadyInv
<1>5. CASE CheckBlockers(w) \/ ReadLock(w)
  <2>1. req[w] \in ReviewRequest /\ lock' = lock
      BY <1>1, <1>5, RequestKinds DEF CheckBlockers, ReadLock, workflowTables
  <2>2. req'[w] = Idle \/ ~HoldsInsert(w)'
      BY <1>1, <1>5, <2>1 DEF CheckBlockers, ReadLock, Finish, HoldsInsert, ReviewRequest
  <2>3. QED
      BY <1>2, <1>3, <2>1, <2>2, KeepsExclusion DEF ReadyInv
<1>6. CASE CheckNotApplied(w)
  <2>1. req[w] \in ApplyRequest /\ lock' = lock
      BY <1>1, <1>6, RequestKinds DEF CheckNotApplied, workflowTables
  <2>2. req'[w] = Idle \/ ~HoldsInsert(w)'
      BY <1>1, <1>6, <2>1 DEF CheckNotApplied, Finish, HoldsInsert, ApplyRequest, ReviewOps
  <2>3. QED
      BY <1>2, <1>3, <2>1, <2>2, KeepsExclusion DEF ReadyInv
<1>7. CASE InsertLock(w)
  <2>1. lock' = lock /\ \A v \in Workers : ~HoldsInsert(v)
      BY <1>7 DEF InsertLock, workflowTables
  <2>2. \A v \in Workers : v # w => ~HoldsInsert(v)'
      BY <1>2, <2>1 DEF OthersKeep, HoldsInsert
  <2>3. CASE lock = NoLock
      BY <1>2, <2>1, <2>2, <2>3 DEF LockInsertIsExclusive, HoldsInsert
  <2>4. CASE lock # NoLock
    <3>1. req' = [req EXCEPT ![w] = Idle]
        BY <1>7, <2>4 DEF InsertLock, Finish
    <3>2. QED
        BY <1>2, <1>1, <1>3, <2>1, <3>1
  <2>5. QED
      BY <2>3, <2>4
<1>8. CASE CommitReview(w)
  <2>1. req'[w] = Idle
      BY <1>1, <1>8 DEF CommitReview, Finish
  <2>2. ASSUME NEW v \in Workers, v # w
        PROVE  ~HoldsInsert(v)
    <3>1. SUFFICES ASSUME HoldsInsert(v) PROVE FALSE
        OBVIOUS
    <3>2. lock = NoLock /\ ~HoldsInsert(w)
        BY <2>2, <3>1 DEF ReadyInv, LockInsertIsExclusive
    <3>3. QED
        BY <1>1, <1>8, <3>2 DEF CommitReview, HoldsInsert, HasRows
  <2>3. \A v \in Workers : ~HoldsInsert(v)'
      BY <1>2, <2>1, <2>2 DEF OthersKeep, HoldsInsert, Idle, ReviewOps
  <2>4. QED
      BY <1>2, <2>3 DEF LockInsertIsExclusive, HoldsInsert
<1>9. CASE \/ FinishView(w) \/ RefuseReopen(w) \/ CommitUpdate(w) \/ CommitApply(w) \/ FailApply(w)
  <2>1. lock' = lock /\ req' = [req EXCEPT ![w] = Idle]
      BY <1>9 DEF FinishView, RefuseReopen, CommitUpdate, CommitApply, FailApply, Finish,
                  workflowTables
  <2>2. QED
      BY <1>2, <1>1, <1>3, <2>1
<1>10. QED
    BY <1>2, <1>4, <1>5, <1>6, <1>7, <1>8, <1>9 DEF RequestStep

LEMMA ReadyStep == ReadyInv /\ [Next]_vars => ReadyInv'
<1> SUFFICES ASSUME ReadyInv, [Next]_vars PROVE ReadyInv'
    OBVIOUS
<1>1. TypeInv'
    BY TypeInvStep DEF ReadyInv
<1>2. LockInsertIsExclusive'
  <2>1. CASE UNCHANGED vars \/ (DayPasses /\ UNCHANGED workflowTables)
    <3>1. req' = req /\ lock' = lock
        BY <2>1 DEF vars, DayPasses, workflowTables
    <3>2. QED
        BY <3>1 DEF ReadyInv, LockInsertIsExclusive, HoldsInsert
  <2>2. ASSUME NEW w \in Workers, TaskRequestArrives(w) \/ TaskRequestStep(w),
               UNCHANGED workflowTables
        PROVE  LockInsertIsExclusive'
    <3>1. req'[w].op \in TaskOps /\ OthersKeep(w)
        BY <2>2, TaskStepShape DEF ReadyInv
    <3>2. ~HoldsInsert(w)' /\ lock' = lock
        BY <2>2, <3>1 DEF HoldsInsert, TaskOps, BoardOps, ReviewOps, workflowTables
    <3>3. QED
        BY <3>1, <3>2, KeepsExclusion DEF ReadyInv
  <2>3. QED
      BY <2>1, <2>2, ExclusionStep DEF Next, TaskNext
<1>3. QED
    BY <1>1, <1>2 DEF ReadyInv

LEMMA ReadyInit == Init => ReadyInv
<1> SUFFICES ASSUME Init PROVE ReadyInv
    OBVIOUS
<1>1. \A w \in Workers : req[w] = Idle
    BY DEF Init
<1>2. LockInsertIsExclusive
    BY <1>1 DEF LockInsertIsExclusive, HoldsInsert, Idle, ReviewOps
<1>3. QED
    BY <1>2, TypeInvInit DEF ReadyInv

\* However many first reviews and views overlap, one of them at most holds a
\* lock row that is not committed, and only while there is no committed one.
THEOREM LockExclusive == Spec => []LockInsertIsExclusive
<1>1. ReadyInv => LockInsertIsExclusive
    BY DEF ReadyInv
<1>2. QED
    BY <1>1, ReadyInit, ReadyStep, PTL DEF Spec

-----------------------------------------------------------------------------
(* Status and lock agree as long as no commit was stale.                   *)

WorkflowOps == ReviewOps \cup {"VIEW", "UPDATE", "APPLY"}

\* What a request knows of the engagement it loaded: its copy is an earlier
\* version or the committed row; a review was taken up from a status it may
\* start from; and if the row is still the committed one, so is the lock.
Knows(r) ==
    /\ r.row.version <= engagement.version
    /\ r.row.version = engagement.version => r.row = engagement
    /\ r.op \in ReviewOps =>
          /\ r.row.status \in From[r.op]
          /\ r.at = "commit" /\ ~r.inserted /\ r.row = engagement => r.lock = lock

FreshInv ==
    ~stale =>
        /\ engagement.status = "CLOSED" <=> lock.state = "LOCKED"
        /\ \A w \in Workers : req[w].op \in WorkflowOps => Knows(req[w])

\* Once the engagement has a later version, no copy of it is current.
LEMMA NewVersion ==
    ASSUME TypeInv, NEW r \in Requests, r.op \in WorkflowOps, Knows(r),
           engagement' \in EngagementRow, engagement'.version > engagement.version
    PROVE  Knows(r)'
<1>1. r.row \in EngagementRow /\ engagement \in EngagementRow
    BY RequestKinds
    DEF WorkflowOps, ReviewRequest, UpdateRequest, ApplyRequest, TypeInv, WorkflowTypeOK
<1>2. r.row.version <= engagement.version /\ r.row.version \in Nat /\ engagement.version \in Nat
      /\ engagement'.version \in Nat
    BY <1>1 DEF Knows, EngagementRow
<1>3. r.row.version < engagement'.version
    BY <1>2
<1>4. r.row # engagement'
    BY <1>2, <1>3
<1>5. QED
    BY <1>2, <1>3, <1>4 DEF Knows

\* A step that commits nothing to the engagement or the lock.
LEMMA KeepsFresh ==
    ASSUME FreshInv, NEW w \in Workers, OthersKeep(w), engagement' = engagement, lock' = lock,
           stale => stale', ~stale => (req'[w].op \in WorkflowOps => Knows(req'[w]))
    PROVE  FreshInv'
<1>1. ASSUME ~stale, NEW v \in Workers, req'[v].op \in WorkflowOps
      PROVE  Knows(req'[v])
    BY <1>1 DEF FreshInv, OthersKeep
<1>2. \A v \in Workers : ~stale /\ req'[v].op \in WorkflowOps => Knows(req[v])'
    BY <1>1 DEF Knows
<1>3. QED
    BY <1>2 DEF FreshInv

\* A fresh step that commits a new version and ends its request.
LEMMA CommitsFresh ==
    ASSUME TypeInv, FreshInv, NEW w \in Workers, OthersKeep(w), req'[w] = Idle, stale => stale',
           engagement' \in EngagementRow,
           ~stale' => /\ engagement'.version > engagement.version
                      /\ engagement'.status = "CLOSED" <=> lock'.state = "LOCKED"
    PROVE  FreshInv'
<1>1. ASSUME ~stale', NEW v \in Workers, req'[v].op \in WorkflowOps
      PROVE  Knows(req[v])'
  <2>1. v # w /\ req'[v] = req[v]
      BY <1>1 DEF OthersKeep, Idle, WorkflowOps, ReviewOps
  <2>2. req[v] \in Requests /\ Knows(req[v])
      BY <1>1, <2>1, TypeOKSplit DEF FreshInv, TypeInv
  <2>3. \A r \in Requests : r.op \in WorkflowOps /\ Knows(r) => Knows(r)'
      BY <1>1, NewVersion
  <2>4. QED
      BY <1>1, <2>1, <2>2, <2>3 DEF Knows
<1>2. QED
    BY <1>1 DEF FreshInv

LEMMA FreshArrival ==
    ASSUME ReadyInv, FreshInv, NEW w \in Workers, RequestArrives(w)
    PROVE  FreshInv'
<1>1. req \in [Workers -> Requests] /\ engagement \in EngagementRow
    BY TypeOKSplit DEF ReadyInv, TypeInv, TablesOK
<1>2. OthersKeep(w)
    BY ExclusionStep
<1>3. engagement' = engagement /\ lock' = lock /\ stale' = stale
    BY DEF RequestArrives, StartReview, StartView, StartUpdate, StartApply, tables, workflowTables
<1>4. ASSUME NEW r, Begin(w, r), r.row = engagement,
             r.op \in ReviewOps => engagement.status \in From[r.op] /\ r.at # "commit"
      PROVE  req'[w].op \in WorkflowOps => Knows(req'[w])
  <2>1. req'[w] = r
      BY <1>1, <1>4 DEF Begin
  <2>2. engagement.version <= engagement.version
      BY <1>1 DEF EngagementRow
  <2>3. QED
      BY <1>4, <2>1, <2>2 DEF Knows
<1>5. req'[w].op \in WorkflowOps => Knows(req'[w])
  <2>1. ASSUME NEW op \in ReviewOps, StartReview(w, op)
        PROVE  req'[w].op \in WorkflowOps => Knows(req'[w])
      BY <1>4, <2>1 DEF StartReview
  <2>2. CASE StartView(w)
      BY <1>4, <2>2 DEF StartView, ReviewOps
  <2>3. CASE StartUpdate(w)
      BY <1>4, <2>3 DEF StartUpdate, ReviewOps
  <2>4. ASSUME NEW p \in Templates, StartApply(w, p)
        PROVE  req'[w].op \in WorkflowOps => Knows(req'[w])
      BY <1>4, <2>4 DEF StartApply, ReviewOps
  <2>5. QED
      BY <2>1, <2>2, <2>3, <2>4 DEF RequestArrives
<1>6. QED
    BY <1>2, <1>3, <1>5, KeepsFresh

LEMMA FreshCommitReview ==
    ASSUME ReadyInv, FreshInv, NEW w \in Workers, CommitReview(w)
    PROVE  FreshInv'
<1> DEFINE r == req[w]
           kept == IF r.inserted THEN OpenLock ELSE lock
           left == LockAfter(r.op, r.lock)
<1>1. req \in [Workers -> Requests] /\ engagement \in EngagementRow /\ HasRows(r)
    BY TypeOKSplit DEF ReadyInv, TypeInv, TablesOK
<1>2. r \in ReviewRequest /\ r.op \in ReviewOps /\ r.at = "commit"
    BY <1>1, RequestKinds DEF CommitReview
<1>3. OthersKeep(w) /\ req'[w] = Idle /\ (stale => stale')
    BY <1>1, ExclusionStep DEF RequestStep, CommitReview, Finish
<1>4. engagement' \in EngagementRow
    BY CommitReviewType DEF ReadyInv, TypeInv, WorkflowTypeOK
<1>5. ASSUME ~stale'
      PROVE  /\ engagement'.version > engagement.version
             /\ engagement'.status = "CLOSED" <=> lock'.state = "LOCKED"
  <2>1. ~stale /\ r.row = engagement
      BY <1>5 DEF CommitReview
  <2>2. Knows(r) /\ (engagement.status = "CLOSED" <=> lock.state = "LOCKED")
      BY <1>2, <2>1 DEF FreshInv, WorkflowOps
  <2>3. engagement.status \in From[r.op]
      BY <1>2, <2>1, <2>2 DEF Knows
  <2>4. r.lock = kept
      BY <1>2, <2>1, <2>2 DEF Knows, ReviewRequest
  <2>5. lock'.state = left.state
      BY <2>4 DEF CommitReview, Column
  <2>6. engagement'.status = To[r.op] /\ engagement'.version = engagement.version + 1
      BY <2>1 DEF CommitReview
  <2>7. engagement'.version > engagement.version
      BY <1>1, <2>6 DEF EngagementRow
  <2>8. CASE r.op \in {"CLOSE", "REOPEN"}
      BY <2>5, <2>6, <2>7, <2>8 DEF LockAfter, To
  <2>9. CASE r.op \in {"SUBMIT", "APPROVE"}
    <3>1. engagement.status # "CLOSED" /\ engagement'.status # "CLOSED"
        BY <2>3, <2>6, <2>9 DEF From, To
    <3>2. kept.state # "LOCKED"
        BY <2>2, <3>1 DEF OpenLock
    <3>3. left = r.lock
        BY <2>9 DEF LockAfter
    <3>4. QED
        BY <2>4, <2>5, <2>7, <3>1, <3>2, <3>3
  <2>10. QED
      BY <1>2, <2>8, <2>9 DEF ReviewOps
<1>6. QED
    BY <1>3, <1>4, <1>5, CommitsFresh DEF ReadyInv

LEMMA FreshRequestStep ==
    ASSUME ReadyInv, FreshInv, NEW w \in Workers, RequestStep(w)
    PROVE  FreshInv'
<1>1. /\ req \in [Workers -> Requests] /\ req[w] \in Requests
      /\ engagement \in EngagementRow /\ HasRows(req[w])
    BY TypeOKSplit DEF ReadyInv, TypeInv, TablesOK
<1>2. OthersKeep(w)
    BY ExclusionStep
<1>3. ASSUME req' = [req EXCEPT ![w] = Idle], UNCHANGED <<tables, workflowTables>>
      PROVE  FreshInv'
  <2>1. req'[w].op \notin WorkflowOps
      BY <1>1, <1>3 DEF Idle, WorkflowOps, ReviewOps
  <2>2. QED
      BY <1>2, <1>3, <2>1, KeepsFresh DEF tables, workflowTables
<1>4. CASE CheckBlockers(w) \/ ReadLock(w) \/ InsertLock(w)
  <2>1. CASE req' = [req EXCEPT ![w] = Idle]
      BY <1>3, <1>4, <2>1 DEF CheckBlockers, ReadLock, InsertLock
  <2>2. CASE req' # [req EXCEPT ![w] = Idle]
    <3>1. req[w] \in ReviewRequest /\ engagement' = engagement /\ lock' = lock /\ stale' = stale
        BY <1>1, <1>4, RequestKinds DEF CheckBlockers, ReadLock, InsertLock, tables, workflowTables
    <3>2. /\ req'[w].op = req[w].op /\ req'[w].row = req[w].row
          /\ req'[w].at = "commit" /\ ~req'[w].inserted => req'[w].lock = lock
      <4>1. CASE CheckBlockers(w)
          BY <1>1, <2>2, <3>1, <4>1 DEF CheckBlockers, Finish, ReviewRequest
      <4>2. CASE ReadLock(w)
          BY <1>1, <3>1, <4>2 DEF ReadLock, ReviewRequest
      <4>3. CASE InsertLock(w)
          BY <1>1, <2>2, <3>1, <4>3 DEF InsertLock, Finish, ReviewRequest
      <4>4. QED
          BY <1>4, <4>1, <4>2, <4>3
    <3>3. ~stale => (req'[w].op \in WorkflowOps => Knows(req'[w]))
        BY <3>2 DEF FreshInv, Knows
    <3>4. QED
        BY <1>2, <3>1, <3>3, KeepsFresh
  <2>3. QED
      BY <2>1, <2>2
<1>5. CASE CheckNotApplied(w)
  <2>1. CASE req' = [req EXCEPT ![w] = Idle]
      BY <1>3, <1>5, <2>1 DEF CheckNotApplied
  <2>2. CASE req' # [req EXCEPT ![w] = Idle]
    <3>1. req[w] \in ApplyRequest /\ engagement' = engagement /\ lock' = lock /\ stale' = stale
        BY <1>1, <1>5, RequestKinds DEF CheckNotApplied, tables, workflowTables
    <3>2. req'[w].op = "APPLY" /\ req'[w].row = req[w].row
        BY <1>1, <1>5, <2>2, <3>1 DEF CheckNotApplied, Finish, ApplyRequest
    <3>3. ~stale => Knows(req'[w])
        BY <1>5, <3>2 DEF FreshInv, Knows, CheckNotApplied, WorkflowOps, ReviewOps
    <3>4. QED
        BY <1>2, <3>1, <3>3, KeepsFresh
  <2>3. QED
      BY <2>1, <2>2
<1>6. CASE CommitUpdate(w) \/ CommitApply(w)
  <2>1. req' = [req EXCEPT ![w] = Idle] /\ (stale => stale') /\ lock' = lock
      BY <1>6 DEF CommitUpdate, CommitApply, Finish
  <2>2. engagement' \in EngagementRow
      BY RequestStepType DEF ReadyInv, TypeInv, WorkflowTypeOK
  <2>3. ASSUME ~stale'
        PROVE  /\ engagement'.version > engagement.version
               /\ engagement'.status = "CLOSED" <=> lock'.state = "LOCKED"
    <3>1. ~stale /\ req[w].row = engagement
        BY <1>6, <2>3 DEF CommitUpdate, CommitApply
    <3>2. engagement'.status = engagement.status /\ engagement'.version = engagement.version + 1
        BY <1>1, <1>6, <3>1 DEF CommitUpdate, CommitApply, EngagementRow
    <3>3. QED
        BY <1>1, <2>1, <3>1, <3>2 DEF FreshInv, EngagementRow
  <2>4. QED
      BY <1>1, <1>2, <2>1, <2>2, <2>3, CommitsFresh DEF ReadyInv
<1>7. CASE FinishView(w) \/ RefuseReopen(w) \/ FailApply(w)
    BY <1>3, <1>7 DEF FinishView, RefuseReopen, FailApply, Finish
<1>8. QED
    BY <1>4, <1>5, <1>6, <1>7, FreshCommitReview DEF RequestStep

LEMMA FreshStep == ReadyInv /\ FreshInv /\ [Next]_vars => FreshInv'
<1> SUFFICES ASSUME ReadyInv, FreshInv, [Next]_vars PROVE FreshInv'
    OBVIOUS
<1>1. CASE UNCHANGED vars \/ (DayPasses /\ UNCHANGED workflowTables)
  <2>1. req' = req /\ lock' = lock /\ engagement' = engagement /\ stale' = stale
      BY <1>1 DEF vars, DayPasses, workflowTables
  <2>2. QED
      BY <2>1 DEF FreshInv, Knows
<1>2. ASSUME NEW w \in Workers, TaskRequestArrives(w) \/ TaskRequestStep(w),
             UNCHANGED workflowTables
      PROVE  FreshInv'
  <2>1. req'[w].op \in TaskOps /\ OthersKeep(w) /\ (stale => stale')
      BY <1>2, TaskStepShape DEF ReadyInv
  <2>2. engagement' = engagement /\ lock' = lock /\ req'[w].op \notin WorkflowOps
      BY <1>2, <2>1 DEF workflowTables, TaskOps, BoardOps, WorkflowOps, ReviewOps
  <2>3. QED
      BY <2>1, <2>2, KeepsFresh
<1>3. QED
    BY <1>1, <1>2, FreshArrival, FreshRequestStep DEF Next, TaskNext

LEMMA FreshInit == Init => FreshInv
    BY DEF Init, FreshInv, Idle, WorkflowOps, ReviewOps, NoLock

\* As long as no commit rested on a row replaced since it was read, an
\* engagement is closed exactly when its lock row is locked, for any number of
\* threads and however their statements interleave.
THEOREM ClosedExactlyWhenLocked == Spec => []ClosedIsLocked
<1>1. FreshInv => ClosedIsLocked
    BY DEF FreshInv, ClosedIsLocked
<1>2. QED
    BY <1>1, ReadyInit, FreshInit, ReadyStep, FreshStep, PTL DEF Spec


-----------------------------------------------------------------------------
(* The action trail.                                                       *)

\* The status and the revision that the first i actions of the trail leave.
StatusAfter(i) == IF i = 0 THEN "DRAFT" ELSE trail[i].to
RevisionAfter(i) == IF i = 0 THEN 1 ELSE trail[i].revision

\* The trail and the tables fit together; and the lock row appears no later
\* than the first action, so that a request that inserts one starts the trail.
TrailFits ==
    /\ \A i \in DOMAIN trail :
          /\ trail[i].from = StatusAfter(i - 1)
          /\ trail[i].revision = RevisionAfter(i - 1)
                                 + (IF trail[i].action = "REOPEN" THEN 1 ELSE 0)
    /\ engagement.status = StatusAfter(Len(trail))
    /\ lock # NoLock => lock.revision = RevisionAfter(Len(trail))

TrailInv == /\ ~stale => TrailFits
            /\ lock = NoLock => trail = <<>>

LEMMA TrailReplaysIs == TrailReplays <=> (~stale => TrailFits)
    BY DEF TrailReplays, TrailFits, StatusAfter, RevisionAfter

LEMMA StaleStays ==
    ASSUME TypeInv, [Next]_vars
    PROVE  stale => stale'
<1>1. ASSUME NEW w \in Workers, RequestArrives(w) \/ RequestStep(w)
      PROVE  stale => stale'
    BY <1>1 DEF RequestArrives, RequestStep, StartReview, StartView, StartUpdate, StartApply,
           CheckBlockers, ReadLock, InsertLock, FinishView, RefuseReopen, CommitReview,
           CommitUpdate, CheckNotApplied, CommitApply, FailApply, tables
<1>2. QED
    BY <1>1, TaskStepShape DEF Next, TaskNext, DayPasses, vars

\* Of all steps, only the commit of a review writes the trail, the lock row or
\* the status of the engagement.
LEMMA OnlyReviewsMove ==
    ASSUME TypeInv, [Next]_vars, \A w \in Workers : ~CommitReview(w)
    PROVE  trail' = trail /\ lock' = lock /\ engagement'.status = engagement.status
<1>1. engagement \in EngagementRow
    BY DEF TypeInv, WorkflowTypeOK
<1>2. ASSUME NEW w \in Workers, RequestArrives(w)
      PROVE  trail' = trail /\ lock' = lock /\ engagement'.status = engagement.status
    BY <1>2 DEF RequestArrives, StartReview, StartView, StartUpdate, StartApply, workflowTables
<1>3. ASSUME NEW w \in Workers, RequestStep(w)
      PROVE  trail' = trail /\ lock' = lock /\ engagement'.status = engagement.status
  <2>1. CASE CommitUpdate(w) \/ CommitApply(w)
      BY <1>1, <2>1 DEF CommitUpdate, CommitApply, EngagementRow
  <2>2. CASE \/ CheckBlockers(w) \/ ReadLock(w) \/ InsertLock(w) \/ FinishView(w) \/ RefuseReopen(w)
             \/ CheckNotApplied(w) \/ FailApply(w)
      BY <2>2 DEF CheckBlockers, ReadLock, InsertLock, FinishView, RefuseReopen, CheckNotApplied,
                  FailApply, workflowTables
  <2>3. QED
      BY <1>3, <2>1, <2>2 DEF RequestStep
<1>4. QED
    BY <1>2, <1>3 DEF Next, vars, workflowTables

\* What the commit of a review does to a trail that fitted until then.
LEMMA TrailCommit ==
    ASSUME ReadyInv, FreshInv, TrailInv, NEW w \in Workers, CommitReview(w)
    PROVE  TrailInv'
<1> DEFINE r == req[w]
           kept == IF r.inserted THEN OpenLock ELSE lock
           left == LockAfter(r.op, r.lock)
           new == [action |-> r.op, from |-> r.row.status, to |-> To[r.op],
                   revision |-> left.revision]
           n == Len(trail)
<1>1. /\ req \in [Workers -> Requests] /\ engagement \in EngagementRow /\ HasRows(r)
      /\ trail \in Seq(TrailRow) /\ lock \in LockRow \cup {NoLock} /\ n \in Nat
    BY TypeOKSplit DEF ReadyInv, TypeInv, TablesOK
<1>2. r \in ReviewRequest /\ r.op \in ReviewOps /\ r.at = "commit"
    BY <1>1, RequestKinds DEF CommitReview
<1>3. r.lock \in LockRow
    BY <1>2 DEF ReviewRequest
<1>4. lock' # NoLock
  <2>1. WorkflowTypeOK' /\ lock'.state = Column(kept.state, r.lock.state, left.state)
      BY CommitReviewType DEF CommitReview, ReadyInv, TypeInv
  <2>2. kept.state \in {"OPEN", "LOCKED"}
      BY <1>1, <1>2 DEF OpenLock, LockRow, HasRows
  <2>3. left.state \in {"OPEN", "LOCKED"}
      BY <1>2, <1>3, LockAfterType DEF LockRow
  <2>4. lock'.state \in {"OPEN", "LOCKED"}
      BY <2>1, <2>2, <2>3 DEF Column
  <2>5. QED
      BY <2>4 DEF NoLock
<1>5. ASSUME ~stale'
      PROVE  TrailFits'
  <2>1. ~stale /\ r.row = engagement
      BY <1>5 DEF CommitReview
  <2>2. Knows(r) /\ TrailFits
      BY <1>2, <2>1 DEF FreshInv, TrailInv, WorkflowOps
  <2>3. r.lock = kept
      BY <1>2, <2>1, <2>2 DEF Knows, ReviewRequest
  <2>4. r.lock.revision = RevisionAfter(n)
    <3>1. CASE r.inserted
      <4>1. lock = NoLock
          BY <1>2, <3>1 DEF ReadyInv, LockInsertIsExclusive, HoldsInsert
      <4>2. trail = <<>> /\ n = 0
          BY <4>1 DEF TrailInv
      <4>3. QED
          BY <2>3, <3>1, <4>2 DEF OpenLock, RevisionAfter
    <3>2. CASE ~r.inserted
      <4>1. lock # NoLock /\ kept = lock
          BY <1>1, <1>2, <3>2 DEF HasRows
      <4>2. QED
          BY <2>2, <2>3, <4>1 DEF TrailFits
    <3>3. QED
        BY <3>1, <3>2
  <2>5. left.revision = RevisionAfter(n) + (IF r.op = "REOPEN" THEN 1 ELSE 0)
      BY <1>2, <1>3, <2>4 DEF LockAfter, ReviewOps, LockRow
  <2>6. r.row.status = StatusAfter(n)
      BY <2>1, <2>2 DEF TrailFits
  <2>7. trail' = Append(trail, new) /\ engagement'.status = new.to
      BY DEF CommitReview, Recorded
  <2>8. lock'.revision = new.revision
      BY <2>3 DEF CommitReview, Column
  <2>9. /\ new.action = r.op /\ new.from = StatusAfter(n)
        /\ new.revision = RevisionAfter(n) + (IF new.action = "REOPEN" THEN 1 ELSE 0)
      BY <2>5, <2>6
  <2> HIDE DEF new
  <2>k. PICK k \in Nat : k = n
      BY <1>1
  <2> HIDE DEF n
  <2>10. /\ Len(trail') = k + 1 /\ DOMAIN trail' = 1..(k + 1) /\ trail'[k + 1] = new
         /\ DOMAIN trail = 1..k /\ \A i \in 1..k : trail'[i] = trail[i]
      BY <1>1, <2>7, <2>k DEF n
  <2>11. /\ \A i \in 0..k : StatusAfter(i)' = StatusAfter(i) /\ RevisionAfter(i)' = RevisionAfter(i)
         /\ StatusAfter(k + 1)' = new.to /\ RevisionAfter(k + 1)' = new.revision
    <3>1. ASSUME NEW i \in 0..k
          PROVE  StatusAfter(i)' = StatusAfter(i) /\ RevisionAfter(i)' = RevisionAfter(i)
        BY <2>10, <3>1 DEF StatusAfter, RevisionAfter
    <3>2. k + 1 # 0
        OBVIOUS
    <3>3. StatusAfter(k + 1)' = new.to /\ RevisionAfter(k + 1)' = new.revision
        BY <2>10, <3>2 DEF StatusAfter, RevisionAfter
    <3>4. QED
        BY <3>1, <3>3
  <2>12. ASSUME NEW i \in DOMAIN trail'
         PROVE  /\ trail'[i].from = StatusAfter(i - 1)'
                /\ trail'[i].revision = RevisionAfter(i - 1)'
                                        + (IF trail'[i].action = "REOPEN" THEN 1 ELSE 0)
    <3>1. CASE i = k + 1
        BY <2>k, <2>9, <2>10, <2>11, <3>1
    <3>2. CASE i # k + 1
      <4>1. i \in 1..k /\ i - 1 \in 0..k /\ i \in DOMAIN trail
          BY <2>10, <2>12, <3>2
      <4>2. QED
          BY <2>2, <2>10, <2>11, <4>1 DEF TrailFits
    <3>3. QED
        BY <3>1, <3>2
  <2>13. /\ (engagement.status = StatusAfter(Len(trail)))'
         /\ (lock.revision = RevisionAfter(Len(trail)))'
      BY <2>7, <2>8, <2>10, <2>11
  <2>14. QED
      BY <2>12, <2>13 DEF TrailFits, StatusAfter, RevisionAfter
<1>6. QED
    BY <1>4, <1>5 DEF TrailInv

LEMMA TrailStep == ReadyInv /\ FreshInv /\ TrailInv /\ [Next]_vars => TrailInv'
<1> SUFFICES ASSUME ReadyInv, FreshInv, TrailInv, [Next]_vars PROVE TrailInv'
    OBVIOUS
<1>1. CASE \A w \in Workers : ~CommitReview(w)
  <2>1. trail' = trail /\ lock' = lock /\ engagement'.status = engagement.status /\ (stale => stale')
      BY <1>1, OnlyReviewsMove, StaleStays DEF ReadyInv
  <2>2. QED
      BY <2>1 DEF TrailInv, TrailFits, StatusAfter, RevisionAfter
<1>2. QED
    BY <1>1, TrailCommit

LEMMA TrailInit == Init => TrailInv
<1> SUFFICES ASSUME Init PROVE TrailInv
    OBVIOUS
<1>1. trail = <<>> /\ lock = NoLock /\ engagement.status = "DRAFT" /\ Len(trail) = 0
    BY DEF Init
<1>2. QED
    BY <1>1 DEF TrailInv, TrailFits, StatusAfter

\* As long as no commit was stale, replaying the action trail from the start
\* gives the status of the engagement and the revision of the lock row: no
\* overlap of reviews, views and templates leaves an action out or counts a
\* reopening twice.
THEOREM TrailIsHistory == Spec => []TrailReplays
<1>1. TrailInv => TrailReplays
    BY TrailReplaysIs DEF TrailInv
<1>2. QED
    BY <1>1, ReadyInit, FreshInit, TrailInit, ReadyStep, FreshStep, TrailStep, PTL DEF Spec


-----------------------------------------------------------------------------
(* Causes, also with stale commits.                                        *)

\* Some recorded action led to status s; some reopening opened revision n.
Led(s) == \E j \in DOMAIN trail : trail[j].to = s
Opened(n) == \E i \in DOMAIN trail : trail[i].action = "REOPEN" /\ trail[i].revision = n

\* However old the rows are that a request has loaded, the trail shows how
\* they came about.
KnowsCauses(r) ==
    /\ r.row.status # "DRAFT" => Led(r.row.status)
    /\ r.op \in ReviewOps => \A n \in 2..r.lock.revision : Opened(n)

CauseInv ==
    /\ ActionsHaveCauses
    /\ engagement.status # "DRAFT" => Led(engagement.status)
    /\ \A w \in Workers : req[w].op \in WorkflowOps => KnowsCauses(req[w])

\* Where a request other than a committing review has its rows from.
LEMMA RowsHeld ==
    ASSUME TypeInv, NEW w \in Workers, RequestArrives(w) \/ RequestStep(w), ~CommitReview(w),
           req'[w].op \in WorkflowOps
    PROVE  /\ \/ req'[w].row = engagement
              \/ req[w].op \in WorkflowOps /\ req'[w].row = req[w].row
           /\ req'[w].op \in ReviewOps =>
                 \/ req'[w].lock \in {NoLock, OpenLock, lock}
                 \/ req[w].op \in ReviewOps /\ req'[w].lock = req[w].lock
<1>1. req \in [Workers -> Requests] /\ req[w] \in Requests
    BY TypeOKSplit DEF TypeInv
<1>2. req' # [req EXCEPT ![w] = Idle]
    BY <1>1 DEF Idle, WorkflowOps, ReviewOps
<1>3. CASE RequestArrives(w)
  <2>1. ASSUME NEW r, Begin(w, r), r.row = engagement, r.op \in {"UPDATE", "APPLY"} \/ r.lock = NoLock
        PROVE  /\ req'[w].row = engagement
               /\ req'[w].op \in ReviewOps => req'[w].lock = NoLock
      BY <1>1, <2>1 DEF Begin, ReviewOps
  <2>2. QED
      BY <1>3, <2>1 DEF RequestArrives, StartReview, StartView, StartUpdate, StartApply
<1>4. CASE CheckBlockers(w) \/ ReadLock(w) \/ InsertLock(w)
  <2>1. req[w] \in ReviewRequest /\ req[w].op \in WorkflowOps
      BY <1>1, <1>4, RequestKinds DEF CheckBlockers, ReadLock, InsertLock, WorkflowOps
  <2>2. req'[w].row = req[w].row /\ req'[w].op = req[w].op
      BY <1>1, <1>2, <1>4, <2>1 DEF CheckBlockers, ReadLock, InsertLock, Finish, ReviewRequest
  <2>3. req'[w].lock \in {OpenLock, lock} \/ req'[w].lock = req[w].lock
    <3>1. CASE CheckBlockers(w)
        BY <1>1, <1>2, <3>1, <2>1 DEF CheckBlockers, Finish, ReviewRequest
    <3>2. CASE ReadLock(w)
        BY <1>1, <3>2, <2>1 DEF ReadLock, ReviewRequest
    <3>3. CASE InsertLock(w)
        BY <1>1, <1>2, <3>3, <2>1 DEF InsertLock, Finish, ReviewRequest
    <3>4. QED
        BY <1>4, <3>1, <3>2, <3>3
  <2>4. QED
      BY <2>1, <2>2, <2>3
<1>5. CASE CheckNotApplied(w)
  <2>1. req[w] \in ApplyRequest /\ req[w].op = "APPLY"
      BY <1>1, <1>5, RequestKinds DEF CheckNotApplied
  <2>2. req'[w].row = req[w].row /\ req'[w].op = "APPLY"
      BY <1>1, <1>2, <1>5, <2>1 DEF CheckNotApplied, Finish, ApplyRequest
  <2>3. QED
      BY <2>1, <2>2 DEF WorkflowOps, ReviewOps
<1>6. QED
    BY <1>2, <1>3, <1>4, <1>5 DEF RequestStep, FinishView, RefuseReopen, CommitUpdate, CommitApply,
       FailApply, Finish

\* A step that records no action.
LEMMA CausesKept ==
    ASSUME ReadyInv, CauseInv, [Next]_vars, \A w \in Workers : ~CommitReview(w)
    PROVE  CauseInv'
<1>1. trail' = trail /\ lock' = lock /\ engagement'.status = engagement.status
    BY OnlyReviewsMove DEF ReadyInv
<1>2. ActionsHaveCauses' /\ (engagement.status # "DRAFT" => Led(engagement.status))'
    BY <1>1 DEF CauseInv, ActionsHaveCauses, Led
<1>3. ASSUME NEW v \in Workers, req'[v].op \in WorkflowOps
      PROVE  KnowsCauses(req'[v])
  <2>1. CASE req'[v] = req[v]
      BY <1>3, <2>1 DEF CauseInv
  <2>2. ASSUME NEW w \in Workers, TaskRequestArrives(w) \/ TaskRequestStep(w)
        PROVE  KnowsCauses(req'[v])
    <3>1. req'[w].op \in TaskOps /\ OthersKeep(w)
        BY <2>2, TaskStepShape DEF ReadyInv
    <3>2. v # w
        BY <1>3, <3>1 DEF WorkflowOps, TaskOps, BoardOps, ReviewOps
    <3>3. QED
        BY <2>1, <3>1, <3>2 DEF OthersKeep
  <2>3. ASSUME NEW w \in Workers, RequestArrives(w) \/ RequestStep(w)
        PROVE  KnowsCauses(req'[v])
    <3>1. OthersKeep(w)
        BY <2>3, ExclusionStep
    <3>2. CASE v # w
        BY <2>1, <3>1, <3>2 DEF OthersKeep
    <3>3. CASE v = w
      <4>1. /\ \/ req'[v].row = engagement
               \/ req[v].op \in WorkflowOps /\ req'[v].row = req[v].row
            /\ req'[v].op \in ReviewOps =>
                  \/ req'[v].lock \in {NoLock, OpenLock, lock}
                  \/ req[v].op \in ReviewOps /\ req'[v].lock = req[v].lock
          BY <1>3, <2>3, <3>3, RowsHeld DEF ReadyInv
      <4>2. req'[v].row.status # "DRAFT" => Led(req'[v].row.status)
          BY <4>1 DEF CauseInv, KnowsCauses
      <4>3. ASSUME req'[v].op \in ReviewOps, NEW n \in 2..req'[v].lock.revision
            PROVE  Opened(n)
        <5>1. CASE req'[v].lock = NoLock \/ req'[v].lock = OpenLock
            BY <4>3, <5>1 DEF NoLock, OpenLock
        <5>2. CASE req'[v].lock = lock
            BY <4>3, <5>2 DEF CauseInv, ActionsHaveCauses, Opened
        <5>3. CASE req[v].op \in ReviewOps /\ req'[v].lock = req[v].lock
            BY <4>3, <5>3 DEF CauseInv, KnowsCauses, WorkflowOps
        <5>4. QED
            BY <4>1, <4>3, <5>1, <5>2, <5>3
      <4>4. QED
          BY <4>2, <4>3 DEF KnowsCauses
    <3>4. QED
        BY <3>2, <3>3
  <2>4. CASE req' = req
      BY <2>1, <2>4
  <2>5. QED
      BY <2>2, <2>3, <2>4 DEF Next, TaskNext, DayPasses, vars
<1>4. \A v \in Workers : (req[v].op \in WorkflowOps => KnowsCauses(req[v]))'
    BY <1>1, <1>3 DEF KnowsCauses, Led, Opened
<1>5. QED
    BY <1>2, <1>4 DEF CauseInv

\* The commit of a review records the status it leads to, and, when it
\* reopens, the revision it opens.
LEMMA CausesCommitted ==
    ASSUME ReadyInv, CauseInv, NEW w \in Workers, CommitReview(w)
    PROVE  CauseInv'
<1> DEFINE r == req[w]
           kept == IF r.inserted THEN OpenLock ELSE lock
           left == LockAfter(r.op, r.lock)
           new == [action |-> r.op, from |-> r.row.status, to |-> To[r.op],
                   revision |-> left.revision]
<1>1. /\ req \in [Workers -> Requests] /\ engagement \in EngagementRow /\ HasRows(r)
      /\ trail \in Seq(TrailRow) /\ lock \in LockRow \cup {NoLock} /\ Len(trail) \in Nat
    BY TypeOKSplit DEF ReadyInv, TypeInv, TablesOK
<1>2. r \in ReviewRequest /\ r.op \in ReviewOps /\ r.at = "commit"
    BY <1>1, RequestKinds DEF CommitReview
<1>3. r.lock \in LockRow /\ KnowsCauses(r)
    BY <1>2 DEF ReviewRequest, CauseInv, WorkflowOps
<1>4. OthersKeep(w) /\ req'[w] = Idle
    BY <1>1, ExclusionStep DEF RequestStep, CommitReview, Finish
<1>5. trail' = Append(trail, new) /\ engagement'.status = new.to
      /\ lock'.revision = Column(kept.revision, r.lock.revision, left.revision)
    BY DEF CommitReview, Recorded
<1>6. /\ new.action = r.op /\ new.from = r.row.status /\ new.revision = left.revision
      /\ r.op = "REOPEN" => left.revision = r.lock.revision + 1
      /\ r.op # "REOPEN" => left.revision = r.lock.revision
      /\ left.revision \in Nat /\ r.lock.revision \in Nat
    BY <1>2, <1>3 DEF LockAfter, ReviewOps, LockRow
<1> HIDE DEF new, left, kept
<1>k. PICK k \in Nat : k = Len(trail)
    BY <1>1
<1>7. /\ DOMAIN trail' = 1..(k + 1) /\ trail'[k + 1] = new
      /\ DOMAIN trail = 1..k /\ \A i \in 1..k : trail'[i] = trail[i]
    BY <1>1, <1>5, <1>k
<1>8. /\ \A s : Led(s) => Led(s)'
      /\ \A n : Opened(n) => Opened(n)'
    BY <1>7 DEF Led, Opened
<1>9. (engagement.status # "DRAFT" => Led(engagement.status))'
    BY <1>5, <1>7 DEF Led
<1>10. \A n \in 2..left.revision : Opened(n)'
  <2>1. ASSUME NEW n \in 2..r.lock.revision
        PROVE  Opened(n)'
      BY <1>2, <1>3, <1>8 DEF KnowsCauses
  <2>2. ASSUME NEW n \in Nat, r.op = "REOPEN", n = r.lock.revision + 1
        PROVE  Opened(n)'
      BY <1>6, <1>7, <2>2 DEF Opened
  <2>3. ASSUME NEW n \in 2..left.revision
        PROVE  n \in Nat /\ (n \in 2..r.lock.revision \/ (r.op = "REOPEN" /\ n = r.lock.revision + 1))
      BY <1>6, <2>3
  <2>4. QED
      BY <2>1, <2>2, <2>3
<1>11. ASSUME NEW n \in 2..(lock'.revision)
       PROVE  Opened(n)'
  <2>1. CASE lock'.revision = left.revision
      BY <1>10, <1>11, <2>1
  <2>2. CASE lock'.revision = kept.revision
    <3>1. CASE r.inserted
        BY <1>11, <2>2, <3>1 DEF kept, OpenLock
    <3>2. CASE ~r.inserted
        BY <1>8, <1>11, <2>2, <3>2 DEF kept, CauseInv, ActionsHaveCauses, Opened
    <3>3. QED
        BY <3>1, <3>2
  <2>3. QED
      BY <1>5, <2>1, <2>2 DEF Column
<1>12. ASSUME NEW i \in DOMAIN trail', trail'[i].from # "DRAFT"
       PROVE  \E j \in 1..(i - 1) : trail'[j].to = trail'[i].from
  <2>1. CASE i = k + 1
    <3>1. Led(r.row.status)
        BY <1>3, <1>6, <1>7, <1>12, <2>1 DEF KnowsCauses
    <3>2. PICK j \in 1..k : trail[j].to = r.row.status
        BY <1>7, <3>1 DEF Led
    <3>3. j \in 1..(i - 1)
        BY <2>1
    <3>4. QED
        BY <1>6, <1>7, <2>1, <3>2, <3>3
  <2>2. CASE i # k + 1
    <3>1. i \in 1..k /\ trail'[i] = trail[i]
        BY <1>7, <1>12, <2>2
    <3>2. PICK j \in 1..(i - 1) : trail[j].to = trail[i].from
        BY <1>7, <1>12, <3>1 DEF CauseInv, ActionsHaveCauses
    <3>3. trail'[j] = trail[j]
        BY <1>7, <3>1
    <3>4. QED
        BY <3>1, <3>2, <3>3
  <2>3. QED
      BY <2>1, <2>2
<1>13. ActionsHaveCauses'
    BY <1>11, <1>12 DEF ActionsHaveCauses, Opened
<1>14. ASSUME NEW v \in Workers, req'[v].op \in WorkflowOps
       PROVE  KnowsCauses(req[v])'
  <2>1. req'[v] = req[v] /\ KnowsCauses(req[v])
      BY <1>4, <1>14 DEF OthersKeep, Idle, WorkflowOps, ReviewOps, CauseInv
  <2>2. (req[v].row.status # "DRAFT" => Led(req[v].row.status))'
      BY <1>7, <2>1 DEF KnowsCauses, Led
  <2>3. ASSUME req'[v].op \in ReviewOps, NEW n \in 2..req'[v].lock.revision
        PROVE  Opened(n)'
      BY <1>8, <2>1, <2>3 DEF KnowsCauses
  <2>4. QED
      BY <2>2, <2>3 DEF KnowsCauses
<1>15. QED
    BY <1>9, <1>13, <1>14 DEF CauseInv

LEMMA CauseInit == Init => CauseInv
<1> SUFFICES ASSUME Init PROVE CauseInv
    OBVIOUS
<1>1. trail = <<>> /\ lock.revision = 0 /\ engagement.status = "DRAFT"
      /\ \A w \in Workers : req[w] = Idle
    BY DEF Init, NoLock
<1>2. QED
    BY <1>1 DEF CauseInv, ActionsHaveCauses, Idle, WorkflowOps, ReviewOps

\* Whatever the interleaving, and however stale the rows the commits rest on:
\* every recorded action starts from DRAFT or from a status an earlier action
\* led to, and no revision number is skipped.
THEOREM NothingWithoutCause == Spec => []ActionsHaveCauses
<1>1. ReadyInv /\ CauseInv /\ [Next]_vars => CauseInv'
    BY CausesKept, CausesCommitted
<1>2. CauseInv => ActionsHaveCauses
    BY DEF CauseInv
<1>3. QED
    BY <1>1, <1>2, ReadyInit, CauseInit, ReadyStep, PTL DEF Spec


-----------------------------------------------------------------------------
(* The fresh executions implement ClosureProtocol.                         *)

\* What a review has found stays true as long as the engagement row it loaded
\* is the committed one: no required task was open when it had counted them,
\* no required document pending when it had counted those.
Found(r) ==
    r.op \in {"SUBMIT", "APPROVE", "CLOSE"} /\ r.row = engagement =>
        /\ r.at # "tasks" => IncompleteTasks = {}
        /\ r.at \in {"lock", "insert", "commit"} => PendingDocuments = {}

\* A move of a task was one of the allowed ones for the row it loaded.
Allowed(r) == r.op = "TRANSITION" => r.to \in AllowedTransitions[r.row.status]

FoundInv ==
    /\ ~stale
    /\ engagement.status # "IN_PROGRESS"
    /\ \A w \in Workers : Found(req[w]) /\ Allowed(req[w])

\* No move leads out of COMPLETED.
LEMMA CompletedStays == AllowedTransitions["COMPLETED"] = {}
    BY DEF AllowedTransitions, Status

\* A step of the board opens no required task, as long as it is fresh.
LEMMA BoardStaysDone ==
    ASSUME TypeInv, FoundInv, NEW w \in Workers, TaskRequestArrives(w) \/ TaskRequestStep(w),
           ~stale', IncompleteTasks = {}
    PROVE  IncompleteTasks' = {}
<1>1. task \in TaskTable /\ req[w] \in Requests /\ HasRows(req[w]) /\ Allowed(req[w])
    BY TypeOKSplit DEF TypeInv, TablesOK, FoundInv
<1>2. ASSUME NEW t \in Tasks, task[t] # NoRow
      PROVE  task[t] \in TaskRow
    BY <1>1, <1>2 DEF TaskTable
<1>3. \A t \in RequiredTasks : t \in Tasks /\ (task[t] # NoRow => task[t].status = "COMPLETED")
    BY WorkflowAssumption DEF IncompleteTasks
<1>4. ASSUME \A t \in Tasks : /\ task'[t] # NoRow => task[t] # NoRow
                              /\ task[t].status = "COMPLETED" => task'[t].status = "COMPLETED"
      PROVE  IncompleteTasks' = {}
    BY <1>3, <1>4 DEF IncompleteTasks
<1>5. CASE task' = task
    BY <1>4, <1>5
<1>6. CASE CommitTransition(w)
  <2>1. req[w] \in TransitionRequest /\ req[w].task \in Tasks /\ task[req[w].task] # NoRow
      BY <1>1, <1>6, RequestKinds DEF CommitTransition, TransitionRequest, HasRows
  <2>2. task[req[w].task] = req[w].row
      BY <1>6 DEF CommitTransition
  <2>3. req[w].row.status # "COMPLETED"
      BY <1>1, <1>6, CompletedStays DEF Allowed, CommitTransition
  <2>4. \A t \in Tasks : t # req[w].task => task'[t] = task[t]
      BY <1>1, <1>6 DEF CommitTransition, TaskTable
  <2>5. QED
      BY <1>4, <2>1, <2>2, <2>3, <2>4
<1>7. CASE CommitConfigure(w)
  <2>1. req[w] \in ConfigureRequest /\ req[w].task \in Tasks /\ task[req[w].task] \in TaskRow
      BY <1>1, <1>2, <1>7, RequestKinds DEF CommitConfigure, ConfigureRequest, HasRows
  <2>2. task'[req[w].task].status = task[req[w].task].status
      BY <1>1, <1>7, <2>1 DEF CommitConfigure, TaskTable, TaskRow
  <2>3. \A t \in Tasks : t # req[w].task => task'[t] = task[t]
      BY <1>1, <1>7 DEF CommitConfigure, TaskTable
  <2>4. task[req[w].task] # NoRow
      BY <2>1 DEF TaskRow, NoRow, Status
  <2>5. QED
      BY <1>4, <2>2, <2>3, <2>4
<1>8. CASE CommitScan(w)
  <2>1. req[w] \in ScanRequest
      BY <1>1, <1>8, RequestKinds DEF CommitScan
  <2>2. ASSUME NEW t \in Tasks
        PROVE  /\ task'[t] # NoRow => task[t] # NoRow
               /\ task[t].status = "COMPLETED" => task'[t].status = "COMPLETED"
    <3>1. CASE Escalates(req[w], t)
      <4>1. task[t] # NoRow /\ task[t] \in TaskRow
          BY <1>1, <1>2, <1>8, <3>1 DEF Escalates, HasRows, CommitScan
      <4>2. task'[t] = [task[t] EXCEPT !.escalation = "OVERDUE",
                                       !.version = req[w].rows[t].version + 1]
          BY <1>8, <3>1 DEF CommitScan
      <4>3. task'[t].status = task[t].status
          BY <4>1, <4>2 DEF TaskRow
      <4>4. QED
          BY <4>1, <4>3
    <3>2. CASE ~Escalates(req[w], t)
        BY <1>8, <3>2 DEF CommitScan
    <3>3. QED
        BY <3>1, <3>2
  <2>3. QED
      BY <1>4, <2>2
<1>9. QED
    BY <1>5, <1>6, <1>7, <1>8
    DEF TaskRequestArrives, TaskRequestStep, TransitionTask, ConfigureTask, CreateDependency,
        DeadlineScan, ReadDependencies, ReadParent, WalkDependency, CommitDependency, tables

\* The handlers of the board take up allowed moves only.
LEMMA AllowedStep ==
    ASSUME TypeInv, FoundInv, NEW w \in Workers, TaskRequestArrives(w) \/ TaskRequestStep(w)
    PROVE  Allowed(req'[w])
<1>1. req \in [Workers -> Requests] /\ req[w] \in Requests /\ Allowed(req[w])
    BY TypeOKSplit DEF TypeInv, FoundInv
<1>2. ASSUME NEW r, Begin(w, r), r.op = "TRANSITION" => r.to \in AllowedTransitions[r.row.status]
      PROVE  Allowed(req'[w])
    BY <1>1, <1>2 DEF Begin, Allowed
<1>3. ASSUME req' = [req EXCEPT ![w] = Idle]
      PROVE  Allowed(req'[w])
    BY <1>1, <1>3 DEF Idle, Allowed
<1>4. CASE TaskRequestArrives(w)
  <2>1. ASSUME NEW t \in Tasks, NEW to \in Status, TransitionTask(w, t, to)
        PROVE  Allowed(req'[w])
      BY <1>2, <2>1 DEF TransitionTask
  <2>2. ASSUME NEW t \in Tasks, NEW due \in Due, ConfigureTask(w, t, due)
        PROVE  Allowed(req'[w])
      BY <1>2, <2>2 DEF ConfigureTask
  <2>3. ASSUME NEW t \in Tasks, NEW on \in Tasks, CreateDependency(w, t, on)
        PROVE  Allowed(req'[w])
      BY <1>2, <2>3 DEF CreateDependency
  <2>4. CASE DeadlineScan(w)
      BY <1>2, <2>4 DEF DeadlineScan
  <2>5. QED
      BY <1>4, <2>1, <2>2, <2>3, <2>4 DEF TaskRequestArrives
<1>5. ASSUME ReadDependencies(w) \/ \E d \in Tasks : ReadParent(w, d),
             req' # [req EXCEPT ![w] = Idle]
      PROVE  Allowed(req'[w])
  <2>1. req[w] \in TransitionRequest /\ req[w].op = "TRANSITION"
      BY <1>1, <1>5, RequestKinds DEF ReadDependencies, ReadParent
  <2>2. req'[w].to = req[w].to /\ req'[w].row = req[w].row
      BY <1>1, <1>5, <2>1 DEF ReadDependencies, ReadParent, Finish, TransitionRequest
  <2>3. QED
      BY <1>1, <2>1, <2>2 DEF Allowed
<1>6. ASSUME NEW c \in Tasks, WalkDependency(w, c), req' # [req EXCEPT ![w] = Idle]
      PROVE  Allowed(req'[w])
  <2>1. req[w] \in DependencyRequest /\ req[w].op = "DEPENDENCY"
      BY <1>1, <1>6, RequestKinds DEF WalkDependency
  <2>2. req'[w].op = "DEPENDENCY"
      BY <1>1, <1>6, <2>1 DEF WalkDependency, Finish, DependencyRequest
  <2>3. QED
      BY <2>2 DEF Allowed
<1>7. QED
    BY <1>3, <1>4, <1>5, <1>6
    DEF TaskRequestStep, CommitTransition, CommitConfigure, CommitDependency, CommitScan, Finish

\* The other requests keep what they have found, whatever this one does.
LEMMA OthersFound ==
    ASSUME TypeInv, FreshInv, FoundInv, NEW v \in Workers, req'[v] = req[v],
           engagement' \in EngagementRow,
           \/ engagement' = engagement /\ document' = document
              /\ (IncompleteTasks = {} => IncompleteTasks' = {})
           \/ engagement'.version > engagement.version
    PROVE  Found(req[v])'
<1>1. req[v] \in Requests /\ engagement \in EngagementRow /\ Found(req[v])
    BY TypeOKSplit DEF TypeInv, TablesOK, FoundInv
<1>2. CASE engagement' = engagement /\ document' = document
           /\ (IncompleteTasks = {} => IncompleteTasks' = {})
    BY <1>1, <1>2 DEF Found, PendingDocuments
<1>3. CASE engagement'.version > engagement.version
  <2>1. SUFFICES ASSUME req[v].op \in {"SUBMIT", "APPROVE", "CLOSE"} PROVE req[v].row # engagement'
      BY DEF Found
  <2>2. Knows(req[v]) /\ req[v] \in ReviewRequest
      BY <1>1, <2>1, RequestKinds DEF FreshInv, FoundInv, WorkflowOps, ReviewOps
  <2>3. req[v].row.version <= engagement.version /\ req[v].row \in EngagementRow
      BY <2>2 DEF Knows, ReviewRequest
  <2>4. QED
      BY <1>1, <1>3, <2>3 DEF EngagementRow
<1>4. QED
    BY <1>2, <1>3

\* A review finds what it goes on with.
LEMMA FoundStep ==
    ASSUME ReadyInv, FoundInv, NEW w \in Workers, RequestArrives(w) \/ RequestStep(w)
    PROVE  /\ Allowed(req'[w])
           /\ UNCHANGED <<tables, workflowTables>> => Found(req'[w])
           /\ ~UNCHANGED <<tables, workflowTables>> => req'[w] = Idle
<1>1. req \in [Workers -> Requests] /\ req[w] \in Requests /\ Found(req[w])
    BY TypeOKSplit DEF ReadyInv, TypeInv, FoundInv
<1>2. ASSUME NEW r, Begin(w, r), r.op # "TRANSITION",
             r.op \in {"SUBMIT", "APPROVE", "CLOSE"} => r.at = "tasks"
      PROVE  Found(req'[w]) /\ Allowed(req'[w])
    BY <1>1, <1>2 DEF Begin, Found, Allowed
<1>3. CASE RequestArrives(w)
  <2>1. UNCHANGED <<tables, workflowTables>>
      BY <1>3 DEF RequestArrives, StartReview, StartView, StartUpdate, StartApply
  <2>2. ASSUME NEW op \in ReviewOps, StartReview(w, op)
        PROVE  Found(req'[w]) /\ Allowed(req'[w])
      BY <1>2, <2>2 DEF StartReview, ReviewOps
  <2>3. ASSUME StartView(w)
        PROVE  Found(req'[w]) /\ Allowed(req'[w])
      BY <1>2, <2>3 DEF StartView
  <2>4. ASSUME StartUpdate(w)
        PROVE  Found(req'[w]) /\ Allowed(req'[w])
      BY <1>2, <2>4 DEF StartUpdate
  <2>5. ASSUME NEW p \in Templates, StartApply(w, p)
        PROVE  Found(req'[w]) /\ Allowed(req'[w])
      BY <1>2, <2>5 DEF StartApply
  <2>6. QED
      BY <1>3, <2>1, <2>2, <2>3, <2>4, <2>5 DEF RequestArrives
<1>4. ASSUME req' = [req EXCEPT ![w] = Idle]
      PROVE  req'[w] = Idle /\ Found(req'[w]) /\ Allowed(req'[w])
    BY <1>1, <1>4 DEF Idle, Found, Allowed
<1>5. ASSUME req' # [req EXCEPT ![w] = Idle], CheckBlockers(w)
      PROVE  Found(req'[w]) /\ Allowed(req'[w]) /\ UNCHANGED <<tables, workflowTables>>
  <2>1. req[w] \in ReviewRequest /\ req[w].op \in ReviewOps
        /\ req[w].at \in {"tasks", "overdue", "documents"}
      BY <1>1, <1>5, RequestKinds DEF CheckBlockers
  <2> DEFINE after == [tasks |-> "overdue", overdue |-> "documents", documents |-> "lock"]
  <2>2. /\ req'[w] = [req[w] EXCEPT !.at = after[@]]
        /\ req[w].at = "tasks" => IncompleteTasks = {}
        /\ req[w].at = "documents" => PendingDocuments = {}
      BY <1>1, <1>5, <2>1 DEF CheckBlockers, Finish, ReviewRequest
  <2>3. /\ req'[w].op = req[w].op /\ req'[w].row = req[w].row
        /\ req'[w].at = after[req[w].at]
      BY <2>1, <2>2 DEF ReviewRequest
  <2>4. /\ req'[w].at \in {"lock", "insert", "commit"} => req[w].at = "documents"
        /\ req[w].at = "tasks" \/ req[w].at # "tasks"
      BY <2>1, <2>3
  <2>5. Found(req'[w]) /\ Allowed(req'[w])
      BY <1>1, <2>1, <2>2, <2>3, <2>4 DEF Found, Allowed, ReviewOps
  <2>6. QED
      BY <1>5, <2>5 DEF CheckBlockers
<1>6. ASSUME req' # [req EXCEPT ![w] = Idle], ReadLock(w) \/ InsertLock(w)
      PROVE  Found(req'[w]) /\ Allowed(req'[w]) /\ UNCHANGED <<tables, workflowTables>>
  <2>1. req[w] \in ReviewRequest /\ req[w].op \in ReviewOps \cup {"VIEW"}
        /\ req[w].at \in {"lock", "insert"}
      BY <1>1, <1>6, RequestKinds DEF ReadLock, InsertLock
  <2>2. req'[w].op = req[w].op /\ req'[w].row = req[w].row
    <3>1. CASE ReadLock(w)
        BY <1>1, <3>1, <2>1 DEF ReadLock, ReviewRequest
    <3>2. CASE InsertLock(w)
        BY <1>1, <1>6, <3>2, <2>1 DEF InsertLock, Finish, ReviewRequest
    <3>3. QED
        BY <1>6, <3>1, <3>2
  <2>3. QED
      BY <1>1, <1>6, <2>1, <2>2 DEF Found, Allowed, ReviewOps, ReadLock, InsertLock
<1>7. ASSUME req' # [req EXCEPT ![w] = Idle], CheckNotApplied(w)
      PROVE  Found(req'[w]) /\ Allowed(req'[w]) /\ UNCHANGED <<tables, workflowTables>>
  <2>1. req[w] \in ApplyRequest /\ req[w].op = "APPLY"
      BY <1>1, <1>7, RequestKinds DEF CheckNotApplied
  <2>2. req'[w].op = "APPLY"
      BY <1>1, <1>7, <2>1 DEF CheckNotApplied, Finish, ApplyRequest
  <2>3. QED
      BY <1>7, <2>2 DEF Found, Allowed, CheckNotApplied
<1>8. QED
    BY <1>3, <1>4, <1>5, <1>6, <1>7
    DEF RequestStep, FinishView, RefuseReopen, CommitReview, CommitUpdate, CommitApply, FailApply,
        Finish

LEMMA FoundNext ==
    ReadyInv /\ FreshInv /\ FoundInv /\ [Next /\ ~stale']_vars => FoundInv'
<1> SUFFICES ASSUME ReadyInv, FreshInv, FoundInv, [Next /\ ~stale']_vars PROVE FoundInv'
    OBVIOUS
<1>1. ~stale' /\ WorkflowTypeOK' /\ engagement' \in EngagementRow
  <2>1. WorkflowTypeOK'
      BY TypeInvStep DEF ReadyInv, TypeInv
  <2>2. QED
      BY <2>1 DEF FoundInv, vars, WorkflowTypeOK
<1>2. CASE UNCHANGED vars
    BY <1>2 DEF FoundInv, Found, Allowed, IncompleteTasks, PendingDocuments, vars
<1>3. CASE DayPasses /\ UNCHANGED workflowTables
    BY <1>1, <1>3 DEF FoundInv, Found, Allowed, IncompleteTasks, PendingDocuments, DayPasses,
                      workflowTables
<1>4. ASSUME NEW w \in Workers, TaskRequestArrives(w) \/ TaskRequestStep(w),
             UNCHANGED workflowTables
      PROVE  FoundInv'
  <2>1. req'[w].op \in TaskOps /\ OthersKeep(w) /\ Allowed(req'[w])
      BY <1>4, TaskStepShape, AllowedStep DEF ReadyInv
  <2>2. IncompleteTasks = {} => IncompleteTasks' = {}
      BY <1>1, <1>4, BoardStaysDone DEF ReadyInv
  <2>3. ASSUME NEW v \in Workers
        PROVE  Found(req[v])' /\ Allowed(req[v])'
    <3>1. CASE v = w
        BY <2>1, <3>1 DEF Found, Allowed, TaskOps, BoardOps
    <3>2. CASE v # w
      <4>1. req'[v] = req[v] /\ Allowed(req[v])
          BY <2>1, <3>2 DEF OthersKeep, FoundInv
      <4>2. Found(req[v])'
          BY <1>1, <1>4, <2>2, <4>1, OthersFound DEF ReadyInv, workflowTables
      <4>3. QED
          BY <4>1, <4>2 DEF Allowed
    <3>3. QED
        BY <3>1, <3>2
  <2>4. QED
      BY <1>1, <1>4, <2>3 DEF FoundInv, workflowTables
<1>5. ASSUME NEW w \in Workers, RequestArrives(w) \/ RequestStep(w)
      PROVE  FoundInv'
  <2>1. OthersKeep(w) /\ Allowed(req'[w])
      BY <1>5, ExclusionStep, FoundStep
  <2>2. \/ UNCHANGED <<tables, workflowTables>>
        \/ engagement'.version > engagement.version /\ engagement'.status # "IN_PROGRESS"
           /\ req'[w] = Idle
    <3>1. engagement \in EngagementRow /\ engagement.status # "IN_PROGRESS"
        BY DEF ReadyInv, TypeInv, WorkflowTypeOK, FoundInv
    <3>2. ASSUME CommitReview(w) \/ CommitUpdate(w) \/ CommitApply(w)
          PROVE  engagement'.version > engagement.version /\ engagement'.status # "IN_PROGRESS"
      <4>1. req[w].row = engagement
          BY <1>1, <3>2 DEF CommitReview, CommitUpdate, CommitApply
      <4>2. engagement'.version = engagement.version + 1
          BY <3>1, <3>2, <4>1 DEF CommitReview, CommitUpdate, CommitApply, EngagementRow
      <4>3. engagement'.status # "IN_PROGRESS"
          BY <3>1, <3>2 DEF CommitReview, CommitUpdate, CommitApply, EngagementRow, ReviewOps, To
      <4>4. QED
          BY <3>1, <4>2, <4>3 DEF EngagementRow
    <3>3. CASE UNCHANGED <<tables, workflowTables>>
        BY <3>3
    <3>4. CASE ~UNCHANGED <<tables, workflowTables>>
      <4>1. CommitReview(w) \/ CommitUpdate(w) \/ CommitApply(w)
          BY <1>5, <3>4
          DEF RequestArrives, RequestStep, StartReview, StartView, StartUpdate, StartApply,
              CheckBlockers, ReadLock, InsertLock, FinishView, RefuseReopen, CheckNotApplied,
              FailApply
      <4>2. req'[w] = Idle
          BY <1>5, <3>4, FoundStep
      <4>3. QED
          BY <3>2, <4>1, <4>2
    <3>5. QED
        BY <3>3, <3>4
  <2>3. Found(req[w])'
    <3>1. CASE UNCHANGED <<tables, workflowTables>>
      <4>1. Found(req'[w])
          BY <1>5, <3>1, FoundStep
      <4>2. QED
          BY <3>1, <4>1
          DEF Found, IncompleteTasks, PendingDocuments, tables, workflowTables
    <3>2. CASE req'[w] = Idle
        BY <3>2 DEF Found, Idle
    <3>3. QED
        BY <2>2, <3>1, <3>2
  <2>4. ASSUME NEW v \in Workers, v # w
        PROVE  Found(req[v])' /\ Allowed(req[v])'
    <3>1. req'[v] = req[v] /\ Allowed(req[v])
        BY <2>1, <2>4 DEF OthersKeep, FoundInv
    <3>2. UNCHANGED <<tables, workflowTables>> => IncompleteTasks' = IncompleteTasks
        BY DEF IncompleteTasks, tables
    <3>3. Found(req[v])'
        BY <1>1, <2>2, <3>1, <3>2, OthersFound DEF ReadyInv, workflowTables
    <3>4. QED
        BY <3>1, <3>3 DEF Allowed
  <2>5. engagement'.status # "IN_PROGRESS"
      BY <2>2 DEF FoundInv, workflowTables
  <2>6. QED
      BY <1>1, <2>1, <2>3, <2>4, <2>5 DEF FoundInv, Allowed
<1>6. QED
    BY <1>2, <1>3, <1>4, <1>5 DEF Next, TaskNext

\* A review that commits takes one step of the protocol.
LEMMA ReviewIsProtocolStep ==
    ASSUME ReadyInv, FreshInv, FoundInv, NEW w \in Workers, CommitReview(w), ~stale'
    PROVE  Protocol!ProtocolNext
<1> DEFINE r == req[w]
           kept == IF r.inserted THEN OpenLock ELSE lock
           left == LockAfter(r.op, r.lock)
           revision == IF lock = NoLock THEN 1 ELSE lock.revision
<1>1. /\ req \in [Workers -> Requests] /\ engagement \in EngagementRow /\ HasRows(r)
      /\ lock \in LockRow \cup {NoLock} /\ lock' \in LockRow \cup {NoLock}
    BY TypeOKSplit, CommitReviewType DEF ReadyInv, TypeInv, WorkflowTypeOK
<1>2. r \in ReviewRequest /\ r.op \in ReviewOps /\ r.at = "commit"
    BY <1>1, RequestKinds DEF CommitReview
<1>3. r.row = engagement /\ Knows(r) /\ Found(r)
    BY <1>2 DEF CommitReview, FreshInv, FoundInv, WorkflowOps
<1>4. engagement.status \in From[r.op] /\ engagement.status # "IN_PROGRESS"
    BY <1>2, <1>3 DEF Knows, FoundInv
<1>5. r.lock = kept /\ kept \in LockRow
    BY <1>1, <1>2, <1>3 DEF Knows, ReviewRequest
<1>6. lock' = left
  <2>1. lock' = [state |-> left.state, revision |-> left.revision]
      BY <1>5 DEF CommitReview, Column
  <2>2. left \in LockRow
      BY <1>2, <1>5, LockAfterType
  <2>3. QED
      BY <2>1, <2>2 DEF LockRow
<1>7. revision = kept.revision /\ (lock.state = "LOCKED" <=> kept.state = "LOCKED")
  <2>1. CASE r.inserted
    <3>1. lock = NoLock
        BY <1>2, <2>1 DEF ReadyInv, LockInsertIsExclusive, HoldsInsert
    <3>2. QED
        BY <2>1, <3>1 DEF OpenLock, NoLock
  <2>2. CASE ~r.inserted
    <3>1. lock # NoLock /\ kept = lock
        BY <1>1, <1>2, <2>2 DEF HasRows
    <3>2. QED
        BY <3>1
  <2>3. QED
      BY <2>1, <2>2
<1>8. (IF lock' = NoLock THEN 1 ELSE lock'.revision) = left.revision
  <2>1. left.state # "NO_ROW"
      BY <1>2, <1>5, LockAfterType DEF LockRow
  <2>2. lock' # NoLock
      BY <1>6, <2>1 DEF NoLock
  <2>3. QED
      BY <1>6, <2>2
<1>9. engagement'.status = To[r.op] /\ Outstanding' = Outstanding
    BY DEF CommitReview, Outstanding, IncompleteTasks, PendingDocuments
<1>10. r.op # "REOPEN" => Outstanding = {}
    BY <1>2, <1>3 DEF Found, Outstanding, ReviewOps
<1> HIDE DEF r, left, kept, revision
<1>11. CASE r.op = "SUBMIT"
  <2>1. left = kept
      BY <1>5, <1>11 DEF LockAfter, left
  <2>2. Protocol!Submit
    <3>1. engagement.status \in {"DRAFT", "REOPENED"} /\ engagement'.status = "UNDER_REVIEW"
        BY <1>4, <1>9, <1>11 DEF From, To
    <3>2. (lock'.state = "LOCKED") = (lock.state = "LOCKED")
        BY <1>6, <1>7, <2>1
    <3>3. QED
        BY <1>7, <1>8, <1>9, <1>10, <1>11, <2>1, <3>1, <3>2
        DEF Protocol!Submit, Protocol!Advance, revision
  <2>3. QED
      BY <2>2 DEF Protocol!ProtocolNext
<1>12. CASE r.op = "APPROVE"
  <2>1. left = kept
      BY <1>5, <1>12 DEF LockAfter, left
  <2>2. Protocol!Approve
    <3>1. engagement.status \in {"UNDER_REVIEW"} /\ engagement'.status = "READY_TO_CLOSE"
        BY <1>4, <1>9, <1>12 DEF From, To
    <3>2. (lock'.state = "LOCKED") = (lock.state = "LOCKED")
        BY <1>6, <1>7, <2>1
    <3>3. QED
        BY <1>7, <1>8, <1>9, <1>10, <1>12, <2>1, <3>1, <3>2
        DEF Protocol!Approve, Protocol!Advance, revision
  <2>3. QED
      BY <2>2 DEF Protocol!ProtocolNext
<1>13. CASE r.op = "CLOSE"
  <2>1. left.state = "LOCKED" /\ left.revision = kept.revision
      BY <1>5, <1>13 DEF LockAfter, left
  <2>2. Protocol!Close
    <3>1. engagement.status \in {"READY_TO_CLOSE"} /\ engagement'.status = "CLOSED"
        BY <1>4, <1>9, <1>13 DEF From, To
    <3>2. QED
        BY <1>6, <1>7, <1>8, <1>9, <1>10, <1>13, <2>1, <3>1
        DEF Protocol!Close, Protocol!Advance, revision
  <2>3. QED
      BY <2>2 DEF Protocol!ProtocolNext
<1>14. CASE r.op = "REOPEN"
  <2>1. left.state = "OPEN" /\ left.revision = kept.revision + 1
      BY <1>5, <1>14 DEF LockAfter, left
  <2>2. kept.state = "LOCKED"
      BY <1>5, <1>14 DEF CommitReview, r
  <2>3. Protocol!Reopen
    <3>1. engagement.status \in {"CLOSED"} /\ engagement'.status = "REOPENED"
        BY <1>4, <1>9, <1>14 DEF From, To
    <3>2. (lock'.state = "LOCKED") = FALSE
        BY <1>6, <2>1
    <3>3. QED
        BY <1>7, <1>8, <1>9, <2>1, <2>2, <3>1, <3>2
        DEF Protocol!Reopen, Protocol!Advance, revision
  <2>4. QED
      BY <2>3 DEF Protocol!ProtocolNext
<1>15. QED
    BY <1>2, <1>11, <1>12, <1>13, <1>14 DEF ReviewOps

\* Every other step is work on the board, or none.
LEMMA StepsAreProtocolSteps ==
    ASSUME ReadyInv, FreshInv, FoundInv, [Next /\ ~stale']_vars
    PROVE  [Protocol!ProtocolNext]_Protocol!protocolVars
<1>1. CASE \A w \in Workers : ~CommitReview(w)
  <2>1. lock' = lock /\ engagement'.status = engagement.status
      BY <1>1, OnlyReviewsMove DEF ReadyInv
  <2>2. Outstanding' \in SUBSET (RequiredTasks \cup RequiredDocuments)
      BY DEF Outstanding, IncompleteTasks, PendingDocuments
  <2>3. Protocol!Work
      BY <2>1, <2>2 DEF Protocol!Work
  <2>4. QED
      BY <2>3 DEF Protocol!ProtocolNext
<1>2. ASSUME NEW w \in Workers, CommitReview(w)
      PROVE  Protocol!ProtocolNext
  <2>1. ~stale'
    <3>1. req[w] # Idle
        BY <1>2 DEF CommitReview, Idle, ReviewOps
    <3>2. req' # req
        BY <1>2, <3>1, TypeOKSplit DEF CommitReview, Finish, ReadyInv, TypeInv
    <3>3. QED
        BY <3>2 DEF vars
  <2>2. QED
      BY <1>2, <2>1, ReviewIsProtocolStep
<1>3. QED
    BY <1>1, <1>2

LEMMA InitIsProtocolInit == Init => Protocol!ProtocolInit
<1> SUFFICES ASSUME Init PROVE Protocol!ProtocolInit
    OBVIOUS
<1>1. engagement.status = "DRAFT" /\ lock = NoLock
    BY DEF Init
<1>2. (lock.state = "LOCKED") = FALSE
    BY <1>1 DEF NoLock
<1>3. Outstanding = {}
  <2>1. \A t \in RequiredTasks : task[t] = NoRow
      BY WorkflowAssumption DEF Init
  <2>2. QED
      BY <2>1 DEF Init, Outstanding, IncompleteTasks, PendingDocuments
<1>4. QED
    BY <1>1, <1>2, <1>3 DEF Protocol!ProtocolInit

LEMMA FoundInit == Init => FoundInv
    BY DEF Init, FoundInv, Found, Allowed, Idle

\* The refinement: executions whose commits all rest on current rows amount
\* to indivisible submissions, approvals, closures and reopenings, each taken
\* at a moment with nothing outstanding, although the handlers count tasks,
\* overdue tasks and documents in three statements before they commit.
THEOREM FreshImplementsProtocol == FreshSpec => ImplementsProtocol
<1>1. ReadyInv /\ [Next /\ ~stale']_vars => ReadyInv'
    BY ReadyStep
<1>2. ReadyInv /\ FreshInv /\ [Next /\ ~stale']_vars => FreshInv'
    BY FreshStep
<1>3. ReadyInv /\ FreshInv /\ FoundInv /\ [Next /\ ~stale']_vars => FoundInv'
    BY FoundNext
<1>4. ReadyInv /\ FreshInv /\ FoundInv /\ [Next /\ ~stale']_vars
      => [Protocol!ProtocolNext]_Protocol!protocolVars
    BY StepsAreProtocolSteps
<1>5. QED
    BY <1>1, <1>2, <1>3, <1>4, ReadyInit, FreshInit, FoundInit, InitIsProtocolInit, PTL
    DEF FreshSpec, ImplementsProtocol, Protocol!ProtocolSpec


-----------------------------------------------------------------------------
(* The board inside the workflow: templates fill it, and reviews, views and *)
(* updates run beside it.                                                   *)

\* What the handlers of the workflow do to the requests of the board: nothing.
LEMMA WorkflowRequestsApart ==
    ASSUME ReadyInv, NEW w \in Workers, RequestArrives(w) \/ RequestStep(w)
    PROVE  /\ OthersKeep(w) /\ req' = [v \in Workers |-> req'[v]]
           /\ req'[w].op \notin BoardOps
           /\ UNCHANGED <<dependency, history, today>>
           /\ CommitApply(w) \/ task' = task
<1>1. /\ req \in [Workers -> Requests] /\ req[w] \in Requests
      /\ req' \in [Workers -> Requests]
  <2>1. TypeInv'
      BY ArrivalType, RequestStepType DEF ReadyInv
  <2>2. QED
      BY <2>1, TypeOKSplit DEF ReadyInv, TypeInv, WorkflowTypeOK, Requests
<1>2. UNCHANGED <<dependency, history, today>> /\ (CommitApply(w) \/ task' = task)
    BY DEF RequestArrives, RequestStep, StartReview, StartView, StartUpdate, StartApply,
           CheckBlockers, ReadLock, InsertLock, FinishView, RefuseReopen, CommitReview,
           CommitUpdate, CheckNotApplied, CommitApply, FailApply, tables
<1>3. CASE req'[w] = Idle
    BY <1>1, <1>2, <1>3, ExclusionStep DEF Idle, BoardOps
<1>4. CASE RequestArrives(w)
  <2>1. ASSUME NEW r, Begin(w, r), r.op \in WorkflowOps
        PROVE  req'[w].op \notin BoardOps
      BY <1>1, <2>1 DEF Begin, WorkflowOps, ReviewOps, BoardOps
  <2>2. req'[w].op \notin BoardOps
      BY <1>4, <2>1
      DEF RequestArrives, StartReview, StartView, StartUpdate, StartApply, WorkflowOps
  <2>3. QED
      BY <1>1, <1>2, <2>2, ExclusionStep
<1>5. CASE RequestStep(w) /\ req'[w] # Idle
  <2>1. CASE CheckBlockers(w) \/ ReadLock(w) \/ InsertLock(w)
    <3>1. req[w] \in ReviewRequest /\ req[w].op \in ReviewOps \cup {"VIEW"}
        BY <1>1, <2>1, RequestKinds DEF CheckBlockers, ReadLock, InsertLock
    <3>2. req'[w].op = req[w].op
        BY <1>1, <1>5, <2>1, <3>1 DEF CheckBlockers, ReadLock, InsertLock, Finish, ReviewRequest
    <3>3. QED
        BY <1>1, <1>2, <3>1, <3>2, ExclusionStep DEF ReviewOps, BoardOps
  <2>2. CASE CheckNotApplied(w)
    <3>1. req[w] \in ApplyRequest
        BY <1>1, <2>2, RequestKinds DEF CheckNotApplied
    <3>2. req'[w].op = "APPLY"
        BY <1>1, <1>5, <2>2, <3>1 DEF CheckNotApplied, Finish, ApplyRequest
    <3>3. QED
        BY <1>1, <1>2, <3>2, ExclusionStep DEF BoardOps
  <2>3. QED
      BY <1>1, <1>5, <2>1, <2>2 DEF RequestStep, FinishView, RefuseReopen, CommitReview, CommitUpdate,
         CommitApply, FailApply, Finish
<1>6. QED
    BY <1>3, <1>4, <1>5

\* A template fills ids that have no row yet.
LEMMA TemplateFills ==
    ASSUME ReadyInv, BoardInv, NEW w \in Workers, CommitApply(w)
    PROVE  \A t \in Tasks :
               /\ task[t] # NoRow => task'[t] = task[t]
               /\ task[t] = NoRow /\ task'[t] # NoRow => Chain(task'[t], <<>>)
<1> DEFINE made == Generates[req[w].template]
<1>1. req[w] \in ApplyRequest
    BY TypeOKSplit, RequestKinds DEF ReadyInv, TypeInv, CommitApply
<1>2. PICK due \in [made.tasks -> Due] :
          task' = [t \in Tasks |-> IF t \in made.tasks THEN NewTask(due[t]) ELSE task[t]]
    BY DEF CommitApply
<1>3. \A t \in made.tasks : task[t] = NoRow
    BY DEF CommitApply, Applied
<1>4. \A t \in made.tasks : Chain(NewTask(due[t]), <<>>)
    BY <1>2, TasksAssumption, NewTaskFits
<1>5. QED
    BY <1>2, <1>3, <1>4

\* What a request to the board knows stays so when a template fills it.
LEMMA TemplateBoard ==
    ASSUME ReadyInv, BoardInv, NEW w \in Workers, CommitApply(w)
    PROVE  BoardInv'
<1>1. /\ OthersKeep(w) /\ req' = [v \in Workers |-> req'[v]]
      /\ req'[w].op \notin BoardOps /\ UNCHANGED <<dependency, history, today>>
    BY WorkflowRequestsApart DEF RequestStep
<1>2. task' \in TaskTable /\ stale' \in BOOLEAN /\ (stale => stale')
    BY CommitApplyType DEF ReadyInv, TypeInv, WorkflowTypeOK, CommitApply
<1>3. \A t \in Tasks : task[t] # NoRow => task'[t] = task[t]
    BY TemplateFills
<1>4. BoardOK'
  <2>1. \A t \in Tasks : task'[t] = NoRow => history'[t] = <<>>
      BY <1>1, <1>3 DEF BoardInv, BoardOK
  <2>2. QED
      BY <1>1, <1>2, <2>1 DEF BoardInv, BoardOK
<1>5. ASSUME NEW v \in Workers
      PROVE  GoodRequest(req[v])'
  <2>1. CASE v = w
      BY <1>1, <2>1 DEF GoodRequest, Shaped, RowsExist, Gated, Walked, Cleared, BoardOps
  <2>2. CASE v # w
    <3>1. req'[v] = req[v] /\ GoodRequest(req[v])
        BY <1>1, <2>2 DEF OthersKeep, BoardInv, RequestsOK, FreshBoard, GoodRequest
    <3>2. RowsExist(req[v])'
      <4>1. req[v].op \in {"TRANSITION", "CONFIGURE"} => req[v].task \in Tasks
          BY <3>1 DEF GoodRequest, Shaped, TransitionRequest, ConfigureRequest
      <4>2. QED
          BY <1>3, <3>1, <4>1 DEF GoodRequest, RowsExist
    <3>3. (~stale => Cleared(req[v]))'
      <4>1. SUFFICES ASSUME ~stale', req[v].op = "TRANSITION", req[v].at = "parents",
                            NEW d \in req[v].waitsFor \ req[v].unread
                     PROVE  task'[d].status = "COMPLETED"
          BY <3>1 DEF Cleared
      <4>2. task[d].status = "COMPLETED" /\ d \in Tasks
          BY <1>2, <3>1, <4>1 DEF GoodRequest, Cleared, Shaped, TransitionRequest
      <4>3. QED
          BY <1>3, <4>2 DEF NoRow
    <3>4. QED
        BY <1>1, <3>1, <3>2, <3>3
        DEF GoodRequest, Shaped, Gated, Walked, WalkFacts, DependenciesOf
  <2>3. QED
      BY <2>1, <2>2
<1>6. ASSUME ~stale', NEW t \in Generated'
      PROVE  Chain(task'[t], history'[t])
  <2>1. CASE task[t] = NoRow
      BY <1>1, <1>6, <2>1, TemplateFills DEF Generated, BoardInv, BoardOK
  <2>2. CASE task[t] # NoRow
      BY <1>1, <1>2, <1>3, <1>6, <2>2 DEF Generated, BoardInv, FreshBoard
  <2>3. QED
      BY <2>1, <2>2
<1>7. RequestsOK' /\ FreshBoard'
    BY <1>1, <1>2, <1>5, <1>6 DEF RequestsOK, FreshBoard, GoodRequest, BoardInv
<1>8. QED
    BY <1>4, <1>7 DEF BoardInv

LEMMA BoardNext == ReadyInv /\ BoardInv /\ [Next]_vars => BoardInv'
<1> SUFFICES ASSUME ReadyInv, BoardInv, [Next]_vars PROVE BoardInv'
    OBVIOUS
<1>1. today' \in Nat /\ stale' \in BOOLEAN /\ (stale => stale')
    BY TypeInvStep, StaleStays DEF ReadyInv, TypeInv, WorkflowTypeOK
<1>2. CASE UNCHANGED vars \/ DayPasses
  <2>1. UNCHANGED <<task, dependency, history, req>>
      BY <1>2 DEF vars, DayPasses
  <2>2. QED
      BY <1>1, <2>1, BoardUntouched DEF BoardInv, BoardOK
<1>3. ASSUME NEW w \in Workers, TaskRequestArrives(w) \/ TaskRequestStep(w)
      PROVE  BoardInv'
    BY <1>3, BoardStep
<1>4. ASSUME NEW w \in Workers, RequestArrives(w) \/ RequestStep(w), ~CommitApply(w)
      PROVE  BoardInv'
  <2>1. /\ OthersKeep(w) /\ req' = [v \in Workers |-> req'[v]] /\ req'[w].op \notin BoardOps
        /\ UNCHANGED <<task, dependency, history>>
      BY <1>4, WorkflowRequestsApart
  <2>2. QED
      BY <1>1, <2>1, BoardUntouched DEF OthersKeep, BoardOps
<1>5. QED
    BY <1>2, <1>3, <1>4, TemplateBoard DEF Next, TaskNext

LEMMA WorkflowBoardInit == Init => BoardInv
<1> SUFFICES ASSUME Init PROVE BoardInv
    OBVIOUS
<1>1. \A w \in Workers : req[w] = Idle /\ GoodRequest(req[w])
    BY IdleIsGood DEF Init
<1>2. BoardOK
    BY TypeInit DEF BoardOK, WorkflowTypeOK, Init
<1>3. Generated = {}
    BY DEF Generated, Init
<1>4. QED
    BY <1>1, <1>2, <1>3, NoEdges DEF BoardInv, RequestsOK, FreshBoard, GoodRequest, Init

LEMMA BoardInvHolds == Spec => [](ReadyInv /\ BoardInv)
    BY ReadyInit, WorkflowBoardInit, ReadyStep, BoardNext, PTL DEF Spec

LEMMA WorkflowStepsAreRight ==
    ASSUME ReadyInv, BoardInv, [Next]_vars
    PROVE  FinalStep /\ GateStep
<1>1. CASE \A t \in Generated : task'[t] = task[t]
    BY <1>1 DEF FinalStep, GateStep
<1>2. ASSUME NEW w \in Workers, TaskRequestArrives(w) \/ TaskRequestStep(w)
      PROVE  FinalStep /\ GateStep
    BY <1>2, TerminalRows, GateHolds DEF FinalStep, GateStep
<1>3. ASSUME NEW w \in Workers, RequestArrives(w) \/ RequestStep(w)
      PROVE  \A t \in Generated : task'[t] = task[t]
    BY <1>3, WorkflowRequestsApart, TemplateFills DEF Generated
<1>4. CASE UNCHANGED vars \/ DayPasses
    BY <1>1, <1>4 DEF vars, DayPasses
<1>5. QED
    BY <1>1, <1>2, <1>3, <1>4 DEF Next, TaskNext

\* As long as no commit was stale, no set of tasks waits for itself, also where
\* templates fill the board while reviews, views and updates of the engagement
\* run beside it.
THEOREM NoCyclesOnTheBoard == Spec => []NoDependencyCycle
<1>1. BoardInv => NoDependencyCycle
    BY DEF BoardInv, FreshBoard, NoDependencyCycle
<1>2. QED
    BY <1>1, BoardInvHolds, PTL

\* As long as no commit was stale, the history of every task is a chain to its
\* status, that of the tasks a template generated included.
THEOREM BoardHistoriesAreChains == Spec => []HistoryIsChain
    BY ChainsAreHistories, BoardInvHolds, PTL

\* As long as no commit was stale, no request of any router moves a completed or
\* cancelled task.
THEOREM FinishedWorkStays == Spec => FinishedIsFinal
<1>1. ReadyInv /\ BoardInv /\ [Next]_vars
      => [\A t \in Generated :
             ~stale' /\ task[t].status \in Terminal => task'[t].status = task[t].status]_taskVars
    BY WorkflowStepsAreRight DEF FinalStep
<1>2. QED
    BY <1>1, BoardInvHolds, PTL DEF Spec, FinishedIsFinal

\* As long as no commit was stale, no task starts or completes before what it
\* waits for, whatever templates and reviews overlap the gate.
THEOREM BoardDependenciesGate == Spec => DependenciesComeFirst
<1>1. ReadyInv /\ BoardInv /\ [Next]_vars
      => [\A t \in Generated :
             LET moved == task'[t].status # task[t].status
             IN  ~stale' /\ moved /\ task'[t].status \in {"IN_PROGRESS", "COMPLETED"}
                 => \A d \in Tasks : <<t, d>> \in dependency => task[d].status = "COMPLETED"]_taskVars
    BY WorkflowStepsAreRight DEF GateStep
<1>2. QED
    BY <1>1, BoardInvHolds, PTL DEF Spec, DependenciesComeFirst
=============================================================================
