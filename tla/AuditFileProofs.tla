--------------------------- MODULE AuditFileProofs ---------------------------
(***************************************************************************)
(* Theorems about AuditFile and the working papers beside it, for any set  *)
(* of workers, papers, notes, files, staff, risks and items, any checklist *)
(* and any bounds.                                                         *)
(***************************************************************************)
EXTENDS AuditFile, FiniteSetTheorems, TLAPS

-----------------------------------------------------------------------------
(* Steps, by the tables they write.                                        *)

PaperOps == {"EDIT", "LINK", "NOTE", "RESOLVE", "SIGN"}
AcceptanceOps == {"ACCEPT", "DECIDE"}
TeamOps == {"DECLARE"}
ItemOps == {"CREATE", "MOVE"}
FileOps == {"COMPLETE", "FINALIZE"}

paperRows == <<paper, note, evidence, archived, signoff>>

PapersStep(w) ==
    /\ PaperRequestArrives(w) \/ PaperRequestStep(w)
    /\ UNCHANGED <<planningTables, executionTables>>

AcceptanceStep(w) ==
    \/ \E met \in BOOLEAN : UpsertAcceptance(w, met)
    \/ \E to \in {"APPROVED", "REJECTED"} : DecideAcceptance(w, to)
    \/ CommitAcceptance(w)
    \/ CommitDecision(w)

TeamStep(w) ==
    \/ \E s \in Staff : AssignMember(w, s) \/ \E to \in Declared : DeclareIndependence(w, s, to)
    \/ CommitDeclaration(w)

RiskStep(w) ==
    \/ SetMateriality(w)
    \/ \E r \in Risks : CreateRisk(w, r) \/ \E p \in Papers : LinkProcedure(w, r, p)

ItemsStep(w) ==
    \/ \E i \in Items : CreateItem(w, i) \/ \E to \in Target[Kind[i]] : MoveItem(w, i, to)
    \/ CommitItem(w)
    \/ CheckNotFinalized(w)
    \/ CommitMove(w)

FileStep(w) ==
    \/ \E done \in SUBSET Checks : UpsertCompletion(w, done)
    \/ CommitCompletion(w)
    \/ Finalize(w)
    \/ CheckReadiness(w)
    \/ \E k \in Risks : CheckProcedure(w, k)
    \/ ReadFileLock(w)
    \/ CommitFinalize(w)

LEMMA StepKinds ==
    ASSUME AuditNext
    PROVE  \E w \in Workers : \/ PapersStep(w) \/ AcceptanceStep(w) \/ TeamStep(w)
                              \/ RiskStep(w) \/ ItemsStep(w) \/ FileStep(w)
<1>1. PICK w \in Workers : \/ PaperRequestArrives(w) /\ UNCHANGED <<planningTables, executionTables>>
                           \/ PlanningArrives(w)
                           \/ ExecutionArrives(w)
                           \/ AuditRequestStep(w)
    BY DEF AuditNext
<1>2. CASE PaperRequestArrives(w) /\ UNCHANGED <<planningTables, executionTables>>
    BY <1>2 DEF PapersStep
<1>3. CASE PlanningArrives(w)
    BY <1>3 DEF PlanningArrives, AcceptanceStep, TeamStep, RiskStep
<1>4. CASE ExecutionArrives(w)
    BY <1>4 DEF ExecutionArrives, ItemsStep, FileStep
<1>5. CASE AuditRequestStep(w)
    BY <1>5 DEF AuditRequestStep, PapersStep, AcceptanceStep, TeamStep, ItemsStep, FileStep
<1>6. QED
    BY <1>1, <1>2, <1>3, <1>4, <1>5

\* Only worker w changes its request, between requests about `Ops`.
Serves(w, Ops) ==
    /\ \A v \in Workers \ {w} : req'[v] = req[v]
    /\ req[w].op \in Ops \cup {"IDLE"} /\ req'[w].op \in Ops \cup {"IDLE"}
    /\ stale => stale'

-----------------------------------------------------------------------------
(* Type correctness.                                                       *)

PaperTablesOK ==
    /\ paper \in [Papers -> PaperRow \cup {NoRow}]
    /\ note \in [Notes -> NoteRow \cup {NoRow}]
    /\ evidence \subseteq Papers \X Files /\ archived \subseteq Files
    /\ signoff \in [Papers -> Seq(SignoffRow)]

PlanningTablesOK ==
    /\ acceptance \in AcceptanceRow \cup {NoRow}
    /\ materiality \in BOOLEAN
    /\ team \subseteq Staff
    /\ declaration \in [Staff -> DeclarationRow \cup {NoRow}]
    /\ risk \subseteq Risks /\ procedure \subseteq Risks \X Papers

AnyItemRow == [status : UNION Range(ItemStatus), version : Nat]

ExecutionTablesOK ==
    /\ item \in [Items -> AnyItemRow \cup {NoRow}] /\ \A i \in Items : item[i] \in ItemRow(i) \cup {NoRow}
    /\ completion \in CompletionRow \cup {NoRow}
    /\ fileLock \in BOOLEAN
    /\ finalization \in Seq([items : SUBSET Items, papers : SUBSET Papers])

RequestOK(r) ==
    /\ r \in {Idle} \cup AuditRequest
    /\ r.op = "MOVE" => r.row \in ItemRow(r.item) /\ r.to \in Target[Kind[r.item]]

\* The rows a request has loaded are still there: no handler deletes any.
HasRows(r) ==
    /\ r.op \in PaperOps => paper[r.paper] # NoRow
    /\ r.op = "RESOLVE" => note[r.note] # NoRow
    /\ r.op \in AcceptanceOps /\ r.row # NoRow => acceptance # NoRow
    /\ r.op = "DECLARE" /\ r.row # NoRow => declaration[r.staff] # NoRow
    /\ r.op = "MOVE" => item[r.item] # NoRow
    /\ r.op \in FileOps /\ r.row # NoRow => completion # NoRow

RowsKept ==
    /\ \A p \in Papers : paper[p] # NoRow => paper'[p] # NoRow
    /\ \A n \in Notes : note[n] # NoRow => note'[n] # NoRow
    /\ acceptance # NoRow => acceptance' # NoRow
    /\ \A s \in Staff : declaration[s] # NoRow => declaration'[s] # NoRow
    /\ \A i \in Items : item[i] # NoRow => item'[i] # NoRow
    /\ completion # NoRow => completion' # NoRow

\* AuditTypeOK, table by table, and the rows of requests are there.
TypeInv ==
    /\ PaperTablesOK /\ PlanningTablesOK /\ ExecutionTablesOK
    /\ req \in [Workers -> {Idle} \cup AuditRequest]
    /\ \A w \in Workers : RequestOK(req[w]) /\ HasRows(req[w])
    /\ stale \in BOOLEAN

LEMMA TypeInvIsTypeOK == TypeInv => AuditTypeOK
    BY DEF TypeInv, AuditTypeOK, PaperTablesOK, PlanningTablesOK, ExecutionTablesOK, RequestOK

\* The operation of a request tells which handler built it.
LEMMA RequestKinds ==
    ASSUME NEW r \in {Idle} \cup AuditRequest
    PROVE  /\ r.op = "EDIT" => r \in EditRequest
           /\ r.op = "LINK" => r \in LinkRequest
           /\ r.op = "NOTE" => r \in NoteRequest
           /\ r.op = "RESOLVE" => r \in ResolveRequest
           /\ r.op = "SIGN" => r \in SignRequest
           /\ r.op \in PaperOps => r.paper \in Papers /\ r.row \in PaperRow
           /\ r.op = "ACCEPT" => r \in AcceptRequest
           /\ r.op = "DECIDE" => r \in DecideRequest
           /\ r.op = "DECLARE" => r \in DeclareRequest
           /\ r.op = "CREATE" => r \in CreateRequest
           /\ r.op = "MOVE" => r \in MoveRequest
           /\ r.op = "COMPLETE" => r \in CompleteRequest
           /\ r.op = "FINALIZE" => r \in FinalizeRequest
    BY DEF AuditRequest, PaperRequest, EditRequest, LinkRequest, NoteRequest, ResolveRequest,
           SignRequest, AcceptRequest, DecideRequest, DeclareRequest, CreateRequest, MoveRequest,
           CompleteRequest, FinalizeRequest, Idle, PaperOps

\* What the statuses of the kinds of items are to each other.
LEMMA KindFacts ==
    /\ Settled["TEST"] = {"COMPLETED"} /\ Settled["SEVERE_ISSUE"] = {"RESOLVED"}
    /\ Target["TEST"] = {"COMPLETED"} /\ Target["SEVERE_ISSUE"] = {"RESOLVED"}
    /\ \A k \in Kinds : /\ Fresh[k] \in ItemStatus[k]
                        /\ Target[k] \subseteq ItemStatus[k]
                        /\ ItemStatus[k] \subseteq UNION Range(ItemStatus)
                        /\ Target[k] \subseteq UNION Range(Target)
                        /\ "NO_ROW" \notin ItemStatus[k]
    BY DEF Kinds, Fresh, Settled, Target, ItemStatus, Range

\* No row is the absent one, and what a row shows is typed.
LEMMA RowFields ==
    /\ \A row \in PaperRow : /\ row # NoRow /\ row.status \in PaperStatus /\ row.locked \in BOOLEAN
                             /\ row.content \in Contents /\ row.version \in Nat
    /\ \A row \in NoteRow : row # NoRow /\ row.paper \in Papers /\ row.status \in {"OPEN", "RESOLVED"}
    /\ \A row \in AcceptanceRow : /\ row # NoRow /\ row.status \in {"DRAFT", "APPROVED", "REJECTED"}
                                  /\ row.met \in BOOLEAN /\ row.version \in Nat
    /\ \A row \in DeclarationRow : row # NoRow /\ row.status \in Declared
    /\ \A row \in CompletionRow : /\ row # NoRow /\ row.done \subseteq Checks /\ row.locked \in BOOLEAN
                                  /\ row.status \in {"DRAFT", "READY", "FINALIZED"} /\ row.version \in Nat
    BY DEF PaperRow, PaperStatus, NoteRow, AcceptanceRow, DeclarationRow, Declared, CompletionRow, NoRow

LEMMA ItemFields ==
    ASSUME NEW i \in Items, NEW row \in ItemRow(i)
    PROVE  /\ row # NoRow /\ row \in AnyItemRow
           /\ row.status \in ItemStatus[Kind[i]] /\ row.version \in Nat /\ Kind[i] \in Kinds
    BY AuditAssumption, KindFacts DEF ItemRow, AnyItemRow, NoRow

LEMMA IdleOK == RequestOK(Idle) /\ HasRows(Idle) /\ Idle.op = "IDLE"
    BY DEF RequestOK, HasRows, Idle, PaperOps, AcceptanceOps, FileOps

LEMMA TypeInvInit == AuditInit => TypeInv
<1> SUFFICES ASSUME AuditInit PROVE TypeInv
    OBVIOUS
<1>1. PaperTablesOK /\ PlanningTablesOK /\ ExecutionTablesOK
  <2>1. PaperTablesOK
      BY DEF AuditInit, PapersInit, PaperTablesOK
  <2>2. PlanningTablesOK
      BY DEF AuditInit, PlanningTablesOK
  <2>3. ExecutionTablesOK
    <3>1. item \in [Items -> AnyItemRow \cup {NoRow}] /\ \A i \in Items : item[i] = NoRow
        BY DEF AuditInit
    <3>2. <<>> \in Seq([items : SUBSET Items, papers : SUBSET Papers])
        OBVIOUS
    <3>3. QED
        BY <3>1, <3>2 DEF AuditInit, ExecutionTablesOK
  <2>4. QED
      BY <2>1, <2>2, <2>3
<1>2. /\ req \in [Workers -> {Idle} \cup AuditRequest]
      /\ \A w \in Workers : RequestOK(req[w]) /\ HasRows(req[w])
    BY IdleOK DEF AuditInit, PapersInit
<1>3. QED
    BY <1>1, <1>2 DEF TypeInv, AuditInit, PapersInit

\* A step that leaves worker w with request r.
LEMMA TypeStep ==
    ASSUME TypeInv, NEW w \in Workers, NEW r, RequestOK(r), HasRows(r), RowsKept,
           req' = [req EXCEPT ![w] = r],
           PaperTablesOK', PlanningTablesOK', ExecutionTablesOK', stale' \in BOOLEAN
    PROVE  TypeInv'
<1>1. /\ \A v \in Workers : req'[v] = IF v = w THEN r ELSE req[v]
      /\ req' \in [Workers -> {Idle} \cup AuditRequest]
    BY DEF TypeInv, RequestOK
<1>2. ASSUME NEW v \in Workers
      PROVE  RequestOK(req'[v]) /\ HasRows(req[v])'
  <2>1. RequestOK(req'[v]) /\ HasRows(req'[v]) /\ req'[v] \in {Idle} \cup AuditRequest
      BY <1>1 DEF TypeInv
  <2> DEFINE q == req'[v]
  <2>2. /\ q.op \in PaperOps => q.paper \in Papers
        /\ q.op = "RESOLVE" => q.note \in Notes
        /\ q.op = "DECLARE" => q.staff \in Staff
        /\ q.op = "MOVE" => q.item \in Items
      BY <2>1, RequestKinds DEF ResolveRequest, DeclareRequest, MoveRequest
  <2>3. HasRows(req[v])'
      BY <2>1, <2>2 DEF HasRows, RowsKept
  <2>4. QED
      BY <2>1, <2>3
<1>3. QED
    BY <1>1, <1>2 DEF TypeInv, RequestOK

LEMMA TablesUnchanged ==
    ASSUME TypeInv
    PROVE  /\ UNCHANGED paperRows => PaperTablesOK'
           /\ UNCHANGED planningTables => PlanningTablesOK'
           /\ UNCHANGED executionTables => ExecutionTablesOK'
    BY DEF TypeInv, PaperTablesOK, PlanningTablesOK, ExecutionTablesOK, paperRows, planningTables,
           executionTables

\* A step that commits nothing.
LEMMA TypeRead ==
    ASSUME TypeInv, NEW w \in Workers, NEW r, RequestOK(r), HasRows(r),
           req' = [req EXCEPT ![w] = r], UNCHANGED <<paperTables, planningTables, executionTables>>
    PROVE  TypeInv'
<1>1. RowsKept /\ UNCHANGED <<paperRows, planningTables, executionTables>> /\ stale' \in BOOLEAN
    BY DEF RowsKept, paperTables, paperRows, planningTables, executionTables, TypeInv
<1>2. QED
    BY <1>1, TablesUnchanged, TypeStep

LEMMA ServesStep ==
    ASSUME TypeInv, NEW w \in Workers, NEW r, req' = [req EXCEPT ![w] = r], NEW Ops,
           req[w].op \in Ops \/ req[w] = Idle, r.op \in Ops \/ r = Idle, stale => stale'
    PROVE  Serves(w, Ops)
<1>1. \A v \in Workers : req'[v] = IF v = w THEN r ELSE req[v]
    BY DEF TypeInv
<1>2. QED
    BY <1>1, IdleOK DEF Serves

-----------------------------------------------------------------------------
(* The working papers: what their steps do.                                *)

\* The request of worker w commits `row` as its paper, and is over.
PaperCommit(w, row) ==
    /\ paper' = [paper EXCEPT ![req[w].paper] = row]
    /\ row \in PaperRow /\ row.version = req[w].row.version + 1
    /\ req' = [req EXCEPT ![w] = Idle]
    /\ stale' = (stale \/ Overtaken(req[w]))

LEMMA RequestOfPaper ==
    ASSUME TypeInv, NEW w \in Workers, req[w].op \in PaperOps
    PROVE  /\ req[w].paper \in Papers /\ paper[req[w].paper] \in PaperRow
           /\ req[w].row \in PaperRow /\ req[w].row.version \in Nat
           /\ req[w] \in PaperRequest
<1>1. req[w] \in {Idle} \cup AuditRequest /\ HasRows(req[w])
    BY DEF TypeInv
<1>2. req[w].paper \in Papers /\ req[w].row \in PaperRow
    BY <1>1, RequestKinds
<1>3. paper[req[w].paper] \in PaperRow
    BY <1>1, <1>2 DEF HasRows, TypeInv, PaperTablesOK
<1>4. req[w] \in PaperRequest
    BY <1>1, RequestKinds DEF PaperOps, PaperRequest
<1>5. QED
    BY <1>2, <1>3, <1>4, RowFields

LEMMA RevisedRow ==
    ASSUME NEW now \in PaperRow, NEW r, r.row.version \in Nat
    PROVE  LET row == Revised(now, r)
           IN  /\ row \in PaperRow /\ row.version = r.row.version + 1 /\ row.content = now.content
               /\ row.status = now.status /\ row.locked = now.locked
    BY DEF Revised, PaperRow

\* All commits but that of a sign-off leave the status and the lock flag alone.
LEMMA CommitRow ==
    ASSUME TypeInv, NEW w \in Workers,
           \/ CommitEdit(w) \/ CommitNote(w) \/ CommitResolve(w)
           \/ CommitLink(w) /\ <<req[w].paper, req[w].file>> \notin evidence
    PROVE  \E row \in PaperRow :
              /\ PaperCommit(w, row)
              /\ row.status = paper[req[w].paper].status
              /\ row.locked = paper[req[w].paper].locked
              /\ req[w].op # "EDIT" => row.content = paper[req[w].paper].content
<1> DEFINE r == req[w]
           now == paper[r.paper]
<1>1. r.op \in PaperOps
    BY DEF CommitEdit, CommitNote, CommitResolve, CommitLink, PaperOps
<1>2. r.paper \in Papers /\ now \in PaperRow /\ r.row \in PaperRow /\ r.row.version \in Nat
    BY <1>1, RequestOfPaper
<1>3. CASE CommitEdit(w)
  <2> DEFINE row == Edited(now, r)
  <2>1. r \in EditRequest /\ r.op = "EDIT"
      BY <1>3, RequestKinds DEF CommitEdit, TypeInv
  <2>2. Column(Revised(now, r).content, r.row.content, r.content) \in Contents
      BY <1>2, <2>1, RowFields, RevisedRow DEF EditRequest, Column
  <2>3. row \in PaperRow /\ row.version = r.row.version + 1 /\ row.status = now.status /\ row.locked = now.locked
      BY <1>2, <2>2, RevisedRow DEF Edited, PaperRow
  <2>4. paper' = [paper EXCEPT ![r.paper] = row]
      BY <1>3 DEF CommitEdit
  <2>5. req' = [req EXCEPT ![w] = Idle] /\ stale' = (stale \/ Overtaken(r))
      BY <1>3 DEF CommitEdit, Finish
  <2>6. PaperCommit(w, row)
      BY <2>3, <2>4, <2>5 DEF PaperCommit
  <2>7. QED
      BY <2>1, <2>3, <2>6
<1>4. CASE \/ CommitNote(w) \/ CommitResolve(w)
           \/ CommitLink(w) /\ <<r.paper, r.file>> \notin evidence
  <2> DEFINE row == Revised(now, r)
  <2>1. /\ row \in PaperRow /\ row.version = r.row.version + 1 /\ row.status = now.status
        /\ row.locked = now.locked /\ row.content = now.content
      BY <1>2, RevisedRow
  <2>2. paper' = [paper EXCEPT ![r.paper] = row]
      BY <1>4 DEF CommitNote, CommitResolve, CommitLink
  <2>3. req' = [req EXCEPT ![w] = Idle] /\ stale' = (stale \/ Overtaken(r))
      BY <1>4 DEF CommitNote, CommitResolve, CommitLink, Finish
  <2>4. PaperCommit(w, row)
      BY <2>1, <2>2, <2>3 DEF PaperCommit
  <2>5. QED
      BY <2>1, <2>4
<1>5. QED
    BY <1>3, <1>4

LEMMA SignOffRow ==
    ASSUME TypeInv, NEW w \in Workers, CommitSignOff(w)
    PROVE  LET now == paper[req[w].paper]
               row == SignedOff(now, req[w])
           IN  /\ PaperCommit(w, row) /\ req[w] \in SignRequest
               /\ row.status = req[w].action
               /\ row.locked <=> now.locked \/ req[w].action = "LOCKED"
               /\ SignoffEntry(req[w]) \in SignoffRow
<1> DEFINE r == req[w]
           now == paper[r.paper]
           old == Revised(now, r)
           row == SignedOff(now, r)
<1>1. r \in SignRequest /\ r.op \in PaperOps
    BY RequestKinds DEF CommitSignOff, TypeInv, PaperOps
<1>2. r.paper \in Papers /\ now \in PaperRow /\ r.row \in PaperRow /\ r.row.version \in Nat
    BY <1>1, RequestOfPaper
<1>3. r.action \in Signoffs /\ r.action \in PaperStatus
    BY <1>1 DEF SignRequest, Signoffs, Expected, PaperStatus
<1>4. old \in PaperRow /\ old.version = r.row.version + 1 /\ old.locked = now.locked
    BY <1>2, RevisedRow
<1>5. row \in PaperRow /\ row.version = r.row.version + 1 /\ row.status = r.action
    BY <1>3, <1>4 DEF SignedOff, PaperRow
<1>6. row.locked <=> now.locked \/ r.action = "LOCKED"
    BY <1>3, <1>4 DEF SignedOff, PaperRow
<1>7. paper' = [paper EXCEPT ![r.paper] = row]
    BY DEF CommitSignOff
<1>8. req' = [req EXCEPT ![w] = Idle] /\ stale' = (stale \/ Overtaken(r))
    BY DEF CommitSignOff, Finish
<1>9. SignoffEntry(r) \in SignoffRow
    BY <1>2, <1>3, RowFields DEF SignoffEntry, SignoffRow
<1>10. QED
    BY <1>1, <1>5, <1>6, <1>7, <1>8, <1>9 DEF PaperCommit

\* The commit of a row keeps the tables typed and every row there.
LEMMA PaperCommitType ==
    ASSUME TypeInv, NEW w \in Workers, NEW row, PaperCommit(w, row), req[w].op \in PaperOps,
           UNCHANGED <<planningTables, executionTables>>,
           note' \in [Notes -> NoteRow \cup {NoRow}], \A n \in Notes : note[n] # NoRow => note'[n] # NoRow,
           evidence' \subseteq Papers \X Files, archived' \subseteq Files,
           signoff' \in [Papers -> Seq(SignoffRow)]
    PROVE  TypeInv' /\ Serves(w, PaperOps)
<1>1. row \in PaperRow /\ req[w].paper \in Papers /\ row # NoRow
    BY RequestOfPaper, RowFields DEF PaperCommit
<1>2. PaperTablesOK'
    BY <1>1 DEF PaperCommit, TypeInv, PaperTablesOK
<1>3. RowsKept
    BY <1>1 DEF PaperCommit, TypeInv, PaperTablesOK, RowsKept, planningTables, executionTables
<1>4. stale' \in BOOLEAN /\ (stale => stale') /\ req' = [req EXCEPT ![w] = Idle]
    BY DEF PaperCommit, TypeInv
<1>5. TypeInv'
    BY <1>2, <1>3, <1>4, TablesUnchanged, TypeStep, IdleOK
<1>6. QED
    BY <1>4, <1>5, ServesStep

LEMMA PaperReadType ==
    ASSUME TypeInv, NEW w \in Workers, NEW r \in PaperRequest \cup {Idle}, HasRows(r),
           req' = [req EXCEPT ![w] = r], req[w] = Idle \/ req[w].op \in PaperOps,
           UNCHANGED <<paperTables, planningTables, executionTables>>
    PROVE  TypeInv' /\ Serves(w, PaperOps)
<1>1. r = Idle \/ r.op \in PaperOps
    BY DEF PaperRequest, EditRequest, LinkRequest, NoteRequest, ResolveRequest, SignRequest, PaperOps
<1>2. RequestOK(r)
    BY <1>1, IdleOK DEF RequestOK, AuditRequest, PaperOps
<1>3. stale' = stale
    BY DEF paperTables
<1>4. QED
    BY <1>1, <1>2, <1>3, TypeRead, ServesStep

\* What OpenPaper lets in.
LEMMA OpenedPaper ==
    ASSUME TypeInv, NEW w \in Workers, NEW p \in Papers, NEW r, OpenPaper(w, p, r)
    PROVE  /\ paper[p] \in PaperRow /\ ~paper[p].locked /\ paper[p].status # "LOCKED"
           /\ req[w] = Idle /\ req' = [req EXCEPT ![w] = r] /\ UNCHANGED paperTables
    BY DEF OpenPaper, Editable, Begin, TypeInv, PaperTablesOK

\* The requests that arrive about paper p, as records.
Arrival(w, p, r) ==
    \/ \E c \in Contents : EditPaper(w, p, c) /\ r = [op |-> "EDIT", paper |-> p, row |-> paper[p], content |-> c]
    \/ \E f \in Files : /\ LinkEvidence(w, p, f)
                        /\ r = [op |-> "LINK", at |-> "document", paper |-> p, row |-> paper[p], file |-> f]
    \/ \E n \in Notes : /\ RaiseNote(w, p, n)
                        /\ r = [op |-> "NOTE", paper |-> p, row |-> paper[p], note |-> n]
    \/ \E n \in Notes : /\ ResolveNote(w, p, n)
                        /\ r = [op |-> "RESOLVE", at |-> "note", paper |-> p, row |-> paper[p], note |-> n]
    \/ \E action \in Signoffs : /\ SignOff(w, p, action)
                                /\ r = [op |-> "SIGN", at |-> FirstRead(action), paper |-> p,
                                        row |-> paper[p], action |-> action]

LEMMA Arrived ==
    ASSUME TypeInv, NEW w \in Workers, NEW p \in Papers, NEW r, Arrival(w, p, r)
    PROVE  /\ OpenPaper(w, p, r)
           /\ r \in PaperRequest /\ HasRows(r) /\ r.op \in PaperOps
           /\ r.paper = p /\ r.row = paper[p]
<1>1. OpenPaper(w, p, r)
    BY DEF Arrival, EditPaper, LinkEvidence, RaiseNote, ResolveNote, SignOff
<1>2. paper[p] \in PaperRow /\ paper[p] # NoRow
    BY <1>1, OpenedPaper, RowFields
<1>3. CASE \E c \in Contents : r = [op |-> "EDIT", paper |-> p, row |-> paper[p], content |-> c]
    BY <1>1, <1>2, <1>3 DEF PaperRequest, EditRequest, HasRows, PaperOps, AcceptanceOps, FileOps
<1>4. CASE \E f \in Files : r = [op |-> "LINK", at |-> "document", paper |-> p, row |-> paper[p], file |-> f]
    BY <1>1, <1>2, <1>4 DEF PaperRequest, LinkRequest, HasRows, PaperOps, AcceptanceOps, FileOps
<1>5. CASE \E n \in Notes : r = [op |-> "NOTE", paper |-> p, row |-> paper[p], note |-> n]
    BY <1>1, <1>2, <1>5 DEF PaperRequest, NoteRequest, HasRows, PaperOps, AcceptanceOps, FileOps
<1>6. ASSUME NEW n \in Notes, ResolveNote(w, p, n),
             r = [op |-> "RESOLVE", at |-> "note", paper |-> p, row |-> paper[p], note |-> n]
      PROVE  r \in PaperRequest /\ HasRows(r) /\ r.op \in PaperOps /\ r.paper = p /\ r.row = paper[p]
    BY <1>2, <1>6 DEF ResolveNote, PaperRequest, ResolveRequest, HasRows, PaperOps, AcceptanceOps, FileOps
<1>7. ASSUME NEW action \in Signoffs,
             r = [op |-> "SIGN", at |-> FirstRead(action), paper |-> p, row |-> paper[p], action |-> action]
      PROVE  r \in PaperRequest /\ HasRows(r) /\ r.op \in PaperOps /\ r.paper = p /\ r.row = paper[p]
  <2>1. FirstRead(action) \in {"notes", "commit"}
      BY DEF FirstRead
  <2>2. QED
      BY <1>2, <1>7, <2>1 DEF PaperRequest, SignRequest, HasRows, PaperOps, AcceptanceOps, FileOps
<1>8. QED
    BY <1>1, <1>3, <1>4, <1>5, <1>6, <1>7 DEF Arrival

LEMMA PaperArrivals ==
    ASSUME NEW w \in Workers, PaperRequestArrives(w)
    PROVE  \/ \E p \in Papers, c \in Contents : CreatePaper(w, p, c)
           \/ \E f \in Files : ArchiveFile(w, f)
           \/ \E p \in Papers : \E r : Arrival(w, p, r)
    BY DEF PaperRequestArrives, Arrival

\* The reads of a request that is under way: it ends or goes on to its commit.
PaperRead(w) == ReadDocument(w) \/ ReadNote(w) \/ CountNotes(w)

OnToCommit(w) == [req[w] EXCEPT !.at = "commit"]

LEMMA PaperReads ==
    ASSUME TypeInv, NEW w \in Workers, PaperRead(w)
    PROVE  \E r \in {Idle, OnToCommit(w)} :
              /\ req' = [req EXCEPT ![w] = r] /\ UNCHANGED paperTables
              /\ r \in PaperRequest \cup {Idle} /\ HasRows(r)
<1>1. req[w].op \in PaperOps /\ req[w] \in PaperRequest /\ HasRows(req[w])
    BY RequestOfPaper DEF PaperRead, ReadDocument, ReadNote, CountNotes, PaperOps, TypeInv
<1>2. OnToCommit(w) \in PaperRequest /\ HasRows(OnToCommit(w))
  <2>1. CASE ReadDocument(w)
    <3>1. req[w] \in LinkRequest
        BY <2>1, RequestKinds DEF ReadDocument, TypeInv
    <3>2. OnToCommit(w) \in LinkRequest /\ OnToCommit(w).op = "LINK" /\ OnToCommit(w).paper = req[w].paper
        BY <3>1 DEF OnToCommit, LinkRequest
    <3>3. QED
        BY <1>1, <3>2 DEF HasRows, PaperRequest, PaperOps, AcceptanceOps, FileOps
  <2>2. CASE ReadNote(w)
    <3>1. req[w] \in ResolveRequest /\ req[w].op = "RESOLVE"
        BY <2>2, RequestKinds DEF ReadNote, TypeInv
    <3>2. /\ OnToCommit(w) \in ResolveRequest /\ OnToCommit(w).op = "RESOLVE"
          /\ OnToCommit(w).paper = req[w].paper /\ OnToCommit(w).note = req[w].note
        BY <3>1 DEF OnToCommit, ResolveRequest
    <3>3. QED
        BY <1>1, <3>1, <3>2 DEF HasRows, PaperRequest, PaperOps, AcceptanceOps, FileOps
  <2>3. CASE CountNotes(w)
    <3>1. req[w] \in SignRequest
        BY <2>3, RequestKinds DEF CountNotes, TypeInv
    <3>2. OnToCommit(w) \in SignRequest /\ OnToCommit(w).op = "SIGN" /\ OnToCommit(w).paper = req[w].paper
        BY <3>1 DEF OnToCommit, SignRequest
    <3>3. QED
        BY <1>1, <3>2 DEF HasRows, PaperRequest, PaperOps, AcceptanceOps, FileOps
  <2>4. QED
      BY <2>1, <2>2, <2>3 DEF PaperRead
<1>3. req' = [req EXCEPT ![w] = Idle] \/ req' = [req EXCEPT ![w] = OnToCommit(w)]
    BY DEF PaperRead, ReadDocument, ReadNote, CountNotes, Finish, OnToCommit, TypeInv
<1>4. UNCHANGED paperTables
    BY DEF PaperRead, ReadDocument, ReadNote, CountNotes
<1>5. QED
    BY <1>2, <1>3, <1>4, IdleOK

\* Creating a paper and archiving a file touch no request.
LEMMA DirectPaperType ==
    ASSUME TypeInv, NEW w \in Workers, UNCHANGED <<planningTables, executionTables>>,
           \/ \E p \in Papers, c \in Contents : CreatePaper(w, p, c)
           \/ \E f \in Files : ArchiveFile(w, f)
    PROVE  TypeInv' /\ Serves(w, PaperOps)
<1>1. req' = [req EXCEPT ![w] = req[w]] /\ req[w] = Idle /\ stale' = stale
    BY DEF CreatePaper, ArchiveFile, TypeInv
<1>2. PaperTablesOK' /\ RowsKept
  <2>1. ASSUME NEW p \in Papers, NEW c \in Contents, CreatePaper(w, p, c)
        PROVE  PaperTablesOK' /\ RowsKept
    <3> DEFINE entry == [action |-> "PREPARED", from |-> "DRAFT", to |-> "DRAFT"]
    <3>1. NewPaper(c) \in PaperRow /\ NewPaper(c) # NoRow
        BY RowFields DEF NewPaper, PaperRow, PaperStatus
    <3>2. entry \in SignoffRow
        BY DEF SignoffRow, PaperStatus
    <3>3. /\ paper' = [paper EXCEPT ![p] = NewPaper(c)]
          /\ signoff' = [signoff EXCEPT ![p] = Append(signoff[p], entry)]
          /\ UNCHANGED <<note, evidence, archived, planningTables, executionTables>>
        BY <2>1 DEF CreatePaper
    <3>4. Append(signoff[p], entry) \in Seq(SignoffRow)
        BY <3>2 DEF TypeInv, PaperTablesOK
    <3>5. PaperTablesOK'
        BY <3>1, <3>3, <3>4 DEF TypeInv, PaperTablesOK
    <3>6. RowsKept
        BY <3>1, <3>3 DEF TypeInv, PaperTablesOK, RowsKept, planningTables, executionTables
    <3>7. QED
        BY <3>5, <3>6
  <2>2. CASE \E f \in Files : ArchiveFile(w, f)
      BY <2>2 DEF ArchiveFile, TypeInv, PaperTablesOK, RowsKept, planningTables, executionTables
  <2>3. QED
      BY <2>1, <2>2
<1>3. RequestOK(req[w]) /\ HasRows(req[w]) /\ stale' \in BOOLEAN
    BY <1>1 DEF TypeInv
<1>4. TypeInv'
    BY <1>1, <1>2, <1>3, TablesUnchanged, TypeStep
<1>5. QED
    BY <1>1, <1>4, ServesStep

LEMMA PapersStepType ==
    ASSUME TypeInv, NEW w \in Workers, PapersStep(w)
    PROVE  TypeInv' /\ Serves(w, PaperOps) /\ UNCHANGED <<planningTables, executionTables>>
<1>0. UNCHANGED <<planningTables, executionTables>>
    BY DEF PapersStep
<1>t. PaperTablesOK /\ req[w] \in {Idle} \cup AuditRequest
    BY DEF TypeInv
<1>1. CASE PaperRequestArrives(w)
  <2>1. ASSUME NEW p \in Papers, NEW r, Arrival(w, p, r)
        PROVE  TypeInv' /\ Serves(w, PaperOps)
      BY <1>0, <2>1, Arrived, OpenedPaper, PaperReadType
  <2>2. QED
      BY <1>0, <1>1, <2>1, PaperArrivals, DirectPaperType
<1>2. CASE PaperRead(w)
  <2>1. req[w].op \in PaperOps
      BY <1>2 DEF PaperRead, ReadDocument, ReadNote, CountNotes, PaperOps
  <2>2. QED
      BY <1>0, <1>2, <2>1, PaperReads, PaperReadType
<1>3. CASE CommitEdit(w)
  <2>1. req[w].op \in PaperOps /\ UNCHANGED <<note, evidence, archived, signoff>>
      BY <1>3 DEF CommitEdit, PaperOps
  <2>2. QED
      BY <1>0, <1>t, <1>3, <2>1, CommitRow, PaperCommitType DEF PaperTablesOK
<1>4. CASE CommitLink(w)
  <2>1. req[w] \in LinkRequest /\ req[w].op \in PaperOps /\ UNCHANGED <<note, archived, signoff>>
      BY <1>4, <1>t, RequestKinds DEF CommitLink, PaperOps
  <2>2. evidence' = evidence \cup {<<req[w].paper, req[w].file>>} /\ evidence' \subseteq Papers \X Files
      BY <1>4, <1>t, <2>1 DEF CommitLink, PaperTablesOK, LinkRequest
  <2>3. CASE <<req[w].paper, req[w].file>> \notin evidence
      BY <1>0, <1>t, <1>4, <2>1, <2>2, <2>3, CommitRow, PaperCommitType DEF PaperTablesOK
  <2>4. CASE <<req[w].paper, req[w].file>> \in evidence
    <3>1. UNCHANGED paperTables /\ req' = [req EXCEPT ![w] = Idle]
        BY <1>4, <1>t, <2>1, <2>2, <2>4 DEF CommitLink, paperTables, Finish, TypeInv
    <3>2. QED
        BY <1>0, <2>1, <3>1, IdleOK, PaperReadType
  <2>5. QED
      BY <2>3, <2>4
<1>5. CASE CommitNote(w)
  <2>1. req[w] \in NoteRequest /\ req[w].op \in PaperOps /\ UNCHANGED <<evidence, archived, signoff>>
      BY <1>5, <1>t, RequestKinds DEF CommitNote, PaperOps
  <2>2. /\ note' \in [Notes -> NoteRow \cup {NoRow}]
        /\ \A n \in Notes : note[n] # NoRow => note'[n] # NoRow
      BY <1>5, <1>t, <2>1, RowFields DEF CommitNote, PaperTablesOK, NoteRequest, NoteRow
  <2>3. QED
      BY <1>0, <1>t, <1>5, <2>1, <2>2, CommitRow, PaperCommitType DEF PaperTablesOK
<1>6. CASE CommitResolve(w)
  <2>1. req[w] \in ResolveRequest /\ req[w].op \in PaperOps /\ UNCHANGED <<evidence, archived, signoff>>
      BY <1>6, <1>t, RequestKinds DEF CommitResolve, PaperOps
  <2>2. req[w].note \in Notes /\ note[req[w].note] \in NoteRow
      BY <1>6, <1>t, <2>1 DEF CommitResolve, TypeInv, HasRows, PaperTablesOK, ResolveRequest
  <2>3. [note[req[w].note] EXCEPT !.status = "RESOLVED"] \in NoteRow
      BY <2>2 DEF NoteRow
  <2>4. /\ note' \in [Notes -> NoteRow \cup {NoRow}]
        /\ \A n \in Notes : note[n] # NoRow => note'[n] # NoRow
      BY <1>6, <1>t, <2>2, <2>3, RowFields DEF CommitResolve, PaperTablesOK
  <2>5. QED
      BY <1>0, <1>t, <1>6, <2>1, <2>4, CommitRow, PaperCommitType DEF PaperTablesOK
<1>7. CASE CommitSignOff(w)
  <2>1. req[w].op \in PaperOps /\ UNCHANGED <<note, evidence, archived>>
      BY <1>7 DEF CommitSignOff, PaperOps
  <2>2. signoff' \in [Papers -> Seq(SignoffRow)]
    <3> DEFINE p == req[w].paper
               entry == SignoffEntry(req[w])
    <3>1. p \in Papers /\ entry \in SignoffRow
        BY <1>7, <2>1, RequestOfPaper, SignOffRow
    <3>2. signoff[p] \in Seq(SignoffRow)
        BY <1>t, <3>1 DEF PaperTablesOK
    <3>3. signoff' = [signoff EXCEPT ![p] = Append(signoff[p], entry)]
        BY <1>7 DEF CommitSignOff
    <3> HIDE DEF p, entry
    <3>4. Append(signoff[p], entry) \in Seq(SignoffRow)
        BY <3>1, <3>2
    <3>5. QED
        BY <1>t, <3>3, <3>4 DEF PaperTablesOK
  <2>3. QED
      BY <1>0, <1>t, <1>7, <2>1, <2>2, SignOffRow, PaperCommitType DEF PaperTablesOK
<1>8. QED
    BY <1>0, <1>1, <1>2, <1>3, <1>4, <1>5, <1>6, <1>7 DEF PapersStep, PaperRequestStep, PaperRead

-----------------------------------------------------------------------------
(* The types under the other steps.                                        *)

LEMMA ReadStep ==
    ASSUME TypeInv, NEW w \in Workers, NEW r, RequestOK(r), HasRows(r), NEW Ops,
           req' = [req EXCEPT ![w] = r], UNCHANGED <<paperTables, planningTables, executionTables>>,
           req[w].op \in Ops \/ req[w] = Idle, r.op \in Ops \/ r = Idle
    PROVE  TypeInv' /\ Serves(w, Ops)
<1>1. stale' = stale
    BY DEF paperTables
<1>2. QED
    BY <1>1, TypeRead, ServesStep

LEMMA CommitStep ==
    ASSUME TypeInv, NEW w \in Workers, NEW Ops, req[w].op \in Ops,
           Finish(w), RowsKept, stale' \in BOOLEAN, stale => stale',
           PaperTablesOK', PlanningTablesOK', ExecutionTablesOK'
    PROVE  TypeInv' /\ Serves(w, Ops)
<1>1. req' = [req EXCEPT ![w] = Idle]
    BY DEF Finish
<1>2. QED
    BY <1>1, IdleOK, TypeStep, ServesStep

LEMMA AcceptanceStepType ==
    ASSUME TypeInv, NEW w \in Workers, AcceptanceStep(w)
    PROVE  /\ TypeInv' /\ Serves(w, AcceptanceOps)
           /\ UNCHANGED <<paperRows, executionTables, team, declaration>>
<1>t. /\ acceptance \in AcceptanceRow \cup {NoRow} /\ stale \in BOOLEAN
      /\ req[w] \in {Idle} \cup AuditRequest /\ HasRows(req[w])
    BY DEF TypeInv, PlanningTablesOK
<1>1. ASSUME NEW met \in BOOLEAN, UpsertAcceptance(w, met)
      PROVE  TypeInv' /\ Serves(w, AcceptanceOps)
  <2> DEFINE r == [op |-> "ACCEPT", row |-> acceptance, met |-> met]
  <2>1. RequestOK(r) /\ HasRows(r) /\ r.op \in AcceptanceOps
      BY <1>t DEF RequestOK, AuditRequest, AcceptRequest, HasRows, PaperOps, AcceptanceOps, FileOps
  <2>2. QED
      BY <1>1, <2>1, ReadStep DEF UpsertAcceptance, Begin
<1>2. ASSUME NEW to \in {"APPROVED", "REJECTED"}, DecideAcceptance(w, to)
      PROVE  TypeInv' /\ Serves(w, AcceptanceOps)
  <2> DEFINE r == [op |-> "DECIDE", row |-> acceptance, to |-> to]
  <2>1. RequestOK(r) /\ HasRows(r) /\ r.op \in AcceptanceOps
      BY <1>t, <1>2 DEF DecideAcceptance, RequestOK, AuditRequest, DecideRequest, HasRows, PaperOps,
                        AcceptanceOps, FileOps
  <2>2. QED
      BY <1>2, <2>1, ReadStep DEF DecideAcceptance, Begin
<1>3. ASSUME CommitAcceptance(w) \/ CommitDecision(w), acceptance' \in AcceptanceRow \cup {NoRow},
             acceptance # NoRow => acceptance' # NoRow
      PROVE  TypeInv' /\ Serves(w, AcceptanceOps)
  <2>1. /\ UNCHANGED <<paper, note, evidence, archived, signoff>>
        /\ UNCHANGED <<materiality, team, declaration, risk, procedure, executionTables>>
        /\ Finish(w) /\ req[w].op \in AcceptanceOps /\ stale' \in BOOLEAN /\ (stale => stale')
      BY <1>t, <1>3 DEF CommitAcceptance, CommitDecision, AcceptanceOps
  <2>2. PaperTablesOK' /\ ExecutionTablesOK'
      BY <2>1, TablesUnchanged DEF paperRows
  <2>3. PlanningTablesOK'
      BY <1>3, <2>1 DEF TypeInv, PlanningTablesOK
  <2>4. RowsKept
      BY <1>3, <2>1 DEF RowsKept, executionTables
  <2>5. QED
      BY <2>1, <2>2, <2>3, <2>4, CommitStep
<1>4. ASSUME CommitAcceptance(w)
      PROVE  TypeInv' /\ Serves(w, AcceptanceOps)
  <2> DEFINE r == req[w]
  <2>1. r \in AcceptRequest /\ (r.row # NoRow => r.row \in AcceptanceRow /\ acceptance \in AcceptanceRow)
      BY <1>t, <1>4, RequestKinds DEF CommitAcceptance, AcceptRequest, HasRows, AcceptanceOps
  <2>2. r.row # NoRow => AcceptanceAfter(acceptance, r) \in AcceptanceRow
      BY <2>1, RowFields DEF AcceptanceAfter, AcceptRequest, AcceptanceRow, Column
  <2>3. [status |-> "DRAFT", met |-> r.met, version |-> 1] \in AcceptanceRow
      BY <2>1 DEF AcceptRequest, AcceptanceRow
  <2>4. acceptance' \in AcceptanceRow \cup {NoRow} /\ (acceptance # NoRow => acceptance' # NoRow)
      BY <1>t, <1>4, <2>2, <2>3, RowFields DEF CommitAcceptance
  <2>5. QED
      BY <1>3, <1>4, <2>4
<1>5. ASSUME CommitDecision(w)
      PROVE  TypeInv' /\ Serves(w, AcceptanceOps)
  <2> DEFINE r == req[w]
             to == Column(acceptance.status, r.row.status, r.to)
             row == [acceptance EXCEPT !.status = to, !.version = r.row.version + 1]
  <2>1. r \in DecideRequest /\ r.row \in AcceptanceRow /\ acceptance \in AcceptanceRow
      BY <1>t, <1>5, RequestKinds, RowFields DEF CommitDecision, DecideRequest, HasRows, AcceptanceOps
  <2>2. to \in {"DRAFT", "APPROVED", "REJECTED"} /\ r.row.version + 1 \in Nat
      BY <2>1, RowFields DEF DecideRequest, Column
  <2>3. row \in AcceptanceRow
      BY <2>1, <2>2 DEF AcceptanceRow
  <2>4. acceptance' = row
      BY <1>5 DEF CommitDecision
  <2>5. QED
      BY <1>3, <1>5, <2>3, <2>4, RowFields
<1>6. UNCHANGED <<paperRows, executionTables, team, declaration>>
    BY DEF AcceptanceStep, UpsertAcceptance, DecideAcceptance, CommitAcceptance, CommitDecision,
           paperTables, planningTables, paperRows
<1>7. QED
    BY <1>1, <1>2, <1>4, <1>5, <1>6 DEF AcceptanceStep

LEMMA TeamStepType ==
    ASSUME TypeInv, NEW w \in Workers, TeamStep(w)
    PROVE  TypeInv' /\ Serves(w, TeamOps) /\ UNCHANGED <<paperRows, executionTables, acceptance>>
<1>t. /\ declaration \in [Staff -> DeclarationRow \cup {NoRow}] /\ team \subseteq Staff
      /\ stale \in BOOLEAN /\ req[w] \in {Idle} \cup AuditRequest /\ HasRows(req[w]) /\ RequestOK(req[w])
    BY DEF TypeInv, PlanningTablesOK
<1>1. ASSUME NEW s \in Staff, AssignMember(w, s)
      PROVE  TypeInv' /\ Serves(w, TeamOps)
  <2>1. /\ UNCHANGED <<paperRows, executionTables, stale>>
        /\ UNCHANGED <<acceptance, materiality, declaration, risk, procedure>>
        /\ req' = [req EXCEPT ![w] = req[w]] /\ req[w] = Idle /\ team' = team \cup {s}
      BY <1>1 DEF AssignMember, paperTables, paperRows, TypeInv
  <2>2. PlanningTablesOK' /\ RowsKept
      BY <2>1 DEF TypeInv, PlanningTablesOK, RowsKept, paperRows, executionTables
  <2>3. QED
      BY <1>t, <2>1, <2>2, TablesUnchanged, TypeStep, ServesStep
<1>2. ASSUME NEW s \in Staff, NEW to \in Declared, DeclareIndependence(w, s, to)
      PROVE  TypeInv' /\ Serves(w, TeamOps)
  <2> DEFINE r == [op |-> "DECLARE", staff |-> s, row |-> declaration[s], to |-> to]
  <2>1. RequestOK(r) /\ HasRows(r) /\ r.op \in TeamOps
      BY <1>t DEF RequestOK, AuditRequest, DeclareRequest, HasRows, PaperOps, AcceptanceOps, FileOps, TeamOps
  <2>2. QED
      BY <1>2, <2>1, ReadStep DEF DeclareIndependence, Begin
<1>3. ASSUME CommitDeclaration(w)
      PROVE  TypeInv' /\ Serves(w, TeamOps)
  <2> DEFINE r == req[w]
             now == declaration[r.staff]
             row == IF r.row = NoRow /\ now # NoRow THEN now
                    ELSE IF r.row = NoRow THEN [status |-> r.to]
                    ELSE [status |-> Column(now.status, r.row.status, r.to)]
  <2>1. /\ r.staff \in Staff /\ r.to \in Declared
        /\ r.row # NoRow => r.row \in DeclarationRow /\ now \in DeclarationRow
        /\ now \in DeclarationRow \cup {NoRow}
      BY <1>t, <1>3, RequestKinds DEF CommitDeclaration, DeclareRequest, HasRows
  <2>2. row \in DeclarationRow /\ row # NoRow
      BY <2>1, RowFields DEF DeclarationRow, Column
  <2>3. declaration' = [declaration EXCEPT ![r.staff] = row]
      BY <1>3 DEF CommitDeclaration
  <2> HIDE DEF row
  <2>4. /\ UNCHANGED <<paper, note, evidence, archived, signoff>>
        /\ UNCHANGED <<acceptance, materiality, team, risk, procedure, executionTables>>
        /\ Finish(w) /\ req[w].op \in TeamOps /\ stale' \in BOOLEAN /\ (stale => stale')
      BY <1>t, <1>3 DEF CommitDeclaration, TeamOps
  <2>5. PaperTablesOK' /\ ExecutionTablesOK'
      BY <2>4, TablesUnchanged DEF paperRows
  <2>6. PlanningTablesOK'
      BY <2>2, <2>3, <2>4 DEF TypeInv, PlanningTablesOK
  <2>7. RowsKept
      BY <1>t, <2>2, <2>3, <2>4 DEF RowsKept, executionTables
  <2>8. QED
      BY <2>4, <2>5, <2>6, <2>7, CommitStep
<1>4. UNCHANGED <<paperRows, executionTables, acceptance>>
    BY DEF TeamStep, AssignMember, DeclareIndependence, CommitDeclaration, paperTables, planningTables,
           paperRows
<1>5. QED
    BY <1>1, <1>2, <1>3, <1>4 DEF TeamStep

LEMMA RiskStepType ==
    ASSUME TypeInv, NEW w \in Workers, RiskStep(w)
    PROVE  /\ TypeInv' /\ Serves(w, {})
           /\ UNCHANGED <<req, stale, paperRows, executionTables, acceptance, team, declaration>>
<1>1. /\ UNCHANGED <<req, stale, paperRows, executionTables, acceptance, team, declaration>>
      /\ req' = [req EXCEPT ![w] = req[w]] /\ req[w] = Idle
    BY DEF RiskStep, SetMateriality, CreateRisk, LinkProcedure, paperTables, paperRows, TypeInv
<1>2. PlanningTablesOK'
  <2>t. PlanningTablesOK
      BY DEF TypeInv
  <2>1. CASE SetMateriality(w)
      BY <2>t, <2>1 DEF SetMateriality, PlanningTablesOK
  <2>2. CASE \E r \in Risks : CreateRisk(w, r)
      BY <2>t, <2>2 DEF CreateRisk, PlanningTablesOK
  <2>3. CASE \E r \in Risks, p \in Papers : LinkProcedure(w, r, p)
      BY <2>t, <2>3 DEF LinkProcedure, PlanningTablesOK
  <2>4. QED
      BY <2>1, <2>2, <2>3 DEF RiskStep
<1>3. RowsKept /\ RequestOK(req[w]) /\ HasRows(req[w])
    BY <1>1 DEF RowsKept, paperRows, executionTables, TypeInv
<1>4. stale' \in BOOLEAN
    BY <1>1 DEF TypeInv
<1>5. QED
    BY <1>1, <1>2, <1>3, <1>4, TablesUnchanged, TypeStep, ServesStep

LEMMA ItemsStepType ==
    ASSUME TypeInv, NEW w \in Workers, ItemsStep(w)
    PROVE  TypeInv' /\ Serves(w, ItemOps) /\ UNCHANGED <<paperRows, planningTables, completion, fileLock, finalization>>
<1>t. /\ item \in [Items -> AnyItemRow \cup {NoRow}] /\ \A i \in Items : item[i] \in ItemRow(i) \cup {NoRow}
      /\ stale \in BOOLEAN
      /\ req[w] \in {Idle} \cup AuditRequest /\ HasRows(req[w]) /\ RequestOK(req[w])
    BY DEF TypeInv, ExecutionTablesOK
<1>1. ASSUME NEW i \in Items, CreateItem(w, i)
      PROVE  TypeInv' /\ Serves(w, ItemOps)
  <2> DEFINE r == [op |-> "CREATE", item |-> i]
  <2>1. RequestOK(r) /\ HasRows(r) /\ r.op \in ItemOps
      BY DEF RequestOK, AuditRequest, CreateRequest, HasRows, PaperOps, AcceptanceOps, FileOps, ItemOps
  <2>2. QED
      BY <1>1, <2>1, ReadStep DEF CreateItem, Begin
<1>2. ASSUME NEW i \in Items, NEW to \in Target[Kind[i]], MoveItem(w, i, to)
      PROVE  TypeInv' /\ Serves(w, ItemOps)
  <2> DEFINE r == [op |-> "MOVE", at |-> "completion", item |-> i, row |-> item[i], to |-> to]
  <2>1. item[i] # NoRow /\ item[i] \in ItemRow(i) /\ Kind[i] \in Kinds
      BY <1>t, <1>2, ItemFields DEF MoveItem
  <2>2. item[i] \in [status : UNION Range(ItemStatus), version : Nat] /\ to \in UNION Range(Target)
      BY <2>1, KindFacts DEF ItemRow
  <2>3. r \in MoveRequest /\ r.op = "MOVE"
      BY <2>2 DEF MoveRequest
  <2>4. RequestOK(r) /\ HasRows(r) /\ r.op \in ItemOps
      BY <2>1, <2>3 DEF RequestOK, AuditRequest, HasRows, PaperOps, AcceptanceOps, FileOps, ItemOps
  <2>5. QED
      BY <1>2, <2>4, ReadStep DEF MoveItem, Begin
<1>3. ASSUME CheckNotFinalized(w)
      PROVE  TypeInv' /\ Serves(w, ItemOps)
  <2> DEFINE r == OnToCommit(w)
  <2>1. req[w] \in MoveRequest /\ req[w].op = "MOVE" /\ req[w].op \in ItemOps
      BY <1>t, <1>3, RequestKinds DEF CheckNotFinalized, ItemOps
  <2>2. /\ r \in MoveRequest /\ r.op = "MOVE"
        /\ r.row = req[w].row /\ r.item = req[w].item /\ r.to = req[w].to
      BY <2>1 DEF OnToCommit, MoveRequest
  <2>3. RequestOK(r) /\ HasRows(r) /\ r.op \in ItemOps
      BY <1>t, <2>1, <2>2 DEF RequestOK, AuditRequest, HasRows, PaperOps, AcceptanceOps, FileOps, ItemOps
  <2>4. req' = [req EXCEPT ![w] = Idle] \/ req' = [req EXCEPT ![w] = r]
      BY <1>3 DEF CheckNotFinalized, Finish, OnToCommit, TypeInv
  <2>5. QED
      BY <1>3, <2>1, <2>3, <2>4, IdleOK, ReadStep DEF CheckNotFinalized
<1>4. ASSUME CommitItem(w) \/ CommitMove(w), NEW i \in Items, NEW row \in ItemRow(i),
             item' = item \/ item' = [item EXCEPT ![i] = row]
      PROVE  TypeInv' /\ Serves(w, ItemOps)
  <2>1. /\ UNCHANGED <<paper, note, evidence, archived, signoff>>
        /\ UNCHANGED <<planningTables, completion, fileLock, finalization>>
        /\ Finish(w) /\ req[w].op \in ItemOps /\ stale' \in BOOLEAN /\ (stale => stale')
    <3>1. CASE CommitItem(w)
        BY <1>t, <3>1 DEF CommitItem, ItemOps, paperTables
    <3>2. CASE CommitMove(w)
        BY <1>t, <3>2 DEF CommitMove, ItemOps
    <3>3. QED
        BY <1>4, <3>1, <3>2
  <2>2. /\ item' \in [Items -> AnyItemRow \cup {NoRow}]
        /\ \A j \in Items : item'[j] = IF j = i /\ item' # item THEN row ELSE item[j]
    <3>1. CASE item' = item
        BY <1>t, <3>1
    <3>2. CASE item' = [item EXCEPT ![i] = row]
        BY <1>t, <3>2, ItemFields
    <3>3. QED
        BY <1>4, <3>1, <3>2
  <2>3. ExecutionTablesOK'
      BY <1>t, <2>1, <2>2 DEF TypeInv, ExecutionTablesOK, ItemRow
  <2>4. RowsKept
      BY <2>1, <2>2, ItemFields DEF RowsKept, planningTables
  <2>5. QED
      BY <2>1, <2>3, <2>4, CommitStep, TablesUnchanged DEF paperRows
<1>5. ASSUME CommitItem(w)
      PROVE  TypeInv' /\ Serves(w, ItemOps)
  <2> DEFINE i == req[w].item
             row == [status |-> Fresh[Kind[i]], version |-> 1]
  <2>1. i \in Items
      BY <1>t, <1>5, RequestKinds DEF CommitItem, CreateRequest
  <2>2. row \in ItemRow(i)
      BY <2>1, AuditAssumption, KindFacts DEF ItemRow
  <2>3. item' = item \/ item' = [item EXCEPT ![i] = row]
      BY <1>5 DEF CommitItem
  <2>4. QED
      BY <1>4, <1>5, <2>1, <2>2, <2>3
<1>6. ASSUME CommitMove(w)
      PROVE  TypeInv' /\ Serves(w, ItemOps)
  <2> DEFINE r == req[w]
             i == r.item
             to == Column(item[i].status, r.row.status, r.to)
             row == [item[i] EXCEPT !.status = to, !.version = r.row.version + 1]
  <2>1. i \in Items /\ r.row \in ItemRow(i) /\ r.to \in Target[Kind[i]] /\ item[i] \in ItemRow(i)
      BY <1>t, <1>6, RequestKinds DEF CommitMove, RequestOK, MoveRequest, HasRows
  <2>2. to \in ItemStatus[Kind[i]] /\ r.row.version + 1 \in Nat
      BY <2>1, ItemFields, KindFacts DEF Column
  <2>3. row \in ItemRow(i)
      BY <2>1, <2>2 DEF ItemRow
  <2>4. item' = [item EXCEPT ![i] = row]
    <3>1. item' = [item EXCEPT ![i].status = to, ![i].version = r.row.version + 1]
        BY <1>6 DEF CommitMove
    <3> HIDE DEF to
    <3>2. QED
        BY <1>t, <2>1, <3>1
  <2>5. QED
      BY <1>4, <1>6, <2>1, <2>3, <2>4
<1>7. UNCHANGED <<paperRows, planningTables, completion, fileLock, finalization>>
    BY DEF ItemsStep, CreateItem, MoveItem, CheckNotFinalized, CommitItem, CommitMove, paperTables,
           executionTables, paperRows
<1>8. QED
    BY <1>1, <1>2, <1>3, <1>5, <1>6, <1>7 DEF ItemsStep

\* The reads of a finalization.
GateRead(w) == CheckReadiness(w) \/ (\E k \in Risks : CheckProcedure(w, k)) \/ ReadFileLock(w)

\* From request q to r: an answer, the next gate, or the lock row; what the
\* request has loaded is never changed.
GateStep(q, r) ==
    /\ r \in FinalizeRequest /\ r.op = "FINALIZE"
    /\ r.row = q.row /\ r.items = q.items /\ r.papers = q.papers
    /\ \/ r.at = q.at /\ r.lock = q.lock
       \/ /\ q.at \in DOMAIN NextGate /\ Gate(q)[q.at] /\ r.at = NextGate[q.at]
          /\ r.lock = q.lock
       \/ q.at = "lock" /\ r.at = "commit" /\ r.lock = fileLock

LEMMA GateReads ==
    ASSUME TypeInv, NEW w \in Workers, GateRead(w)
    PROVE  /\ req[w] \in FinalizeRequest /\ req[w].op = "FINALIZE"
           /\ UNCHANGED <<paperTables, planningTables, executionTables>>
           /\ \/ req' = [req EXCEPT ![w] = Idle]
              \/ \E r : GateStep(req[w], r) /\ req' = [req EXCEPT ![w] = r]
<1> DEFINE q == req[w]
<1>1. q \in FinalizeRequest /\ q.op = "FINALIZE"
    BY RequestKinds DEF GateRead, CheckReadiness, CheckProcedure, ReadFileLock, TypeInv
<1>2. UNCHANGED <<paperTables, planningTables, executionTables>>
    BY DEF GateRead, CheckReadiness, CheckProcedure, ReadFileLock
<1>3. CASE req' = [req EXCEPT ![w] = Idle]
    BY <1>1, <1>2, <1>3
<1>4. ASSUME CheckReadiness(w), req' # [req EXCEPT ![w] = Idle]
      PROVE  \E r : GateStep(q, r) /\ req' = [req EXCEPT ![w] = r]
  <2> DEFINE members == IF q.at = "team" THEN Cardinality(team) ELSE q.members
             unread == IF q.at = "risks" THEN risk ELSE q.unread
             r == [q EXCEPT !.at = NextGate[q.at], !.members = members, !.unread = unread]
  <2>1. Cardinality(team) \in Nat
      BY AuditAssumption, FS_Subset, FS_CardinalityType DEF TypeInv, PlanningTablesOK
  <2>2. members \in Nat /\ unread \in SUBSET Risks
      BY <1>1, <2>1 DEF FinalizeRequest, TypeInv, PlanningTablesOK
  <2>3. q.at \in DOMAIN NextGate /\ Gate(q)[q.at] /\ q.at # "lock"
      BY <1>4 DEF CheckReadiness, NextGate, Finish
  <2>4. NextGate[q.at] \in {"materiality", "team", "declarations", "risks", "procedures",
                            "REQUISITION", "TEST", "SEVERE_ISSUE", "papers", "lock"}
      BY <2>3 DEF NextGate
  <2>5. req' = [req EXCEPT ![w] = r]
      BY <1>4 DEF CheckReadiness, TypeInv, Finish
  <2> HIDE DEF members, unread
  <2>6. /\ r \in FinalizeRequest /\ r.op = "FINALIZE" /\ r.row = q.row /\ r.items = q.items
        /\ r.papers = q.papers /\ r.at = NextGate[q.at] /\ r.lock = q.lock
      BY <1>1, <2>2, <2>4 DEF FinalizeRequest
  <2>7. GateStep(q, r)
      BY <2>3, <2>6 DEF GateStep
  <2>8. QED
      BY <2>5, <2>7
<1>5. ASSUME NEW k \in Risks, CheckProcedure(w, k), req' # [req EXCEPT ![w] = Idle]
      PROVE  \E r : GateStep(q, r) /\ req' = [req EXCEPT ![w] = r]
  <2> DEFINE r == [q EXCEPT !.unread = q.unread \ {k}]
  <2>1. req' = [req EXCEPT ![w] = r]
      BY <1>5 DEF CheckProcedure, TypeInv, Finish
  <2>2. /\ r \in FinalizeRequest /\ r.op = "FINALIZE" /\ r.row = q.row /\ r.items = q.items
        /\ r.papers = q.papers /\ r.at = q.at /\ r.lock = q.lock
      BY <1>1 DEF FinalizeRequest
  <2>3. GateStep(q, r)
      BY <2>2 DEF GateStep
  <2>4. QED
      BY <2>1, <2>3
<1>6. ASSUME ReadFileLock(w)
      PROVE  \E r : GateStep(q, r) /\ req' = [req EXCEPT ![w] = r]
  <2> DEFINE r == [q EXCEPT !.at = "commit", !.lock = fileLock]
  <2>1. req' = [req EXCEPT ![w] = r] /\ q.at = "lock"
      BY <1>6 DEF ReadFileLock, TypeInv
  <2>2. fileLock \in BOOLEAN
      BY DEF TypeInv, ExecutionTablesOK
  <2>3. /\ r \in FinalizeRequest /\ r.op = "FINALIZE" /\ r.row = q.row /\ r.items = q.items
        /\ r.papers = q.papers /\ r.at = "commit" /\ r.lock = fileLock
      BY <1>1, <2>2 DEF FinalizeRequest
  <2>4. GateStep(q, r)
      BY <2>1, <2>3 DEF GateStep
  <2>5. QED
      BY <2>1, <2>4
<1>7. QED
    BY <1>1, <1>2, <1>3, <1>4, <1>5, <1>6 DEF GateRead

\* The commit of a finalization that does not fail.
FinalizedRow(r) ==
    [completion EXCEPT !.status = Column(@, r.row.status, "FINALIZED"),
                       !.locked = TRUE, !.version = r.row.version + 1]

LEMMA FinalizedRowFields ==
    ASSUME NEW r, r.row \in CompletionRow, completion \in CompletionRow
    PROVE  LET row == FinalizedRow(r)
           IN  /\ row \in CompletionRow /\ row.locked /\ row.done = completion.done
               /\ row.status = Column(completion.status, r.row.status, "FINALIZED")
<1> DEFINE to == Column(completion.status, r.row.status, "FINALIZED")
<1>1. to \in {"DRAFT", "READY", "FINALIZED"} /\ r.row.version + 1 \in Nat
    BY RowFields DEF Column
<1>2. FinalizedRow(r) = [completion EXCEPT !.status = to, !.locked = TRUE, !.version = r.row.version + 1]
    BY DEF FinalizedRow
<1> HIDE DEF to
<1>3. QED
    BY <1>1, <1>2 DEF CompletionRow, to

LEMMA ChecklistFields ==
    ASSUME NEW r \in CompleteRequest, r.row \in CompletionRow, NEW current \in CompletionRow
    PROVE  /\ ChecklistAfter(current, r) \in CompletionRow
           /\ ChecklistAfter(current, r).locked = current.locked
<1> DEFINE done == {c \in Checks : Column(c \in current.done, c \in r.row.done, c \in r.done)}
           to == Column(current.status, r.row.status, ChecklistStatus(r))
<1>1. done \subseteq Checks /\ r.row.version + 1 \in Nat /\ current.locked \in BOOLEAN
    BY RowFields
<1>2. to \in {"DRAFT", "READY", "FINALIZED"}
    BY RowFields DEF Column, ChecklistStatus
<1>3. ChecklistAfter(current, r)
        = [done |-> done, status |-> to, locked |-> current.locked, version |-> r.row.version + 1]
    BY DEF ChecklistAfter
<1> HIDE DEF done, to
<1>4. QED
    BY <1>1, <1>2, <1>3 DEF CompletionRow

LEMMA FileStepType ==
    ASSUME TypeInv, NEW w \in Workers, FileStep(w)
    PROVE  TypeInv' /\ Serves(w, FileOps) /\ UNCHANGED <<paperRows, planningTables, item>>
<1>t. /\ completion \in CompletionRow \cup {NoRow} /\ fileLock \in BOOLEAN /\ stale \in BOOLEAN
      /\ finalization \in Seq([items : SUBSET Items, papers : SUBSET Papers])
      /\ req[w] \in {Idle} \cup AuditRequest /\ HasRows(req[w]) /\ RequestOK(req[w])
    BY DEF TypeInv, ExecutionTablesOK
<1>1. ASSUME NEW done \in SUBSET Checks, UpsertCompletion(w, done)
      PROVE  TypeInv' /\ Serves(w, FileOps)
  <2> DEFINE r == [op |-> "COMPLETE", row |-> completion, done |-> done]
  <2>1. RequestOK(r) /\ HasRows(r) /\ r.op \in FileOps
      BY <1>t DEF RequestOK, AuditRequest, CompleteRequest, HasRows, PaperOps, AcceptanceOps, FileOps
  <2>2. QED
      BY <1>1, <2>1, ReadStep DEF UpsertCompletion, Begin
<1>2. ASSUME Finalize(w)
      PROVE  TypeInv' /\ Serves(w, FileOps)
  <2> DEFINE r == [op |-> "FINALIZE", at |-> "acceptance", row |-> completion,
                   members |-> 0, unread |-> {}, lock |-> FALSE,
                   items |-> Registered, papers |-> Written]
  <2>1. Registered \subseteq Items /\ Written \subseteq Papers /\ completion \in CompletionRow
      BY <1>t, <1>2 DEF Registered, Written, Finalize
  <2>2. r \in FinalizeRequest /\ r.op = "FINALIZE"
      BY <2>1 DEF FinalizeRequest
  <2>3. RequestOK(r) /\ HasRows(r) /\ r.op \in FileOps
      BY <1>2, <2>1, <2>2 DEF Finalize, RequestOK, AuditRequest, HasRows, PaperOps, AcceptanceOps, FileOps
  <2>4. QED
      BY <1>2, <2>3, ReadStep DEF Finalize, Begin
<1>3. ASSUME GateRead(w)
      PROVE  TypeInv' /\ Serves(w, FileOps)
  <2>1. ASSUME NEW r, GateStep(req[w], r), req' = [req EXCEPT ![w] = r]
        PROVE  TypeInv' /\ Serves(w, FileOps)
    <3>1. r \in FinalizeRequest /\ r.op = "FINALIZE" /\ r.row = req[w].row
        BY <2>1 DEF GateStep
    <3>2. RequestOK(r) /\ HasRows(r) /\ r.op \in FileOps
        BY <1>3, <1>t, <3>1, GateReads
        DEF RequestOK, AuditRequest, HasRows, PaperOps, AcceptanceOps, FileOps
    <3>3. QED
        BY <1>3, <2>1, <3>2, GateReads, ReadStep DEF FileOps
  <2>2. QED
      BY <1>3, <2>1, GateReads, IdleOK, ReadStep DEF FileOps
<1>4. ASSUME CommitCompletion(w) \/ CommitFinalize(w),
             completion' \in CompletionRow \cup {NoRow}, completion # NoRow => completion' # NoRow,
             fileLock' \in BOOLEAN,
             finalization' \in Seq([items : SUBSET Items, papers : SUBSET Papers])
      PROVE  TypeInv' /\ Serves(w, FileOps)
  <2>1. /\ UNCHANGED <<paper, note, evidence, archived, signoff>> /\ UNCHANGED <<planningTables, item>>
        /\ Finish(w) /\ req[w].op \in FileOps /\ stale' \in BOOLEAN /\ (stale => stale')
    <3>1. CASE CommitCompletion(w)
        BY <1>t, <3>1 DEF CommitCompletion, FileOps
    <3>2. CASE CommitFinalize(w)
        BY <1>t, <3>2 DEF CommitFinalize, FileOps
    <3>3. QED
        BY <1>4, <3>1, <3>2
  <2>2. ExecutionTablesOK' /\ RowsKept
      BY <1>4, <2>1 DEF TypeInv, ExecutionTablesOK, RowsKept, planningTables
  <2>3. QED
      BY <2>1, <2>2, TablesUnchanged, CommitStep DEF paperRows
<1>5. ASSUME CommitCompletion(w)
      PROVE  TypeInv' /\ Serves(w, FileOps)
  <2> DEFINE r == req[w]
             new == [done |-> r.done, status |-> ChecklistStatus(r), locked |-> FALSE, version |-> 1]
  <2>1. r \in CompleteRequest /\ (r.row # NoRow => completion # NoRow)
      BY <1>t, <1>5, RequestKinds DEF CommitCompletion, HasRows, FileOps
  <2>2. new \in CompletionRow
      BY <2>1 DEF CompleteRequest, CompletionRow, ChecklistStatus
  <2>3. r.row # NoRow => ChecklistAfter(completion, r) \in CompletionRow
      BY <1>t, <2>1, ChecklistFields DEF CompleteRequest
  <2>4. completion' \in CompletionRow \cup {NoRow} /\ (completion # NoRow => completion' # NoRow)
    <3>1. \/ completion' = completion \/ completion' = new
          \/ r.row # NoRow /\ completion' = ChecklistAfter(completion, r)
        BY <1>5 DEF CommitCompletion
    <3> HIDE DEF new
    <3>2. QED
        BY <1>t, <2>2, <2>3, <3>1, RowFields
  <2>5. UNCHANGED <<fileLock, finalization>>
      BY <1>5 DEF CommitCompletion
  <2>6. QED
      BY <1>t, <1>4, <1>5, <2>4, <2>5
<1>6. ASSUME CommitFinalize(w)
      PROVE  TypeInv' /\ Serves(w, FileOps)
  <2> DEFINE r == req[w]
             entry == [items |-> r.items, papers |-> r.papers]
  <2>1. r \in FinalizeRequest /\ r.row \in CompletionRow
      BY <1>6, <1>t, RequestKinds DEF CommitFinalize, FinalizeRequest
  <2>2. completion \in CompletionRow /\ completion # NoRow
      BY <1>6, <1>t, <2>1, RowFields DEF CommitFinalize, HasRows, FileOps
  <2>3. FinalizedRow(r) \in CompletionRow
      BY <2>1, <2>2, FinalizedRowFields
  <2>4. completion' = completion \/ completion' = FinalizedRow(r)
      BY <1>6 DEF CommitFinalize, FinalizedRow
  <2>5. entry \in [items : SUBSET Items, papers : SUBSET Papers]
      BY <2>1 DEF FinalizeRequest
  <2>6. finalization' = finalization \/ finalization' = Append(finalization, entry)
      BY <1>6 DEF CommitFinalize
  <2>7. fileLock' = TRUE
      BY <1>6 DEF CommitFinalize
  <2> HIDE DEF entry
  <2>8. finalization' \in Seq([items : SUBSET Items, papers : SUBSET Papers])
    <3> DEFINE S == [items : SUBSET Items, papers : SUBSET Papers]
    <3>1. entry \in S /\ finalization \in Seq(S)
        BY <1>t, <2>5
    <3> HIDE DEF S
    <3>2. finalization' \in Seq(S)
        BY <2>6, <3>1
    <3>3. QED
        BY <3>2 DEF S
  <2>9. QED
      BY <1>4, <1>6, <2>2, <2>3, <2>4, <2>7, <2>8, RowFields
<1>7. UNCHANGED <<paperRows, planningTables, item>>
    BY <1>3, GateReads
    DEF FileStep, UpsertCompletion, Finalize, CommitCompletion, CommitFinalize, GateRead,
        CheckReadiness, CheckProcedure, ReadFileLock, paperTables, executionTables, paperRows
<1>8. QED
    BY <1>1, <1>2, <1>3, <1>5, <1>6, <1>7 DEF FileStep, GateRead

LEMMA TypeInvNext == TypeInv /\ [AuditNext]_auditVars => TypeInv'
<1> SUFFICES ASSUME TypeInv, [AuditNext]_auditVars PROVE TypeInv'
    OBVIOUS
<1>1. CASE AuditNext
    BY <1>1, StepKinds, PapersStepType, AcceptanceStepType, TeamStepType, RiskStepType, ItemsStepType,
       FileStepType
<1>2. CASE UNCHANGED auditVars
    BY <1>2 DEF auditVars, TypeInv, PaperTablesOK, PlanningTablesOK, ExecutionTablesOK, RequestOK, HasRows
<1>3. QED
    BY <1>1, <1>2

\* Every table and every request is typed, and no request refers to a row that
\* is not there.
THEOREM TypesAreKept == AuditSpec => []AuditTypeOK
<1>1. TypeInv /\ [AuditNext]_auditVars => TypeInv'
    BY TypeInvNext
<1>2. QED
    BY TypeInvInit, <1>1, TypeInvIsTypeOK, PTL DEF AuditSpec

-----------------------------------------------------------------------------
(* What holds between the tables and the requests in flight.               *)

ApprovedBefore(p) == \E i \in DOMAIN signoff[p] : signoff[p][i].action = "APPROVED"

\* A request about a paper was let in while the paper could be edited; one that
\* found it approved did so after the approval had been recorded.
SignKnows(r) ==
    r.op \in PaperOps =>
        /\ ~r.row.locked
        /\ r.row.status = "APPROVED" => ApprovedBefore(r.paper)
        /\ r.op = "SIGN" => r.row.status = Expected[r.action]

SignInv ==
    /\ \A p \in Papers : /\ paper[p] = NoRow <=> signoff[p] = <<>>
                         /\ paper[p].status = "APPROVED" => ApprovedBefore(p)
    /\ SignoffsAreChain
    /\ \A w \in Workers : SignKnows(req[w])

\* Unless stale, what a request has loaded is the paper as it is or an earlier
\* version of it; so an approval or a lock whose count saw no open note is
\* either overtaken, or there is still none.
NotesKnow(r) ==
    /\ r.op \in PaperOps /\ ~stale =>
           r.row = paper[r.paper] \/ r.row.version < paper[r.paper].version
    /\ r.op = "NOTE" => note[r.note] = NoRow
    /\ r.op = "RESOLVE" => note[r.note].paper = r.paper
    /\ r.op = "SIGN" /\ r.at = "commit" /\ r.action \in {"APPROVED", "LOCKED"} /\ ~stale
      /\ r.row = paper[r.paper] => OpenNotes(r.paper) = {}

NotesInv ==
    /\ LockedHasNoOpenNotes
    /\ \A v, w \in Workers :
          req[v].op = "NOTE" /\ req[w].op = "NOTE" /\ req[v].note = req[w].note => v = w
    /\ \A w \in Workers : NotesKnow(req[w])

\* Unless stale, an approved acceptance meets the preconditions: the decision
\* was taken on the assessment the row still shows, not on an earlier one.
ApprovalRestsOnPreconditions ==
    ~stale => (acceptance # NoRow /\ acceptance.status = "APPROVED" => acceptance.met)

\* An approval rests on the preconditions of the row it has loaded.
AcceptanceInv ==
    /\ ApprovalRestsOnPreconditions
    /\ \A w \in Workers : req[w].op = "DECIDE" /\ req[w].to = "APPROVED" => req[w].row.met

\* Only members declare.
TeamInv ==
    /\ \A s \in Staff : declaration[s] # NoRow => s \in team
    /\ \A w \in Workers : req[w].op = "DECLARE" => req[w].staff \in team

\* A request that saves the checklist or finalizes has loaded a row that was
\* not locked, and one that saw the lock row is right.
FileKnows(r) ==
    /\ r.op = "COMPLETE" => r.row = NoRow \/ ~r.row.locked
    /\ r.op = "FINALIZE" => ~r.row.locked /\ r.row.done = Checks /\ (r.lock => fileLock)

FileInv == FileLockAgrees /\ \A w \in Workers : FileKnows(req[w])

AllSettled(items, kind) == \A i \in items : Kind[i] = kind => item[i].status \in Settled[kind]

\* What a finalization has seen of the items and papers there were at its start.
WorkKnows(r) ==
    r.op = "FINALIZE" =>
        /\ r.items \subseteq Registered /\ r.papers \subseteq Written
        /\ r.at \in {"SEVERE_ISSUE", "papers", "lock", "commit"} => AllSettled(r.items, "TEST")
        /\ r.at \in {"papers", "lock", "commit"} => AllSettled(r.items, "SEVERE_ISSUE")
        /\ r.at \in {"lock", "commit"} => r.papers \cap Unlocked = {}

WorkInv ==
    /\ FinalizedWorkIsDone
    /\ \A n \in DOMAIN finalization :
          finalization[n].items \subseteq Registered /\ finalization[n].papers \subseteq Written
    /\ \A w \in Workers : WorkKnows(req[w])

\* A step leaves the requests of another kind alone.
LEMMA Untouched ==
    ASSUME NEW w \in Workers, NEW Ops, Serves(w, Ops), NEW Others, Others \cap Ops = {}, "IDLE" \notin Others
    PROVE  \A v \in Workers : req'[v].op \in Others => req'[v] = req[v]
    BY DEF Serves

-----------------------------------------------------------------------------
(* The acceptance and the team.                                            *)

LEMMA AcceptanceNext ==
    ASSUME TypeInv, AcceptanceInv, AuditNext
    PROVE  AcceptanceInv'
<1>1. PICK w \in Workers : \/ PapersStep(w) \/ AcceptanceStep(w) \/ TeamStep(w)
                           \/ RiskStep(w) \/ ItemsStep(w) \/ FileStep(w)
    BY StepKinds
<1>2. CASE ~AcceptanceStep(w)
  <2>1. PICK Ops \in {PaperOps, TeamOps, {}, ItemOps, FileOps} : Serves(w, Ops)
      BY <1>1, <1>2, PapersStepType, TeamStepType, RiskStepType, ItemsStepType, FileStepType
  <2>2. acceptance' = acceptance
      BY <1>1, <1>2, PapersStepType, TeamStepType, RiskStepType, ItemsStepType, FileStepType
      DEF planningTables
  <2>3. AcceptanceOps \cap Ops = {} /\ "IDLE" \notin AcceptanceOps
      BY DEF PaperOps, AcceptanceOps, TeamOps, ItemOps, FileOps
  <2>4. \A v \in Workers : req'[v].op \in AcceptanceOps => req'[v] = req[v]
      BY <2>1, <2>3, Untouched
  <2>5. QED
      BY <2>1, <2>2, <2>4 DEF AcceptanceInv, AcceptanceOps, ApprovalRestsOnPreconditions, Serves
<1>3. CASE AcceptanceStep(w)
  <2>1. TypeInv' /\ Serves(w, AcceptanceOps)
      BY <1>3, AcceptanceStepType
  <2>t. /\ acceptance \in AcceptanceRow \cup {NoRow} /\ req[w] \in {Idle} \cup AuditRequest
        /\ HasRows(req[w]) /\ req \in [Workers -> {Idle} \cup AuditRequest]
      BY DEF TypeInv, PlanningTablesOK
  <2>2. ASSUME NEW v \in Workers, req'[v].op = "DECIDE", req'[v].to = "APPROVED"
        PROVE  req'[v].row.met
    <3>1. CASE v # w
        BY <2>1, <2>2, <3>1 DEF Serves, AcceptanceInv
    <3>2. CASE v = w
      <4>1. PICK to \in {"APPROVED", "REJECTED"} : DecideAcceptance(w, to)
          BY <1>3, <2>2, <2>t, <3>2
          DEF AcceptanceStep, UpsertAcceptance, CommitAcceptance, CommitDecision, Begin, Finish, Idle
      <4>2. req'[w] = [op |-> "DECIDE", row |-> acceptance, to |-> to] /\ (to = "APPROVED" => acceptance.met)
          BY <2>t, <4>1 DEF DecideAcceptance, Begin
      <4>3. QED
          BY <2>2, <3>2, <4>2
    <3>3. QED
        BY <3>1, <3>2
  <2>3. ApprovalRestsOnPreconditions'
    <3> SUFFICES ASSUME ~stale', acceptance' # NoRow, acceptance'.status = "APPROVED"
                 PROVE  acceptance'.met
        BY DEF ApprovalRestsOnPreconditions
    <3>1. ~stale
        BY <2>1 DEF Serves
    <3>2. CASE acceptance' = acceptance
        BY <3>1, <3>2 DEF AcceptanceInv, ApprovalRestsOnPreconditions
    <3>3. CASE CommitAcceptance(w) /\ acceptance' # acceptance
      <4>1. acceptance = req[w].row
          BY <3>3 DEF CommitAcceptance
      <4>2. \/ acceptance' = [status |-> "DRAFT", met |-> req[w].met, version |-> 1]
            \/ acceptance' = AcceptanceAfter(acceptance, req[w])
          BY <3>3 DEF CommitAcceptance
      <4>3. QED
          BY <4>1, <4>2 DEF AcceptanceAfter, Column
    <3>4. CASE CommitDecision(w)
      <4> DEFINE to == Column(acceptance.status, req[w].row.status, req[w].to)
                 row == [acceptance EXCEPT !.status = to, !.version = req[w].row.version + 1]
      <4>1. req[w] \in DecideRequest /\ acceptance = req[w].row /\ req[w].op = "DECIDE"
          BY <2>t, <3>4, RequestKinds DEF CommitDecision
      <4>2. acceptance' = row /\ acceptance \in AcceptanceRow
          BY <3>4, <4>1 DEF CommitDecision, DecideRequest
      <4>3. row.status = req[w].to /\ row.met = acceptance.met
          BY <4>1, <4>2 DEF Column, AcceptanceRow
      <4>4. QED
          BY <4>1, <4>2, <4>3 DEF AcceptanceInv
    <3>5. QED
        BY <1>3, <3>2, <3>3, <3>4
        DEF AcceptanceStep, UpsertAcceptance, DecideAcceptance, planningTables
  <2>4. QED
      BY <2>2, <2>3 DEF AcceptanceInv
<1>4. QED
    BY <1>2, <1>3

LEMMA TeamNext ==
    ASSUME TypeInv, TeamInv, AuditNext
    PROVE  TeamInv'
<1>1. PICK w \in Workers : \/ PapersStep(w) \/ AcceptanceStep(w) \/ TeamStep(w)
                           \/ RiskStep(w) \/ ItemsStep(w) \/ FileStep(w)
    BY StepKinds
<1>2. CASE ~TeamStep(w)
  <2>1. PICK Ops \in {PaperOps, AcceptanceOps, {}, ItemOps, FileOps} : Serves(w, Ops)
      BY <1>1, <1>2, PapersStepType, AcceptanceStepType, RiskStepType, ItemsStepType, FileStepType
  <2>2. team' = team /\ declaration' = declaration
      BY <1>1, <1>2, PapersStepType, AcceptanceStepType, RiskStepType, ItemsStepType, FileStepType
      DEF planningTables
  <2>3. TeamOps \cap Ops = {} /\ "IDLE" \notin TeamOps
      BY DEF PaperOps, AcceptanceOps, TeamOps, ItemOps, FileOps
  <2>4. \A v \in Workers : req'[v].op \in TeamOps => req'[v] = req[v]
      BY <2>1, <2>3, Untouched
  <2>5. QED
      BY <2>2, <2>4 DEF TeamInv, TeamOps
<1>3. CASE TeamStep(w)
  <2>t. /\ req \in [Workers -> {Idle} \cup AuditRequest] /\ req[w] \in {Idle} \cup AuditRequest
        /\ declaration \in [Staff -> DeclarationRow \cup {NoRow}]
      BY DEF TypeInv, PlanningTablesOK
  <2>1. CASE \E s \in Staff : AssignMember(w, s)
      BY <2>1 DEF AssignMember, TeamInv
  <2>2. ASSUME NEW s \in Staff, NEW to \in Declared, DeclareIndependence(w, s, to)
        PROVE  TeamInv'
    <3>1. s \in team /\ team' = team /\ declaration' = declaration
        BY <2>2 DEF DeclareIndependence, planningTables
    <3>2. \A v \in Workers : req'[v] = IF v = w THEN [op |-> "DECLARE", staff |-> s, row |-> declaration[s], to |-> to]
                                       ELSE req[v]
        BY <2>2, <2>t DEF DeclareIndependence, Begin
    <3>3. QED
        BY <3>1, <3>2 DEF TeamInv
  <2>3. CASE CommitDeclaration(w)
    <3>1. req[w] \in DeclareRequest /\ req[w].op = "DECLARE" /\ req[w].staff \in team /\ team' = team
        BY <2>t, <2>3, RequestKinds DEF CommitDeclaration, TeamInv
    <3>2. \A s \in Staff : declaration'[s] # NoRow => s \in team
        BY <2>t, <2>3, <3>1 DEF CommitDeclaration, TeamInv
    <3>3. \A v \in Workers : req'[v] = IF v = w THEN Idle ELSE req[v]
        BY <2>t, <2>3 DEF CommitDeclaration, Finish
    <3>4. QED
        BY <3>1, <3>2, <3>3, IdleOK DEF TeamInv
  <2>4. QED
      BY <1>3, <2>1, <2>2, <2>3 DEF TeamStep
<1>4. QED
    BY <1>2, <1>3

\* As many declarations as members are declarations of all of them.
LEMMA CountedMembers ==
    ASSUME TypeInv, TeamInv
    PROVE  IndependenceIsPerMember
<1> DEFINE made == {s \in Staff : declaration[s] # NoRow}
<1>1. IsFiniteSet(team) /\ made \in SUBSET team
    BY AuditAssumption, FS_Subset DEF TypeInv, PlanningTablesOK, TeamInv
<1>2. IsFiniteSet(made) /\ Cardinality(made) <= Cardinality(team) /\ (Cardinality(team) = Cardinality(made) => team = made)
    BY <1>1, FS_Subset
<1>3. Cardinality(team) \in Nat /\ Cardinality(made) \in Nat /\ (Cardinality(team) = 0 <=> team = {})
    BY <1>1, <1>2, FS_CardinalityType, FS_EmptySet
<1>4. Cardinality(made) >= Cardinality(team) <=> made = team
    BY <1>2, <1>3
<1>5. \A s \in Staff : declaration[s] # NoRow =>
          (declaration[s].status = "CLEAR" <=> declaration[s] = [status |-> "CLEAR"])
    BY DEF TypeInv, PlanningTablesOK, DeclarationRow
<1>6. [status |-> "CLEAR"] # NoRow /\ team \subseteq Staff
    BY DEF NoRow, TypeInv, PlanningTablesOK
<1>7. IndependenceClear(Cardinality(team))
        <=> team # {} /\ made = team /\ \A s \in made : declaration[s].status = "CLEAR"
    BY <1>3, <1>4 DEF IndependenceClear
<1>8. QED
    BY <1>1, <1>5, <1>6, <1>7 DEF IndependenceIsPerMember

-----------------------------------------------------------------------------
(* The lock of the file.                                                   *)

LEMMA FileRows ==
    ASSUME TypeInv
    PROVE  /\ completion \in CompletionRow \cup {NoRow} /\ fileLock \in BOOLEAN
           /\ finalization \in Seq([items : SUBSET Items, papers : SUBSET Papers])
           /\ req \in [Workers -> {Idle} \cup AuditRequest]
           /\ \A w \in Workers : /\ req[w] \in {Idle} \cup AuditRequest
                                 /\ req[w].op = "FINALIZE" => /\ req[w] \in FinalizeRequest
                                                              /\ req[w].row \in CompletionRow
                                                              /\ completion \in CompletionRow
                                 /\ req[w].op = "COMPLETE" => /\ req[w] \in CompleteRequest
                                                              /\ req[w].row \in CompletionRow \cup {NoRow}
                                                              /\ req[w].row # NoRow => completion \in CompletionRow
<1>1. /\ completion \in CompletionRow \cup {NoRow} /\ fileLock \in BOOLEAN
      /\ finalization \in Seq([items : SUBSET Items, papers : SUBSET Papers])
      /\ req \in [Workers -> {Idle} \cup AuditRequest]
    BY DEF TypeInv, ExecutionTablesOK
<1>2. ASSUME NEW w \in Workers
      PROVE  /\ req[w].op = "FINALIZE" => /\ req[w] \in FinalizeRequest
                                          /\ req[w].row \in CompletionRow
                                          /\ completion \in CompletionRow
             /\ req[w].op = "COMPLETE" => /\ req[w] \in CompleteRequest
                                          /\ req[w].row \in CompletionRow \cup {NoRow}
                                          /\ req[w].row # NoRow => completion \in CompletionRow
  <2>1. req[w] \in {Idle} \cup AuditRequest /\ HasRows(req[w])
      BY DEF TypeInv
  <2>2. CASE req[w].op = "FINALIZE"
    <3>1. req[w] \in FinalizeRequest /\ req[w].row \in CompletionRow
        BY <2>1, <2>2, RequestKinds DEF FinalizeRequest
    <3>2. QED
        BY <1>1, <2>1, <2>2, <3>1, RowFields DEF HasRows, FileOps
  <2>3. CASE req[w].op = "COMPLETE"
    <3>1. req[w] \in CompleteRequest /\ req[w].row \in CompletionRow \cup {NoRow}
        BY <2>1, <2>3, RequestKinds DEF CompleteRequest
    <3>2. QED
        BY <1>1, <2>1, <2>3, <3>1 DEF HasRows, FileOps
  <2>4. QED
      BY <2>2, <2>3
<1>3. QED
    BY <1>1, <1>2

\* Saving the checklist never changes the lock flag; and over a finalized row
\* it is stale.
LEMMA ChecklistCommit ==
    ASSUME TypeInv, FileInv, NEW w \in Workers, CommitCompletion(w)
    PROVE  \/ completion' = completion
           \/ (Finalized' <=> Finalized) /\ (Finalized => stale')
<1> DEFINE r == req[w]
<1>1. r \in CompleteRequest /\ r.op = "COMPLETE" /\ (r.row = NoRow \/ ~r.row.locked)
    BY FileRows DEF CommitCompletion, FileInv, FileKnows
<1>2. CASE r.row = NoRow /\ completion = NoRow
  <2>1. completion'.locked = FALSE /\ ~Finalized
      BY <1>2 DEF CommitCompletion, Finalized
  <2>2. QED
      BY <2>1 DEF Finalized
<1>3. CASE r.row # NoRow
  <2>1. r.row \in CompletionRow /\ completion \in CompletionRow
      BY <1>1, <1>3, FileRows
  <2>2. completion' = ChecklistAfter(completion, r) /\ stale' = (stale \/ completion # r.row)
      BY <1>3 DEF CommitCompletion
  <2>3. completion' \in CompletionRow /\ completion'.locked = completion.locked
      BY <1>1, <2>1, <2>2, ChecklistFields
  <2>4. QED
      BY <1>1, <1>3, <2>1, <2>2, <2>3, RowFields DEF Finalized
<1>4. QED
    BY <1>2, <1>3 DEF CommitCompletion

LEMMA FinalizeCommit ==
    ASSUME TypeInv, FileInv, NEW w \in Workers, CommitFinalize(w)
    PROVE  FileLockAgrees'
<1> DEFINE r == req[w]
           entry == [items |-> r.items, papers |-> r.papers]
<1>1. /\ r \in FinalizeRequest /\ r.row \in CompletionRow /\ completion \in CompletionRow
      /\ ~r.row.locked /\ r.row.done = Checks /\ (r.lock => fileLock) /\ r.lock \in BOOLEAN
    BY FileRows DEF CommitFinalize, FileInv, FileKnows, FinalizeRequest
<1>2. CASE ~r.lock /\ fileLock
    BY <1>2 DEF CommitFinalize, FileInv, FileLockAgrees, Finalized
<1>3. CASE ~(~r.lock /\ fileLock)
  <2>1. /\ completion' = FinalizedRow(r) /\ fileLock' = TRUE
        /\ finalization' = Append(finalization, entry)
        /\ stale' = (stale \/ completion # r.row)
      BY <1>3 DEF CommitFinalize, FinalizedRow
  <2>2. completion' \in CompletionRow /\ completion'.locked /\ Finalized'
      BY <1>1, <2>1, FinalizedRowFields, RowFields DEF Finalized
  <2>3. finalization' # <<>> /\ (finalization = <<>> => Len(finalization') = 1)
    <3>1. Len(finalization') = Len(finalization) + 1
        BY <2>1, FileRows
    <3>2. QED
        BY <3>1, FileRows
  <2>4. ASSUME ~stale'
        PROVE  Len(finalization') = 1 /\ completion'.status = "FINALIZED" /\ completion'.done = Checks
    <3>1. completion = r.row
        BY <2>1, <2>4
    <3>2. finalization = <<>>
        BY <1>1, <3>1 DEF FileInv, FileLockAgrees, Finalized
    <3>3. completion'.status = "FINALIZED" /\ completion'.done = Checks
        BY <1>1, <2>1, <3>1, FinalizedRowFields DEF Column
    <3>4. QED
        BY <2>3, <3>2, <3>3
  <2>5. QED
      BY <2>1, <2>2, <2>3, <2>4 DEF FileLockAgrees
<1>4. QED
    BY <1>2, <1>3

LEMMA FileNext ==
    ASSUME TypeInv, FileInv, AuditNext
    PROVE  FileInv'
<1>1. PICK w \in Workers : \/ PapersStep(w) \/ AcceptanceStep(w) \/ TeamStep(w)
                           \/ RiskStep(w) \/ ItemsStep(w) \/ FileStep(w)
    BY StepKinds
<1>2. CASE ~FileStep(w)
  <2>1. PICK Ops \in {PaperOps, AcceptanceOps, TeamOps, {}, ItemOps} : Serves(w, Ops)
      BY <1>1, <1>2, PapersStepType, AcceptanceStepType, TeamStepType, RiskStepType, ItemsStepType
  <2>2. completion' = completion /\ fileLock' = fileLock /\ finalization' = finalization
      BY <1>1, <1>2, PapersStepType, AcceptanceStepType, TeamStepType, RiskStepType, ItemsStepType
      DEF executionTables
  <2>3. FileOps \cap Ops = {} /\ "IDLE" \notin FileOps
      BY DEF PaperOps, AcceptanceOps, TeamOps, ItemOps, FileOps
  <2>4. \A v \in Workers : req'[v].op \in FileOps => req'[v] = req[v]
      BY <2>1, <2>3, Untouched
  <2>5. FileLockAgrees'
      BY <2>1, <2>2 DEF FileInv, FileLockAgrees, Finalized, Serves
  <2>6. QED
      BY <2>2, <2>4, <2>5 DEF FileInv, FileKnows, FileOps
<1>3. ASSUME NEW r, req' = [req EXCEPT ![w] = r], FileKnows(r), fileLock => fileLock', FileLockAgrees'
      PROVE  FileInv'
  <2>1. \A v \in Workers : req'[v] = IF v = w THEN r ELSE req[v]
      BY <1>3, FileRows
  <2>2. QED
      BY <1>3, <2>1 DEF FileInv, FileKnows
<1>4. ASSUME UNCHANGED <<paperTables, planningTables, executionTables>>
      PROVE  FileLockAgrees' /\ (fileLock => fileLock')
    BY <1>4 DEF FileInv, FileLockAgrees, Finalized, executionTables, paperTables
<1>5. CASE \E done \in SUBSET Checks : UpsertCompletion(w, done)
  <2>1. PICK done \in SUBSET Checks : UpsertCompletion(w, done)
      BY <1>5
  <2> DEFINE r == [op |-> "COMPLETE", row |-> completion, done |-> done]
  <2>2. FileKnows(r)
      BY <2>1 DEF UpsertCompletion, Finalized, FileKnows
  <2>3. QED
      BY <1>3, <1>4, <2>1, <2>2 DEF UpsertCompletion, Begin
<1>6. CASE Finalize(w)
  <2> DEFINE r == [op |-> "FINALIZE", at |-> "acceptance", row |-> completion,
                   members |-> 0, unread |-> {}, lock |-> FALSE,
                   items |-> Registered, papers |-> Written]
  <2>1. FileKnows(r)
      BY <1>6 DEF Finalize, FileKnows
  <2>2. QED
      BY <1>3, <1>4, <1>6, <2>1 DEF Finalize, Begin
<1>7. CASE GateRead(w)
  <2>1. FileKnows(req[w]) /\ FileKnows(Idle)
      BY DEF FileInv, FileKnows, Idle
  <2>2. \A r : GateStep(req[w], r) => FileKnows(r)
      BY <1>7, <2>1, GateReads DEF GateStep, FileKnows
  <2>3. QED
      BY <1>3, <1>4, <1>7, <2>1, <2>2, GateReads
<1>8. CASE CommitCompletion(w)
  <2>1. /\ fileLock' = fileLock /\ finalization' = finalization /\ (stale => stale')
        /\ req' = [req EXCEPT ![w] = Idle] /\ FileKnows(Idle)
      BY <1>8 DEF CommitCompletion, Finish, FileKnows, Idle
  <2>2. FileLockAgrees'
      BY <1>8, <2>1, ChecklistCommit DEF FileInv, FileLockAgrees, Finalized
  <2>3. QED
      BY <1>3, <2>1, <2>2
<1>9. CASE CommitFinalize(w)
  <2>1. fileLock'
      BY <1>9 DEF CommitFinalize
  <2>2. QED
      BY <1>3, <1>9, <2>1, FinalizeCommit DEF CommitFinalize, Finish, FileKnows, Idle
<1>10. QED
    BY <1>1, <1>2, <1>5, <1>6, <1>7, <1>8, <1>9 DEF FileStep, GateRead

-----------------------------------------------------------------------------
(* The work behind a finalization.                                         *)

\* A commit that leaves the status and the lock flag of its paper alone.
PlainCommit(w) ==
    \/ CommitEdit(w) \/ CommitNote(w) \/ CommitResolve(w)
    \/ CommitLink(w) /\ <<req[w].paper, req[w].file>> \notin evidence

RepeatedLink(w) == CommitLink(w) /\ <<req[w].paper, req[w].file>> \in evidence

LEMMA PaperCases ==
    ASSUME TypeInv, NEW w \in Workers, PapersStep(w)
    PROVE  \/ \E p \in Papers, c \in Contents : CreatePaper(w, p, c)
           \/ \E f \in Files : ArchiveFile(w, f)
           \/ \E p \in Papers : \E r : Arrival(w, p, r)
           \/ PaperRead(w)
           \/ RepeatedLink(w)
           \/ PlainCommit(w)
           \/ CommitSignOff(w)
    BY PaperArrivals DEF PapersStep, PaperRequestStep, PaperRead, RepeatedLink, PlainCommit

LEMMA RepeatedLinkRead ==
    ASSUME TypeInv, NEW w \in Workers, RepeatedLink(w)
    PROVE  UNCHANGED paperTables /\ req' = [req EXCEPT ![w] = Idle] /\ req[w].op \in PaperOps
<1>1. evidence' = evidence \cup {<<req[w].paper, req[w].file>>} /\ evidence' = evidence
    BY DEF RepeatedLink, CommitLink
<1>2. QED
    BY <1>1 DEF RepeatedLink, CommitLink, Finish, paperTables, PaperOps, TypeInv

\* A paper is never removed, and its lock flag never taken off.
LEMMA PapersGoOn ==
    ASSUME TypeInv, NEW w \in Workers, PapersStep(w)
    PROVE  \A p \in Papers : paper[p] # NoRow =>
               paper'[p] # NoRow /\ (paper[p].locked => paper'[p].locked)
<1>t. paper \in [Papers -> PaperRow \cup {NoRow}]
    BY DEF TypeInv, PaperTablesOK
<1>1. ASSUME NEW row, PaperCommit(w, row), req[w].op \in PaperOps, paper[req[w].paper].locked => row.locked
      PROVE  \A p \in Papers : paper[p] # NoRow =>
                 paper'[p] # NoRow /\ (paper[p].locked => paper'[p].locked)
    BY <1>t, <1>1, RequestOfPaper, RowFields DEF PaperCommit
<1>2. CASE PlainCommit(w)
  <2>1. req[w].op \in PaperOps
      BY <1>2 DEF PlainCommit, CommitEdit, CommitLink, CommitNote, CommitResolve, PaperOps
  <2>2. PICK row \in PaperRow : PaperCommit(w, row) /\ row.locked = paper[req[w].paper].locked
      BY <1>2, CommitRow DEF PlainCommit
  <2>3. QED
      BY <1>1, <2>1, <2>2
<1>3. CASE CommitSignOff(w)
    BY <1>1, <1>3, SignOffRow DEF CommitSignOff, PaperOps
<1>4. CASE \E p \in Papers, c \in Contents : CreatePaper(w, p, c)
    BY <1>t, <1>4 DEF CreatePaper
<1>5. CASE paper' = paper
    BY <1>5
<1>6. QED
    BY <1>2, <1>3, <1>4, <1>5, PaperCases, OpenedPaper, Arrived, PaperReads, RepeatedLinkRead
    DEF ArchiveFile, paperTables

\* An item is never removed, and a test or severe issue that is done stays so.
LEMMA ItemsGoOn ==
    ASSUME TypeInv, NEW w \in Workers, ItemsStep(w)
    PROVE  \A i \in Items : item[i] # NoRow =>
               /\ item'[i] # NoRow
               /\ Kind[i] \in Demanded /\ item[i].status \in Settled[Kind[i]]
                      => item'[i].status \in Settled[Kind[i]]
<1>t. /\ item \in [Items -> AnyItemRow \cup {NoRow}] /\ \A i \in Items : item[i] \in ItemRow(i) \cup {NoRow}
      /\ req[w] \in {Idle} \cup AuditRequest /\ HasRows(req[w]) /\ RequestOK(req[w])
    BY DEF TypeInv, ExecutionTablesOK
<1>1. CASE CommitItem(w)
    BY <1>t, <1>1 DEF CommitItem
<1>2. CASE CommitMove(w)
  <2> DEFINE r == req[w]
             i == r.item
             to == Column(item[i].status, r.row.status, r.to)
             row == [item[i] EXCEPT !.status = to, !.version = r.row.version + 1]
  <2>1. i \in Items /\ r.to \in Target[Kind[i]] /\ item[i] \in ItemRow(i)
      BY <1>t, <1>2, RequestKinds DEF CommitMove, RequestOK, MoveRequest, HasRows
  <2>2. item' = [item EXCEPT ![i] = row]
    <3>1. item' = [item EXCEPT ![i].status = to, ![i].version = r.row.version + 1]
        BY <1>2 DEF CommitMove
    <3> HIDE DEF to
    <3>2. QED
        BY <1>t, <2>1, <3>1
  <2>3. to \in {item[i].status, r.to}
      BY DEF Column
  <2> HIDE DEF to
  <2>4. row.status = to
      BY <2>1 DEF ItemRow
  <2>5. \A j \in Items : item'[j] = IF j = i THEN row ELSE item[j]
      BY <1>t, <2>1, <2>2
  <2>6. Kind[i] \in Demanded => Target[Kind[i]] \subseteq Settled[Kind[i]]
      BY KindFacts DEF Demanded
  <2>7. \A j \in Items : item[j] # NoRow => item'[j] # NoRow
    <3>1. item[i].status \in ItemStatus[Kind[i]] /\ r.to \in ItemStatus[Kind[i]] /\ "NO_ROW" \notin ItemStatus[Kind[i]]
        BY <2>1, ItemFields, KindFacts
    <3>2. row.status # "NO_ROW"
        BY <2>3, <2>4, <3>1
    <3>3. row # NoRow
        BY <3>2 DEF NoRow
    <3>4. QED
        BY <2>5, <3>3
  <2>8. QED
      BY <2>1, <2>3, <2>4, <2>5, <2>6, <2>7
<1>3. CASE item' = item
    BY <1>3
<1>4. QED
    BY <1>1, <1>2, <1>3 DEF ItemsStep, CreateItem, MoveItem, CheckNotFinalized, executionTables

WorkGoesOn ==
    /\ \A p \in Papers : paper[p] # NoRow =>
           paper'[p] # NoRow /\ (paper[p].locked => paper'[p].locked)
    /\ \A i \in Items : item[i] # NoRow =>
           /\ item'[i] # NoRow
           /\ Kind[i] \in Demanded /\ item[i].status \in Settled[Kind[i]]
                  => item'[i].status \in Settled[Kind[i]]

\* What is done stays done, so that what was seen of it stays true.
LEMMA DoneStaysDone ==
    ASSUME WorkGoesOn, NEW items \in SUBSET Registered, NEW papers \in SUBSET Written
    PROVE  /\ items \subseteq Registered' /\ papers \subseteq Written'
           /\ \A k \in Demanded : AllSettled(items, k) => AllSettled(items, k)'
           /\ papers \cap Unlocked = {} => papers \cap Unlocked' = {}
<1>1. items \subseteq Registered' /\ papers \subseteq Written'
    BY DEF WorkGoesOn, Registered, Written
<1>2. \A k \in Demanded : AllSettled(items, k) => AllSettled(items, k)'
    BY DEF WorkGoesOn, Registered, AllSettled
<1>3. papers \cap Unlocked = {} => papers \cap Unlocked' = {}
    BY DEF WorkGoesOn, Written, Unlocked
<1>4. QED
    BY <1>1, <1>2, <1>3


LEMMA WorkKnowsStays ==
    ASSUME WorkGoesOn, NEW r, WorkKnows(r)
    PROVE  WorkKnows(r)'
<1> SUFFICES ASSUME r.op = "FINALIZE" PROVE WorkKnows(r)'
    BY DEF WorkKnows
<1>1. r.items \in SUBSET Registered /\ r.papers \in SUBSET Written
    BY DEF WorkKnows
<1>2. /\ r.items \subseteq Registered' /\ r.papers \subseteq Written'
      /\ AllSettled(r.items, "TEST") => AllSettled(r.items, "TEST")'
      /\ AllSettled(r.items, "SEVERE_ISSUE") => AllSettled(r.items, "SEVERE_ISSUE")'
      /\ r.papers \cap Unlocked = {} => r.papers \cap Unlocked' = {}
    BY <1>1, DoneStaysDone DEF Demanded
<1>3. QED
    BY <1>2 DEF WorkKnows

\* The part of WorkInv about finalizations that have committed.
Recorded(entry) ==
    /\ entry.items \subseteq Registered /\ entry.papers \subseteq Written
    /\ AllSettled(entry.items, "TEST") /\ AllSettled(entry.items, "SEVERE_ISSUE")
    /\ entry.papers \cap Unlocked = {}

LEMMA WorkInvRecorded ==
    WorkInv <=> /\ \A n \in DOMAIN finalization : Recorded(finalization[n])
                /\ \A w \in Workers : WorkKnows(req[w])
<1>1. ASSUME NEW n \in DOMAIN finalization
      PROVE  (\A i \in finalization[n].items :
                 Kind[i] \in {"TEST", "SEVERE_ISSUE"} => item[i].status \in Settled[Kind[i]])
             <=> /\ AllSettled(finalization[n].items, "TEST")
                 /\ AllSettled(finalization[n].items, "SEVERE_ISSUE")
    BY DEF AllSettled
<1>2. QED
    BY <1>1 DEF WorkInv, FinalizedWorkIsDone, Recorded

LEMMA RecordedStays ==
    ASSUME WorkGoesOn, NEW entry, Recorded(entry)
    PROVE  Recorded(entry)'
<1>1. entry.items \in SUBSET Registered /\ entry.papers \in SUBSET Written
    BY DEF Recorded
<1>2. /\ entry.items \subseteq Registered' /\ entry.papers \subseteq Written'
      /\ AllSettled(entry.items, "TEST") => AllSettled(entry.items, "TEST")'
      /\ AllSettled(entry.items, "SEVERE_ISSUE") => AllSettled(entry.items, "SEVERE_ISSUE")'
      /\ entry.papers \cap Unlocked = {} => entry.papers \cap Unlocked' = {}
    BY <1>1, DoneStaysDone DEF Demanded
<1>3. QED
    BY <1>2 DEF Recorded

\* What the last three counts of _readiness want to see.
LEMMA GateShows ==
    ASSUME NEW q
    PROVE  /\ Gate(q)["TEST"] <=> Unsettled("TEST") = {}
           /\ Gate(q)["SEVERE_ISSUE"] <=> Unsettled("SEVERE_ISSUE") = {}
           /\ Gate(q)["papers"] <=> Unlocked = {}
<1> DEFINE a == acceptance # NoRow /\ acceptance.status = "APPROVED"
           b == team # {}
           c == IndependenceClear(q.members)
           d == q.unread = {}
           e == Unsettled("REQUISITION") = {}
           f == Unsettled("TEST") = {}
           g == Unsettled("SEVERE_ISSUE") = {}
           h == Unlocked = {}
<1>1. Gate(q) = [acceptance |-> a, materiality |-> materiality, team |-> b, declarations |-> c,
                 risks |-> TRUE, procedures |-> d, REQUISITION |-> e, TEST |-> f,
                 SEVERE_ISSUE |-> g, papers |-> h]
    BY DEF Gate
<1> HIDE DEF a, b, c, d, e, f, g, h
<1>2. Gate(q)["TEST"] = f /\ Gate(q)["SEVERE_ISSUE"] = g /\ Gate(q)["papers"] = h
    BY <1>1
<1>3. QED
    BY <1>2 DEF f, g, h

\* A read of a finalization that lets it go on has seen its count to be zero.
LEMMA GateSees ==
    ASSUME NEW q, WorkKnows(q), q.op = "FINALIZE", NEW r, GateStep(q, r)
    PROVE  WorkKnows(r)
<1>1. r.op = "FINALIZE" /\ r.items = q.items /\ r.papers = q.papers
    BY DEF GateStep
<1>2. r.items \subseteq Registered /\ r.papers \subseteq Written
    BY <1>1 DEF WorkKnows
<1>3. CASE r.at = q.at
    BY <1>1, <1>3 DEF WorkKnows
<1>4. CASE q.at = "lock" /\ r.at = "commit"
    BY <1>1, <1>4 DEF WorkKnows
<1>5. CASE q.at \in DOMAIN NextGate /\ Gate(q)[q.at] /\ r.at = NextGate[q.at]
  <2>1. CASE q.at = "TEST"
    <3>1. Unsettled("TEST") = {} /\ r.at = "SEVERE_ISSUE"
        BY <1>5, <2>1, GateShows DEF NextGate
    <3>2. AllSettled(r.items, "TEST")
        BY <1>2, <3>1 DEF Unsettled, Registered, AllSettled
    <3>3. QED
        BY <1>2, <3>1, <3>2 DEF WorkKnows
  <2>2. CASE q.at = "SEVERE_ISSUE"
    <3>1. Unsettled("SEVERE_ISSUE") = {} /\ r.at = "papers"
        BY <1>5, <2>2, GateShows DEF NextGate
    <3>2. AllSettled(r.items, "SEVERE_ISSUE") /\ AllSettled(r.items, "TEST")
        BY <1>1, <1>2, <2>2, <3>1 DEF Unsettled, Registered, AllSettled, WorkKnows
    <3>3. QED
        BY <1>2, <3>1, <3>2 DEF WorkKnows
  <2>3. CASE q.at = "papers"
    <3>1. Unlocked = {} /\ r.at = "lock"
        BY <1>5, <2>3, GateShows DEF NextGate
    <3>2. QED
        BY <1>1, <1>2, <2>3, <3>1 DEF WorkKnows
  <2>4. CASE q.at \notin {"TEST", "SEVERE_ISSUE", "papers"}
    <3>1. r.at \notin {"SEVERE_ISSUE", "papers", "lock", "commit"}
        BY <1>5, <2>4 DEF NextGate
    <3>2. QED
        BY <1>2, <3>1 DEF WorkKnows
  <2>5. QED
      BY <2>1, <2>2, <2>3, <2>4
<1>6. QED
    BY <1>3, <1>4, <1>5 DEF GateStep

LEMMA WorkNext ==
    ASSUME TypeInv, WorkInv, AuditNext
    PROVE  WorkInv'
<1>0. /\ \A n \in DOMAIN finalization : Recorded(finalization[n])
      /\ \A v \in Workers : WorkKnows(req[v])
    BY WorkInvRecorded
<1>1. PICK w \in Workers : \/ PapersStep(w) \/ AcceptanceStep(w) \/ TeamStep(w)
                           \/ RiskStep(w) \/ ItemsStep(w) \/ FileStep(w)
    BY StepKinds
<1>2. WorkGoesOn
  <2>1. CASE PapersStep(w)
      BY <2>1, PapersGoOn, PapersStepType DEF WorkGoesOn, executionTables
  <2>2. CASE ItemsStep(w)
      BY <2>2, ItemsGoOn, ItemsStepType DEF WorkGoesOn, paperRows
  <2>3. CASE item' = item /\ paper' = paper
      BY <2>3 DEF WorkGoesOn
  <2>4. QED
      BY <1>1, <2>1, <2>2, <2>3, AcceptanceStepType, TeamStepType, RiskStepType, FileStepType
      DEF paperRows, executionTables
<1>3. ASSUME NEW v \in Workers, WorkKnows(req'[v])
      PROVE  WorkKnows(req[v])'
    BY <1>2, <1>3, WorkKnowsStays
<1>4. ASSUME NEW v \in Workers
      PROVE  WorkKnows(req'[v])
  <2>1. CASE req'[v] = req[v]
      BY <1>0, <2>1
  <2>2. CASE req'[v].op # "FINALIZE"
      BY <2>2 DEF WorkKnows
  <2>3. CASE Finalize(w)
    <3>1. v = w /\ req'[v] # req[v] =>
              req'[v] = [op |-> "FINALIZE", at |-> "acceptance", row |-> completion,
                         members |-> 0, unread |-> {}, lock |-> FALSE,
                         items |-> Registered, papers |-> Written]
        BY <2>3 DEF Finalize, Begin, TypeInv
    <3>2. v # w => req'[v] = req[v]
        BY <2>3 DEF Finalize, Begin, TypeInv
    <3>3. QED
        BY <2>1, <3>1, <3>2 DEF WorkKnows
  <2>4. CASE GateRead(w)
    <3>1. v # w => req'[v] = req[v]
        BY <2>4, GateReads DEF TypeInv
    <3>2. v = w => req'[v] = Idle \/ GateStep(req[w], req'[v])
        BY <2>4, GateReads DEF TypeInv
    <3>3. QED
        BY <1>0, <2>1, <2>2, <2>4, <3>1, <3>2, GateReads, GateSees, IdleOK
  <2>5. CASE ~Finalize(w) /\ ~GateRead(w)
    <3>1. CASE FileStep(w)
      <4>1. \/ \E done \in SUBSET Checks : UpsertCompletion(w, done)
            \/ CommitCompletion(w) \/ CommitFinalize(w)
          BY <2>5, <3>1 DEF FileStep, GateRead
      <4>2. req'[w].op # "FINALIZE"
          BY <4>1 DEF UpsertCompletion, CommitCompletion, CommitFinalize, Begin, Finish, Idle, TypeInv
      <4>3. v # w => req'[v] = req[v]
          BY <3>1, FileStepType DEF Serves
      <4>4. QED
          BY <2>1, <2>2, <4>2, <4>3
    <3>2. CASE ~FileStep(w)
      <4>1. PICK Ops \in {PaperOps, AcceptanceOps, TeamOps, {}, ItemOps} : Serves(w, Ops)
          BY <1>1, <3>2, PapersStepType, AcceptanceStepType, TeamStepType, RiskStepType, ItemsStepType
      <4>2. "FINALIZE" \notin Ops
          BY DEF PaperOps, AcceptanceOps, TeamOps, ItemOps
      <4>3. QED
          BY <2>1, <2>2, <4>1, <4>2 DEF Serves
    <3>3. QED
        BY <3>1, <3>2
  <2>6. QED
      BY <2>3, <2>4, <2>5
<1>5. ASSUME NEW n \in DOMAIN finalization'
      PROVE  Recorded(finalization'[n])
  <2>1. CASE finalization' = finalization
      BY <1>0, <2>1
  <2>2. CASE finalization' # finalization
    <3> DEFINE r == req[w]
               entry == [items |-> r.items, papers |-> r.papers]
    <3>1. CommitFinalize(w)
        BY <1>1, <2>2, PapersStepType, AcceptanceStepType, TeamStepType, RiskStepType, ItemsStepType, GateReads
        DEF FileStep, UpsertCompletion, CommitCompletion, Finalize, GateRead, executionTables
    <3>2. finalization' = Append(finalization, entry) /\ r.op = "FINALIZE" /\ r.at = "commit"
        BY <2>2, <3>1 DEF CommitFinalize
    <3>3. Recorded(entry)
        BY <1>0, <3>2 DEF WorkKnows, Recorded
    <3> HIDE DEF entry
    <3>4. finalization'[n] = IF n = Len(finalization) + 1 THEN entry ELSE finalization[n]
        BY <3>2, FileRows
    <3>5. n \in DOMAIN finalization \/ n = Len(finalization) + 1
        BY <3>2, FileRows
    <3>6. QED
        BY <1>0, <3>3, <3>4, <3>5
  <2>3. QED
      BY <2>1, <2>2
<1>6. \A n \in DOMAIN finalization' : Recorded(finalization[n])'
    BY <1>2, <1>5, RecordedStays
<1>7. \A v \in Workers : WorkKnows(req[v])'
    BY <1>3, <1>4
<1>8. ASSUME NEW n \in DOMAIN finalization'
      PROVE  /\ finalization'[n].items \subseteq Registered' /\ finalization'[n].papers \subseteq Written'
             /\ \A i \in finalization'[n].items :
                    Kind[i] \in {"TEST", "SEVERE_ISSUE"} => item'[i].status \in Settled[Kind[i]]
             /\ finalization'[n].papers \cap Unlocked' = {}
    BY <1>6, <1>8 DEF Recorded, AllSettled
<1>9. QED
    BY <1>7, <1>8 DEF WorkInv, FinalizedWorkIsDone

-----------------------------------------------------------------------------
(* The chain of sign-offs.                                                 *)

\* The rows of a log after one more is appended.
LEMMA Appended ==
    ASSUME NEW S, NEW s \in Seq(S), NEW e
    PROVE  /\ Len(s) \in Nat /\ DOMAIN s = 1..Len(s)
           /\ Append(s, e) # <<>> /\ Len(Append(s, e)) = Len(s) + 1
           /\ DOMAIN Append(s, e) = 1..(Len(s) + 1)
           /\ \A i \in 1..Len(s) : Append(s, e)[i] = s[i]
           /\ Append(s, e)[Len(s) + 1] = e
    OBVIOUS

PaperChain(p) ==
    LET s == signoff[p]
    IN  /\ \A i \in DOMAIN s : i > 1 => s[i].from = s[i - 1].to /\ s[i].from = Expected[s[i].to]
        /\ paper[p].status = s[Len(s)].to
        /\ paper[p].locked <=> paper[p].status = "LOCKED"

PaperSigns(p) ==
    /\ paper[p] = NoRow <=> signoff[p] = <<>>
    /\ paper[p].status = "APPROVED" => ApprovedBefore(p)
    /\ ~stale /\ paper[p] # NoRow => PaperChain(p)

LEMMA SignInvByPaper ==
    SignInv <=> /\ \A p \in Papers : PaperSigns(p)
                /\ \A w \in Workers : SignKnows(req[w])
    BY DEF SignInv, SignoffsAreChain, PaperSigns, PaperChain

\* A paper whose status, lock flag and sign-offs a step leaves alone.
LEMMA SignsUntouched ==
    ASSUME NEW p \in Papers, PaperSigns(p), stale => stale', signoff'[p] = signoff[p],
           paper[p] # NoRow <=> paper'[p] # NoRow,
           paper'[p].status = paper[p].status, paper'[p].locked = paper[p].locked
    PROVE  PaperSigns(p)'
    BY DEF PaperSigns, PaperChain, ApprovedBefore

\* What a request knows of the sign-offs stays true while they only grow.
LEMMA SignKnowsStays ==
    ASSUME NEW r, SignKnows(r), r.op \in PaperOps => (ApprovedBefore(r.paper) => ApprovedBefore(r.paper)')
    PROVE  SignKnows(r)'
    BY DEF SignKnows

\* A request that goes on, ends or arrives knows what SignKnows says.
LEMMA SignRequests ==
    ASSUME TypeInv, SignInv, NEW w \in Workers, PapersStep(w), NEW v \in Workers
    PROVE  SignKnows(req'[v])
<1>t. req \in [Workers -> {Idle} \cup AuditRequest] /\ req[w] \in {Idle} \cup AuditRequest
    BY DEF TypeInv
<1>1. SignKnows(req[v]) /\ SignKnows(req[w]) /\ SignKnows(Idle)
    BY IdleOK DEF SignInv, SignKnows, PaperOps
<1>2. CASE req'[v] = req[v] \/ req'[v] = Idle
    BY <1>1, <1>2
<1>3. ASSUME NEW r, SignKnows(r), req' = [req EXCEPT ![w] = r]
      PROVE  SignKnows(req'[v])
  <2>1. req'[v] = IF v = w THEN r ELSE req[v]
      BY <1>t, <1>3
  <2>2. QED
      BY <1>1, <1>3, <2>1
<1>4. ASSUME NEW p \in Papers, NEW r, Arrival(w, p, r)
      PROVE  SignKnows(req'[v])
  <2>1. OpenPaper(w, p, r) /\ r.paper = p /\ r.row = paper[p] /\ r.op \in PaperOps
      BY <1>4, Arrived
  <2>2. ~r.row.locked /\ req' = [req EXCEPT ![w] = r]
      BY <2>1, OpenedPaper
  <2>3. r.row.status = "APPROVED" => ApprovedBefore(r.paper)
      BY <2>1 DEF SignInv
  <2>4. ASSUME r.op = "SIGN"
        PROVE  r.row.status = Expected[r.action]
    <3>1. PICK action \in Signoffs : SignOff(w, p, action) /\ r.action = action
        BY <1>4, <2>4 DEF Arrival
    <3>2. QED
        BY <2>1, <3>1 DEF SignOff
  <2>5. SignKnows(r)
      BY <2>2, <2>3, <2>4 DEF SignKnows
  <2>6. QED
      BY <1>3, <2>2, <2>5
<1>5. CASE PaperRead(w)
  <2>1. PICK r \in {Idle, OnToCommit(w)} : req' = [req EXCEPT ![w] = r]
      BY <1>5, PaperReads
  <2>2. req[w].op \in {"LINK", "RESOLVE", "SIGN"}
      BY <1>5 DEF PaperRead, ReadDocument, ReadNote, CountNotes
  <2>3. /\ OnToCommit(w).op = req[w].op /\ OnToCommit(w).row = req[w].row
        /\ OnToCommit(w).paper = req[w].paper
        /\ req[w].op = "SIGN" => OnToCommit(w).action = req[w].action
      BY <1>t, <2>2, RequestKinds DEF OnToCommit, LinkRequest, ResolveRequest, SignRequest
  <2>4. SignKnows(OnToCommit(w))
      BY <1>1, <2>3 DEF SignKnows
  <2>5. QED
      BY <1>1, <1>3, <2>1, <2>4
<1>6. CASE \/ \E p \in Papers, c \in Contents : CreatePaper(w, p, c)
           \/ \E f \in Files : ArchiveFile(w, f)
    BY <1>2, <1>6 DEF CreatePaper, ArchiveFile
<1>7. CASE RepeatedLink(w) \/ PlainCommit(w) \/ CommitSignOff(w)
  <2>1. req' = [req EXCEPT ![w] = Idle]
      BY <1>7 DEF RepeatedLink, PlainCommit, CommitEdit, CommitLink, CommitNote, CommitResolve,
                  CommitSignOff, Finish
  <2>2. QED
      BY <1>1, <1>3, <2>1
<1>8. QED
    BY <1>4, <1>5, <1>6, <1>7, PaperCases

\* A sign-off that is not overtaken continues the chain of its paper.
LEMMA SignOffSigns ==
    ASSUME TypeInv, SignInv, NEW w \in Workers, CommitSignOff(w), NEW p \in Papers
    PROVE  PaperSigns(p)' /\ (ApprovedBefore(p) => ApprovedBefore(p)')
<1> DEFINE r == req[w]
           now == paper[r.paper]
           row == SignedOff(now, r)
           entry == SignoffEntry(r)
           s == signoff[p]
<1>t. /\ paper \in [Papers -> PaperRow \cup {NoRow}] /\ signoff \in [Papers -> Seq(SignoffRow)]
      /\ PaperSigns(p) /\ SignKnows(r)
    BY SignInvByPaper DEF TypeInv, PaperTablesOK
<1>1. /\ paper' = [paper EXCEPT ![r.paper] = row] /\ stale' = (stale \/ Overtaken(r))
      /\ row \in PaperRow /\ row.status = r.action /\ (row.locked <=> now.locked \/ r.action = "LOCKED")
      /\ r \in SignRequest /\ r.op = "SIGN"
    BY SignOffRow DEF PaperCommit, CommitSignOff
<1>2. r.paper \in Papers /\ now \in PaperRow /\ r.row \in PaperRow
    BY <1>1, RequestOfPaper DEF PaperOps
<1>3. signoff' = [signoff EXCEPT ![r.paper] = Append(signoff[r.paper], entry)]
    BY DEF CommitSignOff
<1>4. entry.action = r.action /\ entry.from = r.row.status /\ entry.to = r.action
    BY DEF SignoffEntry
<1> HIDE DEF row, entry
<1>5. CASE p # r.paper
  <2>1. paper'[p] = paper[p] /\ signoff'[p] = signoff[p] /\ (stale => stale')
      BY <1>t, <1>1, <1>2, <1>3, <1>5
  <2>2. QED
      BY <1>t, <2>1, SignsUntouched DEF ApprovedBefore
<1>6. CASE p = r.paper
  <2>1. signoff'[p] = Append(s, entry) /\ paper'[p] = row
      BY <1>t, <1>1, <1>2, <1>3, <1>6
  <2> DEFINE t == Append(s, entry)
  <2>2. /\ Len(s) \in Nat /\ DOMAIN s = 1..Len(s) /\ t # <<>> /\ Len(t) = Len(s) + 1
        /\ DOMAIN t = 1..(Len(s) + 1)
        /\ \A i \in 1..Len(s) : t[i] = s[i]
        /\ t[Len(s) + 1] = entry
    <3>1. s \in Seq(SignoffRow)
        BY <1>t
    <3> HIDE DEF s
    <3>2. QED
        BY <3>1, Appended
  <2> HIDE DEF s, t
  <2>s. signoff'[p] = t /\ signoff[p] = s
      BY <2>1 DEF s, t
  <2>3. ApprovedBefore(p) => ApprovedBefore(p)'
      BY <2>2, <2>s DEF ApprovedBefore
  <2>4. paper'[p].status = "APPROVED" => ApprovedBefore(p)'
      BY <1>1, <1>4, <2>1, <2>2, <2>s DEF ApprovedBefore
  <2>5. ASSUME ~stale'
        PROVE  PaperChain(p)'
    <3>1. now = r.row /\ ~stale /\ ~now.locked /\ now # NoRow
        BY <1>t, <1>1, <1>2, <2>5, RowFields DEF Overtaken, SignKnows, PaperOps
    <3>2. PaperChain(p) /\ s # <<>>
        BY <1>t, <1>6, <2>s, <3>1 DEF PaperSigns
    <3>3. Len(s) \in DOMAIN s
        BY <2>2, <3>2, <1>t DEF s
    <3>4. entry.from = s[Len(s)].to /\ entry.from = Expected[entry.to]
        BY <1>t, <1>1, <1>4, <1>6, <2>s, <3>1, <3>2 DEF PaperChain, SignKnows, PaperOps
    <3>5. ASSUME NEW i \in DOMAIN t, i > 1
          PROVE  t[i].from = t[i - 1].to /\ t[i].from = Expected[t[i].to]
      <4>1. CASE i = Len(s) + 1
        <5>1. i - 1 = Len(s) /\ Len(s) \in 1..Len(s) /\ t[i] = entry
            BY <2>2, <3>3, <4>1
        <5>2. t[i - 1] = s[Len(s)]
            BY <2>2, <5>1
        <5>3. QED
            BY <3>4, <5>1, <5>2
      <4>2. CASE i # Len(s) + 1
        <5>1. i \in 1..Len(s) /\ i - 1 \in 1..Len(s) /\ i \in DOMAIN s
            BY <2>2, <3>5, <4>2
        <5>2. s[i].from = s[i - 1].to /\ s[i].from = Expected[s[i].to]
            BY <2>s, <3>2, <3>5, <5>1 DEF PaperChain
        <5>3. QED
            BY <2>2, <5>1, <5>2
      <4>3. QED
          BY <4>1, <4>2
    <3>6. row.status = t[Len(t)].to
        BY <1>1, <1>4, <2>2
    <3>7. row.locked <=> row.status = "LOCKED"
        BY <1>1, <3>1
    <3>8. QED
        BY <2>1, <2>s, <3>5, <3>6, <3>7 DEF PaperChain
  <2>6. paper'[p] # NoRow /\ signoff'[p] # <<>>
      BY <1>1, <2>1, <2>2, <2>s, RowFields
  <2>7. QED
      BY <2>3, <2>4, <2>5, <2>6 DEF PaperSigns
<1>7. QED
    BY <1>5, <1>6

LEMMA SignsNext ==
    ASSUME TypeInv, SignInv, NEW w \in Workers, PapersStep(w), NEW p \in Papers
    PROVE  PaperSigns(p)' /\ (ApprovedBefore(p) => ApprovedBefore(p)')
<1>t. /\ paper \in [Papers -> PaperRow \cup {NoRow}] /\ signoff \in [Papers -> Seq(SignoffRow)]
      /\ PaperSigns(p)
    BY SignInvByPaper DEF TypeInv, PaperTablesOK
<1>s. stale => stale'
    BY PapersStepType DEF Serves
<1>1. ASSUME signoff'[p] = signoff[p], paper[p] # NoRow <=> paper'[p] # NoRow,
             paper'[p].status = paper[p].status, paper'[p].locked = paper[p].locked
      PROVE  PaperSigns(p)' /\ (ApprovedBefore(p) => ApprovedBefore(p)')
    BY <1>t, <1>s, <1>1, SignsUntouched DEF ApprovedBefore
<1>2. ASSUME NEW q \in Papers, NEW c \in Contents, CreatePaper(w, q, c)
      PROVE  PaperSigns(p)' /\ (ApprovedBefore(p) => ApprovedBefore(p)')
  <2>1. CASE p # q
      BY <1>t, <1>1, <1>2, <2>1 DEF CreatePaper
  <2>2. CASE p = q
    <3> DEFINE entry == [action |-> "PREPARED", from |-> "DRAFT", to |-> "DRAFT"]
    <3>1. paper'[p] = NewPaper(c) /\ signoff'[p] = Append(signoff[p], entry) /\ signoff[p] = <<>>
        BY <1>t, <1>2, <2>2 DEF CreatePaper, PaperSigns
    <3>2. signoff'[p] = <<entry>>
        BY <3>1
    <3>3. NewPaper(c) # NoRow /\ NewPaper(c).status = "DRAFT" /\ ~NewPaper(c).locked
        BY DEF NewPaper, NoRow
    <3>4. PaperChain(p)'
        BY <3>1, <3>2, <3>3 DEF PaperChain
    <3>5. ~ApprovedBefore(p)
        BY <3>1 DEF ApprovedBefore
    <3>6. QED
        BY <3>1, <3>2, <3>3, <3>4, <3>5 DEF PaperSigns
  <2>3. QED
      BY <2>1, <2>2
<1>3. CASE PlainCommit(w)
  <2>1. req[w].op \in PaperOps /\ signoff' = signoff
      BY <1>3 DEF PlainCommit, CommitEdit, CommitLink, CommitNote, CommitResolve, PaperOps
  <2>2. PICK row \in PaperRow : /\ PaperCommit(w, row)
                                /\ row.status = paper[req[w].paper].status
                                /\ row.locked = paper[req[w].paper].locked
      BY <1>3, CommitRow DEF PlainCommit
  <2>3. paper' = [paper EXCEPT ![req[w].paper] = row] /\ paper[req[w].paper] \in PaperRow
      BY <2>1, <2>2, RequestOfPaper DEF PaperCommit
  <2>4. QED
      BY <1>t, <1>1, <2>1, <2>2, <2>3, RowFields
<1>4. CASE CommitSignOff(w)
    BY <1>4, SignOffSigns
<1>5. CASE paper' = paper /\ signoff' = signoff
    BY <1>1, <1>5
<1>6. QED
    BY <1>2, <1>3, <1>4, <1>5, PaperCases, OpenedPaper, Arrived, PaperReads, RepeatedLinkRead
    DEF ArchiveFile, paperTables

\* What a step that is not about papers leaves alone.
LEMMA OtherSteps ==
    ASSUME TypeInv, NEW w \in Workers, ~PapersStep(w),
           \/ PapersStep(w) \/ AcceptanceStep(w) \/ TeamStep(w)
           \/ RiskStep(w) \/ ItemsStep(w) \/ FileStep(w)
    PROVE  /\ UNCHANGED paperRows /\ (stale => stale')
           /\ \A v \in Workers : req'[v].op \in PaperOps => req'[v] = req[v]
<1>1. PICK Ops \in {AcceptanceOps, TeamOps, {}, ItemOps, FileOps} : Serves(w, Ops)
    BY AcceptanceStepType, TeamStepType, RiskStepType, ItemsStepType, FileStepType
<1>2. UNCHANGED paperRows
    BY AcceptanceStepType, TeamStepType, RiskStepType, ItemsStepType, FileStepType
<1>3. PaperOps \cap Ops = {} /\ "IDLE" \notin PaperOps
    BY DEF PaperOps, AcceptanceOps, TeamOps, ItemOps, FileOps
<1>4. QED
    BY <1>1, <1>2, <1>3, Untouched DEF Serves

LEMMA SignNext ==
    ASSUME TypeInv, SignInv, AuditNext
    PROVE  SignInv'
<1>1. PICK w \in Workers : \/ PapersStep(w) \/ AcceptanceStep(w) \/ TeamStep(w)
                           \/ RiskStep(w) \/ ItemsStep(w) \/ FileStep(w)
    BY StepKinds
<1>2. ASSUME \A p \in Papers : PaperSigns(p)' /\ (ApprovedBefore(p) => ApprovedBefore(p)'),
             \A v \in Workers : SignKnows(req'[v]), TypeInv'
      PROVE  SignInv'
  <2>1. ASSUME NEW v \in Workers
        PROVE  SignKnows(req[v])'
    <3> DEFINE r == req'[v]
    <3>1. r.op \in PaperOps => r.paper \in Papers
        BY <1>2, RequestKinds DEF TypeInv
    <3>2. QED
        BY <1>2, <3>1, SignKnowsStays
  <2>2. QED
      BY <1>2, <2>1 DEF SignInv, SignoffsAreChain, PaperSigns, PaperChain
<1>3. TypeInv'
    BY TypeInvNext
<1>4. CASE PapersStep(w)
    BY <1>2, <1>3, <1>4, SignsNext, SignRequests
<1>5. CASE ~PapersStep(w)
  <2>1. /\ paper' = paper /\ signoff' = signoff /\ (stale => stale')
        /\ \A v \in Workers : req'[v].op \in PaperOps => req'[v] = req[v]
      BY <1>1, <1>5, OtherSteps DEF paperRows
  <2>2. \A p \in Papers : PaperSigns(p)' /\ (ApprovedBefore(p) => ApprovedBefore(p)')
      BY <2>1, SignInvByPaper, SignsUntouched DEF ApprovedBefore
  <2>3. \A v \in Workers : SignKnows(req'[v])
      BY <2>1 DEF SignInv, SignKnows
  <2>4. QED
      BY <1>2, <1>3, <2>2, <2>3
<1>6. QED
    BY <1>4, <1>5

-----------------------------------------------------------------------------
(* The review notes of locked papers.                                      *)

\* The requests that will insert a note have ids of their own.
OwnNotes ==
    \A v, w \in Workers :
        req[v].op = "NOTE" /\ req[w].op = "NOTE" /\ req[v].note = req[w].note => v = w

\* A step that commits nothing.
LEMMA NotesRead ==
    ASSUME TypeInv, NotesInv, NEW w \in Workers, NEW r, req' = [req EXCEPT ![w] = r],
           UNCHANGED <<paper, note, stale>>, NotesKnow(r),
           r.op = "NOTE" => \A v \in Workers : req[v].op = "NOTE" => req[v].note # r.note
    PROVE  NotesInv'
<1>1. \A v \in Workers : req'[v] = IF v = w THEN r ELSE req[v]
    BY DEF TypeInv
<1>2. \A p : OpenNotes(p)' = OpenNotes(p)
    BY DEF OpenNotes
<1>3. \A v \in Workers : NotesKnow(req'[v])
    BY <1>1 DEF NotesInv
<1>4. \A v \in Workers : NotesKnow(req[v])'
    BY <1>2, <1>3 DEF NotesKnow
<1>5. LockedHasNoOpenNotes'
    BY <1>2 DEF NotesInv, LockedHasNoOpenNotes
<1>6. OwnNotes'
    BY <1>1 DEF NotesInv, OwnNotes
<1>7. QED
    BY <1>4, <1>5, <1>6 DEF NotesInv, OwnNotes

LEMMA NotesIdle == NotesKnow(Idle) /\ Idle.op # "NOTE"
    BY DEF NotesKnow, Idle, PaperOps

LEMMA NotesArrival ==
    ASSUME TypeInv, NotesInv, NEW w \in Workers, NEW p \in Papers, NEW r, Arrival(w, p, r)
    PROVE  NotesInv'
<1>1. OpenPaper(w, p, r) /\ r.paper = p /\ r.row = paper[p]
    BY Arrived
<1>2. req' = [req EXCEPT ![w] = r] /\ UNCHANGED paperTables
    BY <1>1, OpenedPaper
<1>3. ASSUME r.op = "NOTE"
      PROVE  note[r.note] = NoRow /\ \A v \in Workers : req[v].op = "NOTE" => req[v].note # r.note
  <2>1. PICK n \in Notes : RaiseNote(w, p, n) /\ r.note = n
      BY <1>3 DEF Arrival
  <2>2. QED
      BY <2>1 DEF RaiseNote
<1>4. ASSUME r.op = "RESOLVE"
      PROVE  note[r.note].paper = r.paper
  <2>1. PICK n \in Notes : ResolveNote(w, p, n) /\ r.note = n
      BY <1>4 DEF Arrival
  <2>2. QED
      BY <1>1, <2>1 DEF ResolveNote
<1>5. ASSUME r.op = "SIGN", r.action \in {"APPROVED", "LOCKED"}
      PROVE  r.at # "commit"
  <2>1. PICK action \in Signoffs : r.action = action /\ r.at = FirstRead(action)
      BY <1>5 DEF Arrival
  <2>2. QED
      BY <1>5, <2>1 DEF FirstRead
<1>6. NotesKnow(r)
    BY <1>1, <1>3, <1>4, <1>5 DEF NotesKnow
<1>7. QED
    BY <1>2, <1>3, <1>6, NotesRead DEF paperTables

LEMMA NotesReads ==
    ASSUME TypeInv, NotesInv, NEW w \in Workers, PaperRead(w)
    PROVE  NotesInv'
<1>t. req \in [Workers -> {Idle} \cup AuditRequest] /\ req[w] \in {Idle} \cup AuditRequest
    BY DEF TypeInv
<1> DEFINE q == req[w]
           r == OnToCommit(w)
<1>1. UNCHANGED <<paper, note, stale>>
    BY PaperReads DEF paperTables
<1>2. CASE req' = [req EXCEPT ![w] = Idle]
    BY <1>1, <1>2, NotesRead, NotesIdle
<1>3. CASE req' = [req EXCEPT ![w] = r] /\ r # Idle
  <2>1. q.op \in {"LINK", "RESOLVE", "SIGN"}
      BY DEF PaperRead, ReadDocument, ReadNote, CountNotes
  <2>2. /\ r.op = q.op /\ r.row = q.row /\ r.paper = q.paper
        /\ q.op = "RESOLVE" => r.note = q.note
        /\ q.op = "SIGN" => r.action = q.action
      BY <1>t, <2>1, RequestKinds DEF OnToCommit, LinkRequest, ResolveRequest, SignRequest
  <2>3. ASSUME q.op = "SIGN"
        PROVE  OpenNotes(q.paper) = {}
    <3>1. CountNotes(w)
        BY <2>3 DEF PaperRead, ReadDocument, ReadNote
    <3>2. CASE OpenNotes(q.paper) # {}
      <4>1. req' = [req EXCEPT ![w] = Idle]
          BY <3>1, <3>2 DEF CountNotes, Finish
      <4>2. Idle = r
          BY <1>t, <1>3, <4>1
      <4>3. QED
          BY <1>3, <4>2
    <3>3. QED
        BY <3>2
  <2>4. NotesKnow(r)
    <3>1. NotesKnow(q)
        BY DEF NotesInv
    <3>2. QED
        BY <2>1, <2>2, <2>3, <3>1 DEF NotesKnow
  <2>5. QED
      BY <1>1, <1>3, <2>1, <2>2, <2>4, NotesRead
<1>4. QED
    BY <1>2, <1>3, PaperReads

\* A commit that is not overtaken makes every other copy of its paper an
\* earlier version.
LEMMA CommitOvertakes ==
    ASSUME TypeInv, NotesInv, NEW w \in Workers, NEW row, PaperCommit(w, row), req[w].op \in PaperOps,
           ~stale', NEW v \in Workers, req'[v].op \in PaperOps
    PROVE  /\ v # w /\ req'[v] = req[v]
           /\ \/ req[v].row = paper'[req[v].paper]
              \/ req[v].row.version < paper'[req[v].paper].version
           /\ req[v].row = paper'[req[v].paper] => req[v].paper # req[w].paper /\ req[v].row = paper[req[v].paper]
<1> DEFINE p == req[w].paper
           r == req[v]
<1>t. paper \in [Papers -> PaperRow \cup {NoRow}] /\ req \in [Workers -> {Idle} \cup AuditRequest]
    BY DEF TypeInv, PaperTablesOK
<1>1. v # w /\ req'[v] = r /\ r.op \in PaperOps
    BY <1>t, IdleOK DEF PaperCommit, PaperOps
<1>2. /\ p \in Papers /\ req[w].row \in PaperRow /\ req[w].row.version \in Nat
      /\ r.paper \in Papers /\ r.row \in PaperRow /\ r.row.version \in Nat
    BY <1>1, RequestOfPaper
<1>3. ~stale /\ paper[p] = req[w].row /\ paper' = [paper EXCEPT ![p] = row]
      /\ row.version = req[w].row.version + 1
    BY DEF PaperCommit, Overtaken
<1>4. r.row = paper[r.paper] \/ r.row.version < paper[r.paper].version
    BY <1>1, <1>3 DEF NotesInv, NotesKnow
<1>5. CASE r.paper = p
  <2>1. paper'[r.paper] = row
      BY <1>t, <1>2, <1>3, <1>5
  <2>2. r.row.version < row.version
      BY <1>2, <1>3, <1>4, <1>5
  <2>3. r.row # row
      BY <1>2, <1>3, <2>2
  <2>4. QED
      BY <1>1, <2>1, <2>2, <2>3
<1>6. CASE r.paper # p
  <2>1. paper'[r.paper] = paper[r.paper]
      BY <1>t, <1>2, <1>3, <1>6
  <2>2. QED
      BY <1>1, <1>4, <1>6, <2>1
<1>7. QED
    BY <1>5, <1>6

\* The commits of a paper and what they do to the notes.
PaperCommits(w) == PlainCommit(w) \/ CommitSignOff(w)

LEMMA NotesMove ==
    ASSUME TypeInv, NotesInv, NEW w \in Workers, PaperCommits(w)
    PROVE  /\ \A q \in Papers : \/ CommitNote(w) /\ q = req[w].paper
                                \/ OpenNotes(q)' \subseteq OpenNotes(q)
           /\ \A n \in Notes : /\ note[n] # NoRow => note'[n] # NoRow /\ note'[n].paper = note[n].paper
                               /\ note[n] = NoRow /\ note'[n] # NoRow => CommitNote(w) /\ n = req[w].note
<1>t. /\ note \in [Notes -> NoteRow \cup {NoRow}] /\ req[w] \in {Idle} \cup AuditRequest /\ HasRows(req[w])
      /\ NotesKnow(req[w])
    BY DEF TypeInv, PaperTablesOK, NotesInv
<1>1. CASE CommitNote(w)
  <2> DEFINE new == [paper |-> req[w].paper, status |-> "OPEN"]
  <2>1. req[w] \in NoteRequest /\ note' = [note EXCEPT ![req[w].note] = new] /\ note[req[w].note] = NoRow
      BY <1>t, <1>1, RequestKinds DEF CommitNote, NotesKnow
  <2>2. req[w].note \in Notes /\ req[w].paper \in Papers /\ new.paper = req[w].paper
      BY <2>1 DEF NoteRequest
  <2> HIDE DEF new
  <2>3. \A n \in Notes : note'[n] = IF n = req[w].note THEN new ELSE note[n]
      BY <1>t, <2>1
  <2>4. QED
      BY <1>1, <2>1, <2>2, <2>3 DEF OpenNotes
<1>2. CASE CommitResolve(w)
  <2> DEFINE n == req[w].note
             new == [note[n] EXCEPT !.status = "RESOLVED"]
  <2>1. req[w] \in ResolveRequest /\ note' = [note EXCEPT ![n] = new] /\ req[w].op = "RESOLVE"
      BY <1>t, <1>2, RequestKinds DEF CommitResolve
  <2>2. n \in Notes /\ note[n] \in NoteRow
      BY <1>t, <2>1 DEF ResolveRequest, HasRows
  <2>3. new \in NoteRow /\ new.paper = note[n].paper /\ new.status = "RESOLVED"
      BY <2>2 DEF NoteRow
  <2> HIDE DEF new
  <2>4. \A m \in Notes : note'[m] = IF m = n THEN new ELSE note[m]
      BY <1>t, <2>1
  <2>5. QED
      BY <2>2, <2>3, <2>4, RowFields DEF OpenNotes
<1>3. CASE note' = note
    BY <1>3 DEF OpenNotes
<1>4. QED
    BY <1>1, <1>2, <1>3 DEF PaperCommits, PlainCommit, CommitEdit, CommitLink, CommitSignOff

\* The commit of a paper as a row, and what it says of the lock.
LEMMA PaperCommitsRow ==
    ASSUME TypeInv, NEW w \in Workers, PaperCommits(w)
    PROVE  /\ req[w].op \in PaperOps
           /\ \E row \in PaperRow :
                 /\ PaperCommit(w, row)
                 /\ row.locked => \/ paper[req[w].paper].locked
                                  \/ req[w].op = "SIGN" /\ req[w].at = "commit" /\ req[w].action = "LOCKED"
<1>1. CASE PlainCommit(w)
    BY <1>1, CommitRow
    DEF PlainCommit, CommitEdit, CommitLink, CommitNote, CommitResolve, PaperOps
<1>2. CASE CommitSignOff(w)
  <2>1. SignedOff(paper[req[w].paper], req[w]) \in PaperRow
      BY <1>2, SignOffRow DEF PaperCommit
  <2>2. QED
      BY <1>2, <2>1, SignOffRow DEF CommitSignOff, PaperOps
<1>3. QED
    BY <1>1, <1>2 DEF PaperCommits

LEMMA NotesCommit ==
    ASSUME TypeInv, SignInv, NotesInv, NEW w \in Workers, PaperCommits(w)
    PROVE  NotesInv'
<1> DEFINE p == req[w].paper
<1>1. PICK row \in PaperRow :
          /\ PaperCommit(w, row) /\ req[w].op \in PaperOps
          /\ row.locked => \/ paper[p].locked
                           \/ req[w].op = "SIGN" /\ req[w].at = "commit" /\ req[w].action = "LOCKED"
    BY PaperCommitsRow
<1>t. /\ req \in [Workers -> {Idle} \cup AuditRequest] /\ paper \in [Papers -> PaperRow \cup {NoRow}]
      /\ note \in [Notes -> NoteRow \cup {NoRow}]
    BY DEF TypeInv, PaperTablesOK
<1>2. /\ paper' = [paper EXCEPT ![p] = row] /\ req' = [req EXCEPT ![w] = Idle]
      /\ stale' = (stale \/ paper[p] # req[w].row) /\ p \in Papers
    BY <1>1, RequestOfPaper DEF PaperCommit, Overtaken
<1>3. LockedHasNoOpenNotes'
  <2> SUFFICES ASSUME ~stale', NEW q \in Papers, paper'[q] # NoRow, paper'[q].locked
               PROVE  OpenNotes(q)' = {}
      BY DEF LockedHasNoOpenNotes
  <2>1. ~stale /\ paper[p] = req[w].row /\ ~paper[p].locked
      BY <1>1, <1>2 DEF SignInv, SignKnows
  <2>2. CASE q = p
    <3>1. req[w].op = "SIGN" /\ req[w].at = "commit" /\ req[w].action = "LOCKED"
        BY <1>1, <1>2, <1>t, <2>1, <2>2
    <3>2. OpenNotes(q) = {}
        BY <2>1, <2>2, <3>1 DEF NotesInv, NotesKnow
    <3>3. ~CommitNote(w)
        BY <3>1 DEF CommitNote
    <3>4. QED
        BY <3>2, <3>3, NotesMove
  <2>3. CASE q # p
    <3>1. paper[q] # NoRow /\ paper[q].locked
        BY <1>2, <1>t, <2>3
    <3>2. OpenNotes(q) = {}
        BY <2>1, <3>1 DEF NotesInv, LockedHasNoOpenNotes
    <3>3. QED
        BY <2>3, <3>2, NotesMove
  <2>4. QED
      BY <2>2, <2>3
<1>4. \A v \in Workers : req'[v] = IF v = w THEN Idle ELSE req[v]
    BY <1>2, <1>t
<1>5. OwnNotes'
    BY <1>4, NotesIdle DEF NotesInv, OwnNotes
<1>6. ASSUME NEW v \in Workers
      PROVE  NotesKnow(req[v])'
  <2>1. CASE v = w
      BY <1>4, <2>1, NotesIdle, IdleOK DEF NotesKnow, PaperOps
  <2>2. CASE v # w
    <3> DEFINE r == req[v]
    <3>1. req'[v] = r /\ NotesKnow(r)
        BY <1>4, <2>2 DEF NotesInv
    <3>r. r \in {Idle} \cup AuditRequest /\ HasRows(r)
        BY DEF TypeInv
    <3>2. ASSUME r.op \in PaperOps, ~stale'
          PROVE  r.row = paper'[r.paper] \/ r.row.version < paper'[r.paper].version
        BY <1>1, <3>1, <3>2, CommitOvertakes
    <3>3. ASSUME r.op = "NOTE"
          PROVE  note'[r.note] = NoRow
      <4>1. r.note \in Notes /\ note[r.note] = NoRow
          BY <3>1, <3>3, <3>r, RequestKinds DEF NoteRequest, NotesKnow
      <4>2. ~(CommitNote(w) /\ r.note = req[w].note)
          BY <2>2, <3>3 DEF CommitNote, NotesInv
      <4>3. QED
          BY <4>1, <4>2, NotesMove
    <3>4. ASSUME r.op = "RESOLVE"
          PROVE  note'[r.note].paper = r.paper
      <4>1. r.note \in Notes /\ note[r.note] # NoRow /\ note[r.note].paper = r.paper
          BY <3>1, <3>4, <3>r, RequestKinds DEF ResolveRequest, NotesKnow, HasRows
      <4>2. QED
          BY <4>1, NotesMove
    <3>5. ASSUME r.op = "SIGN", r.at = "commit", r.action \in {"APPROVED", "LOCKED"}, ~stale',
                 r.row = paper'[r.paper]
          PROVE  OpenNotes(r.paper)' = {}
      <4>1. r.paper # p /\ r.row = paper[r.paper]
          BY <1>1, <3>1, <3>5, CommitOvertakes DEF PaperOps
      <4>2. OpenNotes(r.paper) = {}
          BY <1>2, <3>1, <3>5, <4>1 DEF NotesKnow
      <4>3. r.paper \in Papers
          BY <3>5, <3>r, RequestKinds DEF PaperOps
      <4>4. OpenNotes(r.paper)' \subseteq OpenNotes(r.paper)
          BY <3>1, <4>1, <4>3, NotesMove
      <4>5. QED
          BY <4>2, <4>4
    <3>6. QED
        BY <3>1, <3>2, <3>3, <3>4, <3>5 DEF NotesKnow
  <2>3. QED
      BY <2>1, <2>2
<1>7. QED
    BY <1>3, <1>5, <1>6 DEF NotesInv, OwnNotes

\* A paper that is new, or a file that is archived.
LEMMA NotesDirect ==
    ASSUME TypeInv, NotesInv, NEW w \in Workers,
           \/ \E p \in Papers, c \in Contents : CreatePaper(w, p, c)
           \/ \E f \in Files : ArchiveFile(w, f)
    PROVE  NotesInv'
<1>t. paper \in [Papers -> PaperRow \cup {NoRow}]
    BY DEF TypeInv, PaperTablesOK
<1>1. UNCHANGED <<req, note, stale>>
    BY DEF CreatePaper, ArchiveFile
<1>2. \A q \in Papers : \/ paper'[q] = paper[q]
                        \/ paper[q] = NoRow /\ ~paper'[q].locked
    BY <1>t DEF CreatePaper, ArchiveFile, NewPaper
<1>3. \A q : OpenNotes(q)' = OpenNotes(q)
    BY <1>1 DEF OpenNotes
<1>4. LockedHasNoOpenNotes'
    BY <1>1, <1>2, <1>3 DEF NotesInv, LockedHasNoOpenNotes
<1>5. ASSUME NEW v \in Workers
      PROVE  NotesKnow(req[v])'
  <2>1. req[v].op \in PaperOps => paper'[req[v].paper] = paper[req[v].paper]
      BY <1>2, RequestOfPaper, RowFields
  <2>2. NotesKnow(req[v]) /\ (req[v].op = "SIGN" => req[v].op \in PaperOps)
      BY DEF NotesInv, PaperOps
  <2>3. QED
      BY <1>1, <1>3, <2>1, <2>2 DEF NotesKnow
<1>6. OwnNotes'
    BY <1>1 DEF NotesInv, OwnNotes
<1>7. QED
    BY <1>4, <1>5, <1>6 DEF NotesInv, OwnNotes

LEMMA NotesNext ==
    ASSUME TypeInv, SignInv, NotesInv, AuditNext
    PROVE  NotesInv'
<1>1. PICK w \in Workers : \/ PapersStep(w) \/ AcceptanceStep(w) \/ TeamStep(w)
                           \/ RiskStep(w) \/ ItemsStep(w) \/ FileStep(w)
    BY StepKinds
<1>2. CASE PapersStep(w)
  <2>1. CASE RepeatedLink(w)
      BY <2>1, RepeatedLinkRead, NotesRead, NotesIdle DEF paperTables
  <2>2. QED
      BY <1>2, <2>1, PaperCases, NotesDirect, NotesArrival, NotesReads, NotesCommit DEF PaperCommits
<1>3. CASE ~PapersStep(w)
  <2>1. /\ UNCHANGED <<paper, note>> /\ (stale => stale')
        /\ \A v \in Workers : req'[v].op \in PaperOps => req'[v] = req[v]
      BY <1>1, <1>3, OtherSteps DEF paperRows
  <2>2. \A q : OpenNotes(q)' = OpenNotes(q)
      BY <2>1 DEF OpenNotes
  <2>3. LockedHasNoOpenNotes'
      BY <2>1, <2>2 DEF NotesInv, LockedHasNoOpenNotes
  <2>4. \A v \in Workers : NotesKnow(req'[v])
      BY <2>1 DEF NotesInv, NotesKnow, PaperOps
  <2>5. \A v \in Workers : NotesKnow(req[v])'
      BY <2>1, <2>2, <2>4 DEF NotesKnow
  <2>6. OwnNotes'
      BY <2>1 DEF NotesInv, OwnNotes, PaperOps
  <2>7. QED
      BY <2>3, <2>5, <2>6 DEF NotesInv, OwnNotes
<1>4. QED
    BY <1>2, <1>3

-----------------------------------------------------------------------------
(* Locked papers.                                                          *)

LEMMA NotesElsewhere ==
    ASSUME TypeInv, NotesInv, NEW w \in Workers, PaperCommits(w), NEW n \in Notes
    PROVE  \/ note'[n] = note[n]
           \/ /\ note'[n].paper = req[w].paper
              /\ note[n] = NoRow \/ note[n].paper = req[w].paper
<1>t. /\ note \in [Notes -> NoteRow \cup {NoRow}] /\ req[w] \in {Idle} \cup AuditRequest /\ HasRows(req[w])
      /\ NotesKnow(req[w])
    BY DEF TypeInv, PaperTablesOK, NotesInv
<1>1. CASE CommitNote(w)
  <2>1. note' = [note EXCEPT ![req[w].note] = [paper |-> req[w].paper, status |-> "OPEN"]]
        /\ note[req[w].note] = NoRow
      BY <1>t, <1>1 DEF CommitNote, NotesKnow
  <2>2. QED
      BY <1>t, <2>1
<1>2. CASE CommitResolve(w)
  <2>1. req[w] \in ResolveRequest /\ req[w].op = "RESOLVE"
      BY <1>t, <1>2, RequestKinds DEF CommitResolve
  <2>2. note' = [note EXCEPT ![req[w].note] = [note[req[w].note] EXCEPT !.status = "RESOLVED"]]
      BY <1>2 DEF CommitResolve
  <2>3. req[w].note \in Notes /\ note[req[w].note] \in NoteRow /\ note[req[w].note].paper = req[w].paper
      BY <1>t, <2>1 DEF ResolveRequest, HasRows, NotesKnow
  <2>4. [note[req[w].note] EXCEPT !.status = "RESOLVED"].paper = req[w].paper
      BY <2>3 DEF NoteRow
  <2>5. QED
      BY <1>t, <2>2, <2>3, <2>4
<1>3. CASE note' = note
    BY <1>3
<1>4. QED
    BY <1>1, <1>2, <1>3 DEF PaperCommits, PlainCommit, CommitEdit, CommitLink, CommitSignOff

\* What LockedPapersStay says of one paper.
PaperStays(p) ==
    /\ paper[p].locked => paper'[p].locked
    /\ ~paper[p].locked /\ paper'[p].locked => ApprovedBefore(p)
    /\ ~stale' /\ paper[p].locked => PaperBody(p)' = PaperBody(p)

LEMMA BodyStays ==
    ASSUME NEW p, paper'[p] = paper[p], \A f : <<p, f>> \in evidence' <=> <<p, f>> \in evidence,
           \A n \in Notes : \/ note'[n] = note[n]
                            \/ /\ note'[n].paper # p
                               /\ note[n] = NoRow \/ note[n].paper # p
    PROVE  PaperBody(p)' = PaperBody(p)
<1>1. {f \in Files : <<p, f>> \in evidence'} = {f \in Files : <<p, f>> \in evidence}
    OBVIOUS
<1>2. {n \in Notes : note'[n] # NoRow /\ note'[n].paper = p} = {n \in Notes : note[n] # NoRow /\ note[n].paper = p}
    OBVIOUS
<1>3. OpenNotes(p)' = OpenNotes(p)
    BY DEF OpenNotes
<1>4. QED
    BY <1>1, <1>2, <1>3 DEF PaperBody

LEMMA CommitStays ==
    ASSUME TypeInv, SignInv, NotesInv, NEW w \in Workers, PaperCommits(w), NEW p \in Papers, paper[p] # NoRow,
           paper[p].locked => paper'[p].locked
    PROVE  PaperStays(p)
<1> DEFINE r == req[w]
<1>1. PICK row \in PaperRow :
          /\ PaperCommit(w, row) /\ r.op \in PaperOps
          /\ row.locked => \/ paper[r.paper].locked
                           \/ r.op = "SIGN" /\ r.at = "commit" /\ r.action = "LOCKED"
    BY PaperCommitsRow
<1>2. /\ paper' = [paper EXCEPT ![r.paper] = row] /\ r.paper \in Papers
      /\ stale' = (stale \/ paper[r.paper] # r.row)
    BY <1>1, RequestOfPaper DEF PaperCommit, Overtaken
<1>3. paper'[p] = IF p = r.paper THEN row ELSE paper[p]
    BY <1>2 DEF TypeInv, PaperTablesOK
<1>4. SignKnows(r)
    BY DEF SignInv
<1>5. ASSUME ~paper[p].locked, paper'[p].locked
      PROVE  ApprovedBefore(p)
  <2>1. p = r.paper /\ r.op = "SIGN" /\ r.action = "LOCKED"
      BY <1>1, <1>3, <1>5
  <2>2. r.row.status = "APPROVED"
      BY <1>1, <1>4, <2>1 DEF SignKnows, Expected
  <2>3. QED
      BY <1>1, <1>4, <2>1, <2>2 DEF SignKnows
<1>6. ASSUME ~stale', paper[p].locked
      PROVE  PaperBody(p)' = PaperBody(p)
  <2>1. p # r.paper
      BY <1>1, <1>2, <1>4, <1>6 DEF SignKnows
  <2>2. \A f : <<p, f>> \in evidence' <=> <<p, f>> \in evidence
      BY <2>1 DEF PaperCommits, PlainCommit, CommitEdit, CommitLink, CommitNote, CommitResolve, CommitSignOff
  <2>3. \A n \in Notes : \/ note'[n] = note[n]
                         \/ /\ note'[n].paper # p
                            /\ note[n] = NoRow \/ note[n].paper # p
      BY <2>1, NotesElsewhere
  <2>4. QED
      BY <1>3, <2>1, <2>2, <2>3, BodyStays
<1>7. QED
    BY <1>5, <1>6 DEF PaperStays

LEMMA LockedStep ==
    ASSUME TypeInv, SignInv, NotesInv, AuditNext, NEW p \in Papers, paper[p] # NoRow
    PROVE  PaperStays(p)
<1>1. PICK w \in Workers : \/ PapersStep(w) \/ AcceptanceStep(w) \/ TeamStep(w)
                           \/ RiskStep(w) \/ ItemsStep(w) \/ FileStep(w)
    BY StepKinds
<1>2. ASSUME paper'[p] = paper[p], note' = note, evidence' = evidence
      PROVE  PaperStays(p)
    BY <1>2, BodyStays DEF PaperStays
<1>3. CASE PapersStep(w)
  <2>1. paper[p].locked => paper'[p].locked
      BY <1>3, PapersGoOn
  <2>2. CASE PaperCommits(w)
      BY <2>1, <2>2, CommitStays
  <2>3. CASE \E q \in Papers, c \in Contents : CreatePaper(w, q, c)
      BY <1>2, <2>3 DEF CreatePaper, TypeInv, PaperTablesOK
  <2>4. CASE UNCHANGED <<paper, note, evidence>>
      BY <1>2, <2>4
  <2>5. QED
      BY <1>3, <2>2, <2>3, <2>4, PaperCases, OpenedPaper, Arrived, PaperReads, RepeatedLinkRead
      DEF PaperCommits, ArchiveFile, paperTables
<1>4. CASE ~PapersStep(w)
    BY <1>1, <1>2, <1>4, OtherSteps DEF paperRows
<1>5. QED
    BY <1>3, <1>4

-----------------------------------------------------------------------------
(* The finalized file.                                                     *)

LetsIn(r) == \/ r.op \in {"CREATE", "COMPLETE", "FINALIZE"}
             \/ r.op = "MOVE" /\ r.at = "commit"

fileRows == <<item, completion, finalization>>

\* Over a finalized file, the request of a step was let in if it still is, and
\* a commit to the rows of the file ends it.
LEMMA WorkerDrains ==
    ASSUME TypeInv, NEW w \in Workers, Finalized,
           \/ PapersStep(w) \/ AcceptanceStep(w) \/ TeamStep(w)
           \/ RiskStep(w) \/ ItemsStep(w) \/ FileStep(w)
    PROVE  /\ \A v \in Workers \ {w} : req'[v] = req[v]
           /\ LetsIn(req'[w]) => LetsIn(req[w])
           /\ fileRows' # fileRows => LetsIn(req[w]) /\ ~LetsIn(req'[w])
<1>t. req \in [Workers -> {Idle} \cup AuditRequest]
    BY DEF TypeInv
<1>1. \A v \in Workers \ {w} : req'[v] = req[v]
    BY PapersStepType, AcceptanceStepType, TeamStepType, RiskStepType, ItemsStepType, FileStepType DEF Serves
<1>2. ASSUME NEW Ops \in {PaperOps, AcceptanceOps, TeamOps, {}}, Serves(w, Ops)
      PROVE  ~LetsIn(req'[w])
    BY <1>2 DEF Serves, LetsIn, PaperOps, AcceptanceOps, TeamOps
<1>3. CASE PapersStep(w) \/ AcceptanceStep(w) \/ TeamStep(w) \/ RiskStep(w)
    BY <1>1, <1>2, <1>3, PapersStepType, AcceptanceStepType, TeamStepType, RiskStepType
    DEF fileRows, executionTables
<1>4. ~LetsIn(Idle)
    BY DEF LetsIn, Idle
<1>5. CASE CommitItem(w) \/ CommitMove(w) \/ CommitCompletion(w) \/ CommitFinalize(w)
  <2>1. req'[w] = Idle
      BY <1>t, <1>5 DEF CommitItem, CommitMove, CommitCompletion, CommitFinalize, Finish
  <2>2. LetsIn(req[w])
      BY <1>5 DEF CommitItem, CommitMove, CommitCompletion, CommitFinalize, LetsIn
  <2>3. QED
      BY <1>1, <1>4, <2>1, <2>2
<1>6. CASE GateRead(w)
  <2>1. LetsIn(req[w]) /\ fileRows' = fileRows
      BY <1>6, GateReads DEF LetsIn, executionTables, fileRows
  <2>2. QED
      BY <1>1, <2>1
<1>7. CASE CheckNotFinalized(w)
  <2>1. req'[w] = Idle /\ fileRows' = fileRows
      BY <1>t, <1>7 DEF CheckNotFinalized, Finish, executionTables, fileRows
  <2>2. QED
      BY <1>1, <1>4, <2>1
<1>8. ASSUME NEW i \in Items, NEW to, MoveItem(w, i, to)
      PROVE  ~LetsIn(req'[w]) /\ fileRows' = fileRows
    BY <1>t, <1>8 DEF MoveItem, Begin, LetsIn, executionTables, fileRows
<1>9. /\ \A i \in Items : ~CreateItem(w, i)
      /\ \A done \in SUBSET Checks : ~UpsertCompletion(w, done)
      /\ ~Finalize(w)
    BY DEF CreateItem, UpsertCompletion, Finalize, Finalized
<1>10. QED
    BY <1>1, <1>3, <1>5, <1>6, <1>7, <1>8, <1>9 DEF ItemsStep, FileStep, GateRead

LEMMA DrainStep ==
    ASSUME TypeInv, Finalized, AuditNext
    PROVE  /\ LetIn' \subseteq LetIn
           /\ fileRows' # fileRows => LetIn' # LetIn
<1>1. PICK w \in Workers : \/ PapersStep(w) \/ AcceptanceStep(w) \/ TeamStep(w)
                           \/ RiskStep(w) \/ ItemsStep(w) \/ FileStep(w)
    BY StepKinds
<1>2. LetIn = {v \in Workers : LetsIn(req[v])} /\ LetIn' = {v \in Workers : LetsIn(req'[v])}
    BY DEF LetIn, LetsIn
<1>3. QED
    BY <1>1, <1>2, WorkerDrains

-----------------------------------------------------------------------------
(* The invariants at the start, and between the steps.                     *)

LEMMA InvsInit == AuditInit => SignInv /\ NotesInv /\ AcceptanceInv /\ TeamInv /\ FileInv /\ WorkInv
<1> SUFFICES ASSUME AuditInit PROVE SignInv /\ NotesInv /\ AcceptanceInv /\ TeamInv /\ FileInv /\ WorkInv
    OBVIOUS
<1>1. /\ \A p \in Papers : paper[p] = NoRow /\ signoff[p] = <<>>
      /\ \A n \in Notes : note[n] = NoRow
      /\ \A w \in Workers : req[w] = Idle
      /\ \A s \in Staff : declaration[s] = NoRow
      /\ acceptance = NoRow /\ completion = NoRow /\ fileLock = FALSE /\ finalization = <<>>
    BY DEF AuditInit, PapersInit
<1>2. /\ SignKnows(Idle) /\ FileKnows(Idle) /\ WorkKnows(Idle)
      /\ Idle.op \notin {"NOTE", "DECIDE", "DECLARE"}
    BY DEF SignKnows, FileKnows, WorkKnows, Idle, PaperOps
<1>3. SignInv
    BY <1>1, <1>2 DEF SignInv, SignoffsAreChain, NoRow
<1>4. NotesInv
    BY <1>1, <1>2, NotesIdle DEF NotesInv, LockedHasNoOpenNotes
<1>5. AcceptanceInv /\ TeamInv
    BY <1>1, <1>2 DEF AcceptanceInv, ApprovalRestsOnPreconditions, TeamInv
<1>6. FileInv
    BY <1>1, <1>2 DEF FileInv, FileLockAgrees, Finalized
<1>7. WorkInv
    BY <1>1, <1>2 DEF WorkInv, FinalizedWorkIsDone
<1>8. QED
    BY <1>3, <1>4, <1>5, <1>6, <1>7

AuditInv == TypeInv /\ SignInv /\ NotesInv /\ AcceptanceInv /\ TeamInv /\ FileInv /\ WorkInv

LEMMA AuditInvNext == AuditInv /\ [AuditNext]_auditVars => AuditInv'
<1> SUFFICES ASSUME AuditInv, [AuditNext]_auditVars PROVE AuditInv'
    OBVIOUS
<1>1. CASE AuditNext
    BY <1>1, TypeInvNext, SignNext, NotesNext, AcceptanceNext, TeamNext, FileNext, WorkNext DEF AuditInv
<1>2. CASE UNCHANGED auditVars
  <2>1. TypeInv'
      BY <1>2, TypeInvNext DEF AuditInv
  <2>2. SignInv'
      BY <1>2 DEF auditVars, AuditInv, SignInv, SignoffsAreChain, SignKnows, ApprovedBefore
  <2>3. NotesInv'
      BY <1>2 DEF auditVars, AuditInv, NotesInv, LockedHasNoOpenNotes, NotesKnow, OpenNotes
  <2>4. AcceptanceInv' /\ TeamInv'
      BY <1>2 DEF auditVars, AuditInv, AcceptanceInv, ApprovalRestsOnPreconditions, TeamInv
  <2>5. FileInv'
      BY <1>2 DEF auditVars, AuditInv, FileInv, FileLockAgrees, FileKnows, Finalized
  <2>6. WorkInv'
      BY <1>2 DEF auditVars, AuditInv, WorkInv, FinalizedWorkIsDone, WorkKnows, AllSettled, Registered,
                  Written, Unlocked
  <2>7. QED
      BY <2>1, <2>2, <2>3, <2>4, <2>5, <2>6 DEF AuditInv
<1>3. QED
    BY <1>1, <1>2

LEMMA AuditInvHolds == AuditSpec => []AuditInv
<1>1. AuditInit => AuditInv
    BY TypeInvInit, InvsInit DEF AuditInv
<1>2. QED
    BY <1>1, AuditInvNext, PTL DEF AuditSpec

-----------------------------------------------------------------------------
(* The protocol: what its steps need to know of the requests in flight     *)
(* beyond AuditInv.                                                        *)

\* A finalization that has gone past the materiality and the team has seen them,
\* and neither is ever removed; an edit was let in while the paper could be
\* edited.
PlanKnows(r) ==
    /\ r.op = "FINALIZE" /\ r.at \notin {"acceptance", "materiality"} => materiality
    /\ r.op = "FINALIZE" /\ r.at \notin {"acceptance", "materiality", "team"} => team # {}
    /\ r.op = "EDIT" => r.row.status \in {"DRAFT", "REVIEWED"}

PlanInv == \A w \in Workers : PlanKnows(req[w])

LEMMA PlanGrows ==
    ASSUME AuditNext
    PROVE  (materiality => materiality') /\ (team # {} => team' # {})
<1>1. PICK w \in Workers : \/ PapersStep(w) \/ AcceptanceStep(w) \/ TeamStep(w)
                           \/ RiskStep(w) \/ ItemsStep(w) \/ FileStep(w)
    BY StepKinds
<1>2. CASE UNCHANGED <<materiality, team>>
    BY <1>2
<1>3. CASE SetMateriality(w)
    BY <1>3 DEF SetMateriality
<1>4. CASE \E s \in Staff : AssignMember(w, s)
    BY <1>4 DEF AssignMember
<1>5. QED
    BY <1>1, <1>2, <1>3, <1>4
    DEF PapersStep, AcceptanceStep, TeamStep, RiskStep, ItemsStep, FileStep, planningTables,
        UpsertAcceptance, DecideAcceptance, CommitAcceptance, CommitDecision, DeclareIndependence,
        CommitDeclaration, CreateRisk, LinkProcedure, CreateItem, MoveItem, CommitItem, CheckNotFinalized,
        CommitMove, UpsertCompletion, CommitCompletion, Finalize, CheckReadiness, CheckProcedure,
        ReadFileLock, CommitFinalize

LEMMA PlanGate ==
    ASSUME NEW q
    PROVE  /\ Gate(q)["materiality"] <=> materiality
           /\ Gate(q)["team"] <=> team # {}
    BY DEF Gate

LEMMA PlanGateSees ==
    ASSUME NEW q, PlanKnows(q), q.op = "FINALIZE", NEW r, GateStep(q, r), materiality \in BOOLEAN
    PROVE  PlanKnows(r)
<1>1. r.op = "FINALIZE"
    BY DEF GateStep
<1>2. CASE r.at = q.at \/ (q.at = "lock" /\ r.at = "commit")
    BY <1>1, <1>2 DEF PlanKnows
<1>3. CASE q.at \in DOMAIN NextGate /\ Gate(q)[q.at] /\ r.at = NextGate[q.at]
  <2>1. CASE q.at = "acceptance"
      BY <1>1, <1>3, <2>1 DEF NextGate, PlanKnows
  <2>2. CASE q.at = "materiality"
      BY <1>1, <1>3, <2>2, PlanGate DEF NextGate, PlanKnows
  <2>3. CASE q.at = "team"
      BY <1>1, <1>3, <2>3, PlanGate DEF PlanKnows
  <2>4. CASE q.at \notin {"acceptance", "materiality", "team"}
      BY <1>1, <2>4 DEF PlanKnows
  <2>5. QED
      BY <2>1, <2>2, <2>3, <2>4
<1>4. QED
    BY <1>2, <1>3 DEF GateStep

LEMMA PlanArrivals ==
    ASSUME TypeInv, NEW w \in Workers, PapersStep(w), req'[w].op = "EDIT", req'[w] # req[w]
    PROVE  req'[w].row.status \in {"DRAFT", "REVIEWED"}
<1>t. req \in [Workers -> {Idle} \cup AuditRequest] /\ req[w] \in {Idle} \cup AuditRequest
    BY DEF TypeInv
<1>1. ASSUME NEW p \in Papers, NEW r, Arrival(w, p, r)
      PROVE  req'[w].row.status \in {"DRAFT", "REVIEWED"}
  <2>1. OpenPaper(w, p, r) /\ r.row = paper[p]
      BY <1>1, Arrived
  <2>2. req'[w] = r
      BY <1>t, <2>1, OpenedPaper
  <2>3. PICK c \in Contents : EditPaper(w, p, c)
      BY <1>1, <2>2 DEF Arrival
  <2>4. QED
      BY <2>1, <2>2, <2>3 DEF EditPaper
<1>2. CASE PaperRead(w)
  <2>1. req[w].op \in {"LINK", "RESOLVE", "SIGN"}
      BY <1>2 DEF PaperRead, ReadDocument, ReadNote, CountNotes
  <2>2. req'[w].op = "IDLE" \/ req'[w].op = req[w].op
      BY <1>t, <1>2, <2>1, PaperReads, IdleOK, RequestKinds DEF OnToCommit, LinkRequest, ResolveRequest, SignRequest
  <2>3. QED
      BY <2>1, <2>2
<1>3. CASE req' = req
    BY <1>3
<1>4. CASE req' = [req EXCEPT ![w] = Idle]
    BY <1>t, <1>4, IdleOK
<1>5. QED
    BY <1>1, <1>2, <1>3, <1>4, PaperCases
    DEF CreatePaper, ArchiveFile, RepeatedLink, PlainCommit, CommitEdit, CommitLink, CommitNote,
        CommitResolve, CommitSignOff, Finish

LEMMA PlanInvNext ==
    ASSUME TypeInv, PlanInv, AuditNext
    PROVE  PlanInv'
<1>1. PICK w \in Workers : \/ PapersStep(w) \/ AcceptanceStep(w) \/ TeamStep(w)
                           \/ RiskStep(w) \/ ItemsStep(w) \/ FileStep(w)
    BY StepKinds
<1>t. req \in [Workers -> {Idle} \cup AuditRequest] /\ materiality \in BOOLEAN
    BY DEF TypeInv, PlanningTablesOK
<1>2. \A v \in Workers \ {w} : req'[v] = req[v]
    BY <1>1, PapersStepType, AcceptanceStepType, TeamStepType, RiskStepType, ItemsStepType, FileStepType
    DEF Serves
<1>3. PlanKnows(req'[w])
  <2>0. PlanKnows(req[w])
      BY DEF PlanInv
  <2>1. CASE req'[w] = req[w]
      BY <2>0, <2>1
  <2>2. CASE req'[w].op \notin {"EDIT", "FINALIZE"}
      BY <2>2 DEF PlanKnows
  <2>3. CASE PapersStep(w) /\ req'[w] # req[w]
    <3>1. req'[w].op # "FINALIZE"
        BY <2>3, PapersStepType DEF Serves, PaperOps
    <3>2. QED
        BY <2>3, <3>1, PlanArrivals DEF PlanKnows
  <2>4. ASSUME NEW Ops \in {AcceptanceOps, TeamOps, {}, ItemOps}, Serves(w, Ops)
        PROVE  req'[w].op \notin {"EDIT", "FINALIZE"}
      BY <2>4 DEF Serves, AcceptanceOps, TeamOps, ItemOps
  <2>5. CASE GateRead(w)
    <3>1. req'[w] = Idle \/ (req[w].op = "FINALIZE" /\ GateStep(req[w], req'[w]))
        BY <1>t, <2>5, GateReads
    <3>2. QED
        BY <1>t, <2>0, <2>2, <3>1, PlanGateSees, IdleOK
  <2>6. CASE Finalize(w)
    <3>1. req'[w].op = "FINALIZE" /\ req'[w].at = "acceptance"
        BY <1>t, <2>6 DEF Finalize, Begin
    <3>2. QED
        BY <3>1 DEF PlanKnows
  <2>7. CASE \/ \E done \in SUBSET Checks : UpsertCompletion(w, done)
             \/ CommitCompletion(w) \/ CommitFinalize(w)
    <3>1. req'[w].op \in {"IDLE", "COMPLETE"}
        BY <1>t, <2>7, IdleOK DEF UpsertCompletion, CommitCompletion, CommitFinalize, Begin, Finish
    <3>2. QED
        BY <2>2, <3>1
  <2>8. QED
      BY <1>1, <2>1, <2>2, <2>3, <2>4, <2>5, <2>6, <2>7,
         AcceptanceStepType, TeamStepType, RiskStepType, ItemsStepType DEF FileStep, GateRead
<1>4. ASSUME NEW v \in Workers, PlanKnows(req'[v])
      PROVE  PlanKnows(req[v])'
    BY <1>4, PlanGrows DEF PlanKnows
<1>5. ASSUME NEW v \in Workers
      PROVE  PlanKnows(req'[v])
    BY <1>2, <1>3 DEF PlanInv
<1>6. QED
    BY <1>4, <1>5 DEF PlanInv

LEMMA PlanInvInit == AuditInit => PlanInv
<1>1. PlanKnows(Idle)
    BY DEF PlanKnows, Idle
<1>2. QED
    BY <1>1 DEF AuditInit, PapersInit, PlanInv

-----------------------------------------------------------------------------
(* What the protocol sees of a step.                                       *)

planView == <<Met, Approved, Planned>>
paperView == <<PaperStatuses, PaperTexts, PaperEvidence, PaperNotes>>

LEMMA ViewsKept ==
    /\ UNCHANGED <<acceptance, materiality, team>> => UNCHANGED planView
    /\ UNCHANGED <<paper, note, evidence>> => UNCHANGED paperView
    /\ UNCHANGED item => UNCHANGED WorkStates
    /\ UNCHANGED completion => UNCHANGED <<ChecklistComplete, Finalized>>
<1>1. UNCHANGED <<acceptance, materiality, team>> => UNCHANGED planView
    BY DEF planView, Met, Approved, Planned
<1>2. ASSUME UNCHANGED <<paper, note, evidence>>
      PROVE  UNCHANGED paperView
  <2>1. PaperStatuses' = PaperStatuses
      BY <1>2 DEF PaperStatuses
  <2>2. PaperTexts' = PaperTexts
      BY <1>2 DEF PaperTexts, Written
  <2>3. PaperEvidence' = PaperEvidence
      BY <1>2 DEF PaperEvidence
  <2>4. PaperNotes' = PaperNotes
      BY <1>2 DEF PaperNotes, OpenNotes
  <2>5. QED
      BY <2>1, <2>2, <2>3, <2>4 DEF paperView
<1>3. UNCHANGED item => UNCHANGED WorkStates
    BY DEF WorkStates, WorkState
<1>4. UNCHANGED completion => UNCHANGED <<ChecklistComplete, Finalized>>
    BY DEF ChecklistComplete, Finalized
<1>5. QED
    BY <1>1, <1>2, <1>3, <1>4

\* Of the requests, the protocol sees what finalizations have asked for.
LEMMA AskedKept ==
    ASSUME NEW w \in Workers, NEW Ops, Serves(w, Ops), "FINALIZE" \notin Ops
    PROVE  Asked' = Asked
<1>1. ASSUME NEW v \in Workers
      PROVE  Asks(req'[v]) = Asks(req[v])
    BY DEF Serves, Asks
<1>2. QED
    BY <1>1 DEF Asked, Asks

LEMMA AskedOf ==
    ASSUME TypeInv, NEW w \in Workers, NEW r, req' = [req EXCEPT ![w] = r]
    PROVE  /\ Asked[w] = Asks(req[w])
           /\ Asked' = [Asked EXCEPT ![w] = Asks(r)]
<1>1. \A v \in Workers : req'[v] = IF v = w THEN r ELSE req[v]
    BY DEF TypeInv
<1>2. Asked' = [v \in Workers |-> Asks(req'[v])]
    BY DEF Asked, Asks
<1>3. Asked = [v \in Workers |-> Asks(req[v])]
    BY DEF Asked
<1>4. \A v \in Workers : Asks(req'[v]) = IF v = w THEN Asks(r) ELSE Asks(req[v])
    BY <1>1
<1>5. QED
    BY <1>2, <1>3, <1>4

LEMMA SilentStep ==
    ASSUME UNCHANGED <<planView, paperView, WorkStates, ChecklistComplete, Asked, Finalized>>
    PROVE  UNCHANGED Protocol!protocolVars
    BY DEF planView, paperView, Protocol!protocolVars

-----------------------------------------------------------------------------
(* The steps of the plan.                                                  *)

LEMMA AcceptanceFollows ==
    ASSUME TypeInv, AcceptanceInv, NEW w \in Workers, AcceptanceStep(w), ~stale'
    PROVE  [Protocol!ProtocolNext]_(Protocol!protocolVars)
<1>1. UNCHANGED <<paperView, WorkStates, ChecklistComplete, Finalized>>
    BY AcceptanceStepType, ViewsKept DEF paperRows, executionTables
<1>2. Asked' = Asked
    BY AcceptanceStepType, AskedKept DEF AcceptanceOps
<1>3. UNCHANGED <<materiality, team>>
    BY DEF AcceptanceStep, UpsertAcceptance, DecideAcceptance, CommitAcceptance, CommitDecision, planningTables
<1>4. Planned' = Planned
    BY <1>3 DEF Planned
<1>t. /\ acceptance \in AcceptanceRow \cup {NoRow} /\ req[w] \in {Idle} \cup AuditRequest
      /\ HasRows(req[w])
    BY DEF TypeInv, PlanningTablesOK
<1>5. CASE acceptance' = acceptance
    BY <1>1, <1>2, <1>3, <1>5, ViewsKept, SilentStep
<1>6. CASE CommitAcceptance(w) /\ acceptance' # acceptance
  <2>1. req[w] \in AcceptRequest /\ acceptance = req[w].row
      BY <1>t, <1>6, RequestKinds DEF CommitAcceptance
  <2>2. \/ acceptance' = [status |-> "DRAFT", met |-> req[w].met, version |-> 1]
        \/ acceptance' = AcceptanceAfter(acceptance, req[w])
      BY <1>6 DEF CommitAcceptance
  <2>3. acceptance'.status = "DRAFT" /\ acceptance'.met = req[w].met /\ acceptance' # NoRow
      BY <2>1, <2>2 DEF AcceptanceAfter, Column, NoRow
  <2>4. Approved' = FALSE /\ Met' \in BOOLEAN
      BY <2>1, <2>3 DEF Approved, Met, AcceptRequest
  <2>5. Protocol!Assess
      BY <1>1, <1>2, <1>4, <2>4
      DEF Protocol!Assess, Protocol!paperState, Protocol!fileState, paperView
  <2>6. QED
      BY <2>5 DEF Protocol!ProtocolNext
<1>7. CASE CommitDecision(w)
  <2> DEFINE to == Column(acceptance.status, req[w].row.status, req[w].to)
             row == [acceptance EXCEPT !.status = to, !.version = req[w].row.version + 1]
  <2>1. req[w] \in DecideRequest /\ acceptance = req[w].row /\ req[w].op = "DECIDE"
      BY <1>t, <1>7, RequestKinds DEF CommitDecision
  <2>2. acceptance' = row /\ acceptance \in AcceptanceRow
      BY <1>7, <2>1 DEF CommitDecision, DecideRequest
  <2>3. row.status = req[w].to /\ row.met = acceptance.met
      BY <2>1, <2>2 DEF Column, AcceptanceRow
  <2>4. req[w].to = "APPROVED" => acceptance.met
      BY <2>1, <2>3 DEF DecideRequest, AcceptanceInv
  <2>s. row.status # "NO_ROW"
      BY <2>1, <2>3 DEF DecideRequest
  <2> HIDE DEF row
  <2>n. row # NoRow /\ acceptance # NoRow
      BY <2>2, <2>s, RowFields DEF NoRow
  <2>5. Met' = Met /\ (Approved' => Met)
      BY <2>1, <2>2, <2>3, <2>4, <2>n DEF Met, Approved, DecideRequest
  <2>6. Protocol!Decide
      BY <1>1, <1>2, <1>4, <2>5
      DEF Protocol!Decide, Protocol!paperState, Protocol!fileState, paperView, Approved
  <2>7. QED
      BY <2>6 DEF Protocol!ProtocolNext
<1>8. QED
    BY <1>5, <1>6, <1>7 DEF AcceptanceStep, UpsertAcceptance, DecideAcceptance, planningTables

LEMMA PlanningFollows ==
    ASSUME TypeInv, AuditNext, NEW w \in Workers, TeamStep(w) \/ RiskStep(w)
    PROVE  [Protocol!ProtocolNext]_(Protocol!protocolVars)
<1>1. UNCHANGED <<paperView, WorkStates, ChecklistComplete, Finalized>>
    BY TeamStepType, RiskStepType, ViewsKept DEF paperRows, executionTables
<1>2. Asked' = Asked
    BY TeamStepType, RiskStepType, AskedKept DEF TeamOps
<1>3. acceptance' = acceptance
    BY DEF TeamStep, RiskStep, AssignMember, DeclareIndependence, CommitDeclaration, SetMateriality, CreateRisk,
           LinkProcedure, planningTables
<1>4. Met' = Met /\ Approved' = Approved
    BY <1>3 DEF Met, Approved
<1>5. (materiality => materiality') /\ (team # {} => team' # {})
    BY PlanGrows
<1>6. Planned' = TRUE \/ Planned' = Planned
    BY <1>5 DEF Planned, TypeInv, PlanningTablesOK
<1>7. CASE Planned' = Planned
    BY <1>1, <1>2, <1>4, <1>7, SilentStep DEF planView
<1>8. CASE Planned' = TRUE
  <2>1. Protocol!Plan
      BY <1>1, <1>2, <1>4, <1>8 DEF Protocol!Plan, Protocol!paperState, Protocol!fileState, paperView
  <2>2. QED
      BY <2>1 DEF Protocol!ProtocolNext
<1>9. QED
    BY <1>6, <1>7, <1>8

-----------------------------------------------------------------------------
(* The steps of the work.                                                  *)

\* One item changes.
LEMMA WorkOf ==
    ASSUME NEW i \in Items, \A j \in Items \ {i} : item'[j] = item[j]
    PROVE  /\ i \notin DemandedWork \/ WorkState(i)' = WorkState(i) => WorkStates' = WorkStates
           /\ i \in DemandedWork => /\ WorkStates[i] = WorkState(i)
                                    /\ WorkStates' = [WorkStates EXCEPT ![i] = WorkState(i)']
<1>1. \A j \in DemandedWork \ {i} : WorkState(j)' = WorkState(j)
    BY DEF WorkState, DemandedWork
<1>2. WorkStates = [j \in DemandedWork |-> WorkState(j)] /\ WorkStates' = [j \in DemandedWork |-> WorkState(j)']
    BY DEF WorkStates
<1>3. i \notin DemandedWork \/ WorkState(i)' = WorkState(i) => WorkStates' = WorkStates
    BY <1>1, <1>2
<1>4. ASSUME i \in DemandedWork
      PROVE  /\ WorkStates[i] = WorkState(i)
             /\ WorkStates' = [WorkStates EXCEPT ![i] = WorkState(i)']
    BY <1>1, <1>2, <1>4
<1>5. QED
    BY <1>3, <1>4

\* Creating a test or severe issue makes it known; moving one, if it changes
\* anything, does it.
LEMMA WorkMoves ==
    ASSUME TypeInv, NEW w \in Workers, CommitItem(w) \/ CommitMove(w)
    PROVE  \/ WorkStates' = WorkStates
           \/ \E i \in DemandedWork :
                 /\ \/ WorkStates[i] = "NONE" /\ WorkStates' = [WorkStates EXCEPT ![i] = "OPEN"]
                    \/ WorkStates[i] = "OPEN" /\ WorkStates' = [WorkStates EXCEPT ![i] = "DONE"]
<1>t. /\ item \in [Items -> AnyItemRow \cup {NoRow}] /\ \A i \in Items : item[i] \in ItemRow(i) \cup {NoRow}
      /\ req[w] \in {Idle} \cup AuditRequest /\ HasRows(req[w]) /\ RequestOK(req[w])
    BY DEF TypeInv, ExecutionTablesOK
<1>0. PICK i \in Items : i = req[w].item
    BY <1>t, RequestKinds DEF CommitItem, CommitMove, CreateRequest, MoveRequest
<1>1. CASE CommitItem(w)
  <2>2. CASE item[i] # NoRow
      BY <1>0, <1>1, <2>2, ViewsKept DEF CommitItem
  <2>3. CASE item[i] = NoRow
    <3> DEFINE row == [status |-> Fresh[Kind[i]], version |-> 1]
    <3>1. item' = [item EXCEPT ![i] = row]
        BY <1>0, <1>1, <2>3 DEF CommitItem
    <3>2. item'[i] = row /\ \A j \in Items \ {i} : item'[j] = item[j]
        BY <1>t, <3>1
    <3>3. CASE i \notin DemandedWork
        BY <3>2, <3>3, WorkOf
    <3>4. CASE i \in DemandedWork
      <4>1. Kind[i] \in Demanded
          BY <3>4 DEF DemandedWork
      <4>2. row.status \notin Settled[Kind[i]] /\ row # NoRow
          BY <4>1, KindFacts DEF Demanded, Fresh, Kinds, NoRow
      <4>3. WorkState(i) = "NONE" /\ WorkState(i)' = "OPEN"
          BY <2>3, <3>2, <4>2 DEF WorkState
      <4>4. QED
          BY <3>2, <3>4, <4>3, WorkOf
    <3>5. QED
        BY <3>3, <3>4
  <2>4. QED
      BY <2>2, <2>3
<1>2. CASE CommitMove(w)
  <2> DEFINE r == req[w]
             to == Column(item[i].status, r.row.status, r.to)
             row == [item[i] EXCEPT !.status = to, !.version = r.row.version + 1]
  <2>1. r.to \in Target[Kind[i]] /\ item[i] \in ItemRow(i)
      BY <1>t, <1>0, <1>2, RequestKinds DEF CommitMove, RequestOK, MoveRequest, HasRows
  <2>2. item' = [item EXCEPT ![i] = row]
    <3>1. item' = [item EXCEPT ![i].status = to, ![i].version = r.row.version + 1]
        BY <1>0, <1>2 DEF CommitMove
    <3> HIDE DEF to
    <3>2. QED
        BY <1>t, <2>1, <3>1
  <2>3. to \in {item[i].status, r.to}
      BY DEF Column
  <2> HIDE DEF to
  <2>4. row.status = to
      BY <2>1 DEF ItemRow
  <2> HIDE DEF row
  <2>5. item'[i] = row /\ \A j \in Items \ {i} : item'[j] = item[j]
      BY <1>t, <2>1, <2>2
  <2>6. CASE i \notin DemandedWork
      BY <2>1, <2>5, <2>6, WorkOf
  <2>7. CASE i \in DemandedWork
    <3>1. Kind[i] \in Demanded
        BY <2>7 DEF DemandedWork
    <3>2. r.to \in Settled[Kind[i]]
        BY <2>1, <3>1, KindFacts DEF Demanded
    <3>3. row # NoRow /\ item[i] # NoRow
      <4>1. item[i].status \in ItemStatus[Kind[i]] /\ r.to \in ItemStatus[Kind[i]]
            /\ "NO_ROW" \notin ItemStatus[Kind[i]] /\ item[i] # NoRow
          BY <2>1, ItemFields, KindFacts
      <4>2. row.status # "NO_ROW"
          BY <2>3, <2>4, <4>1
      <4>3. QED
          BY <4>1, <4>2 DEF NoRow
    <3>4. WorkState(i)' = WorkState(i) \/ (WorkState(i) = "OPEN" /\ WorkState(i)' = "DONE")
        BY <2>3, <2>4, <2>5, <3>2, <3>3 DEF WorkState
    <3>5. QED
        BY <2>1, <2>5, <2>7, <3>4, WorkOf
  <2>8. QED
      BY <2>6, <2>7
<1>3. QED
    BY <1>1, <1>2

LEMMA ItemsFollow ==
    ASSUME TypeInv, NEW w \in Workers, ItemsStep(w)
    PROVE  [Protocol!ProtocolNext]_(Protocol!protocolVars)
<1>1. UNCHANGED <<planView, paperView, ChecklistComplete, Finalized>>
    BY ItemsStepType, ViewsKept DEF paperRows, planningTables
<1>2. Asked' = Asked
    BY ItemsStepType, AskedKept DEF ItemOps
<1>3. CASE CommitItem(w) \/ CommitMove(w)
  <2>1. CASE WorkStates' = WorkStates
      BY <1>1, <1>2, <2>1, SilentStep
  <2>2. ASSUME NEW i \in DemandedWork,
               \/ WorkStates[i] = "NONE" /\ WorkStates' = [WorkStates EXCEPT ![i] = "OPEN"]
               \/ WorkStates[i] = "OPEN" /\ WorkStates' = [WorkStates EXCEPT ![i] = "DONE"]
        PROVE  Protocol!ProtocolNext
    <3>1. Protocol!Register(i) \/ Protocol!Do(i)
        BY <1>1, <1>2, <2>2
        DEF Protocol!Register, Protocol!Do, Protocol!planState, Protocol!paperState, planView, paperView
    <3>2. QED
        BY <3>1 DEF Protocol!ProtocolNext
  <2>3. QED
      BY <1>3, <2>1, <2>2, WorkMoves
<1>4. CASE item' = item
    BY <1>1, <1>2, <1>4, ViewsKept, SilentStep
<1>5. QED
    BY <1>3, <1>4 DEF ItemsStep, CreateItem, MoveItem, CheckNotFinalized, executionTables

-----------------------------------------------------------------------------
(* The steps of the papers.                                                *)

fileView == <<planView, WorkStates, ChecklistComplete, Asked, Finalized>>

LEMMA PaperFrame ==
    ASSUME TypeInv, NEW w \in Workers, PapersStep(w)
    PROVE  UNCHANGED fileView
<1>1. UNCHANGED <<planView, WorkStates, ChecklistComplete, Finalized>>
    BY PapersStepType, ViewsKept DEF planningTables, executionTables
<1>2. Asked' = Asked
    BY PapersStepType, AskedKept DEF PaperOps
<1>3. QED
    BY <1>1, <1>2 DEF fileView

\* One paper changes.
LEMMA PaperViewOf ==
    ASSUME TypeInv, NEW p \in Papers, NEW row \in PaperRow, paper' = [paper EXCEPT ![p] = row]
    PROVE  /\ PaperStatuses[p] = paper[p].status
           /\ PaperStatuses' = [PaperStatuses EXCEPT ![p] = row.status]
           /\ PaperTexts' = [PaperTexts EXCEPT ![p] = {row.content}]
           /\ row.status = paper[p].status => PaperStatuses' = PaperStatuses
           /\ paper[p] # NoRow /\ row.content = paper[p].content => PaperTexts' = PaperTexts
<1>1. \A q \in Papers : paper'[q] = IF q = p THEN row ELSE paper[q]
    BY DEF TypeInv, PaperTablesOK
<1>2. row # NoRow
    BY RowFields
<1>3. /\ PaperStatuses = [q \in Papers |-> paper[q].status]
      /\ PaperStatuses' = [q \in Papers |-> paper'[q].status]
    BY DEF PaperStatuses
<1>4. \A q \in Papers : paper'[q].status = IF q = p THEN row.status ELSE paper[q].status
    BY <1>1
<1>5. /\ PaperStatuses[p] = paper[p].status
      /\ PaperStatuses' = [PaperStatuses EXCEPT ![p] = row.status]
      /\ row.status = paper[p].status => PaperStatuses' = PaperStatuses
    BY <1>3, <1>4
<1> DEFINE said(q) == IF paper[q] # NoRow THEN {paper[q].content} ELSE {}
           says(q) == IF paper'[q] # NoRow THEN {paper'[q].content} ELSE {}
<1>6. PaperTexts = [q \in Papers |-> said(q)] /\ PaperTexts' = [q \in Papers |-> says(q)]
    BY DEF PaperTexts, Written
<1>7. /\ \A q \in Papers : says(q) = IF q = p THEN {row.content} ELSE said(q)
      /\ paper[p] # NoRow => said(p) = {paper[p].content}
    BY <1>1, <1>2
<1> HIDE DEF said, says
<1>8. /\ PaperTexts' = [PaperTexts EXCEPT ![p] = {row.content}]
      /\ paper[p] # NoRow /\ row.content = paper[p].content => PaperTexts' = PaperTexts
    BY <1>6, <1>7
<1>9. QED
    BY <1>5, <1>8

\* Unless stale, the paper a commit writes is not locked.
LEMMA WritesUnlocked ==
    ASSUME TypeInv, SignInv, NEW w \in Workers, req[w].op \in PaperOps,
           NEW p \in Papers, p = req[w].paper, ~stale, paper[p] = req[w].row
    PROVE  Protocol!Unlocked(p)
<1>1. paper[p] \in PaperRow /\ paper[p] # NoRow
    BY RequestOfPaper, RowFields
<1>2. ~paper[p].locked
    BY DEF SignInv, SignKnows
<1>3. paper[p].status # "LOCKED"
    BY <1>1, <1>2 DEF SignInv, SignoffsAreChain
<1>4. paper[p].status # "NO_ROW"
    BY <1>1, RowFields DEF PaperStatus
<1>5. PaperStatuses[p] = paper[p].status
    BY DEF PaperStatuses
<1>6. QED
    BY <1>3, <1>4, <1>5 DEF Protocol!Unlocked

LEMMA EvidenceView ==
    ASSUME NEW p \in Papers, NEW f \in Files, evidence' = evidence \cup {<<p, f>>}
    PROVE  PaperEvidence' = [PaperEvidence EXCEPT ![p] = @ \cup {f}]
<1> DEFINE had(q) == {g \in Files : <<q, g>> \in evidence}
           has(q) == {g \in Files : <<q, g>> \in evidence'}
<1>1. PaperEvidence = [q \in Papers |-> had(q)] /\ PaperEvidence' = [q \in Papers |-> has(q)]
    BY DEF PaperEvidence
<1>2. \A q \in Papers : has(q) = IF q = p THEN had(q) \cup {f} ELSE had(q)
    OBVIOUS
<1> HIDE DEF had, has
<1>3. QED
    BY <1>1, <1>2

\* One note changes, of one paper.
LEMMA NotesView ==
    ASSUME NEW p \in Papers, NEW n \in Notes, \A m \in Notes \ {n} : note'[m] = note[m],
           note'[n] # NoRow /\ note'[n].paper = p, note[n] = NoRow \/ note[n].paper = p
    PROVE  PaperNotes' = [PaperNotes EXCEPT ![p] = IF note'[n].status = "OPEN" THEN @ \cup {n} ELSE @ \ {n}]
<1> DEFINE had(q) == OpenNotes(q)
           has(q) == {m \in Notes : note'[m] # NoRow /\ note'[m].paper = q /\ note'[m].status = "OPEN"}
<1>1. PaperNotes = [q \in Papers |-> had(q)] /\ PaperNotes' = [q \in Papers |-> has(q)]
    BY DEF PaperNotes, OpenNotes
<1>2. \A q \in Papers \ {p} : has(q) = had(q)
    BY DEF OpenNotes
<1>3. has(p) = IF note'[n].status = "OPEN" THEN had(p) \cup {n} ELSE had(p) \ {n}
    BY DEF OpenNotes
<1> HIDE DEF had, has
<1>4. QED
    BY <1>1, <1>2, <1>3

LEMMA PaperStepFollows ==
    ASSUME NEW p \in Papers, Protocol!PaperStep(p)
    PROVE  Protocol!ProtocolNext
    BY DEF Protocol!ProtocolNext

LEMMA CreationFollows ==
    ASSUME TypeInv, NEW p \in Papers, NEW c \in Contents, NEW w \in Workers, CreatePaper(w, p, c),
           UNCHANGED fileView
    PROVE  Protocol!ProtocolNext
<1>1. NewPaper(c) \in PaperRow /\ NewPaper(c).status = "DRAFT" /\ NewPaper(c).content = c
    BY DEF NewPaper, PaperRow, PaperStatus
<1>2. paper[p] = NoRow /\ paper' = [paper EXCEPT ![p] = NewPaper(c)] /\ UNCHANGED <<note, evidence>>
    BY DEF CreatePaper
<1>3. /\ PaperStatuses' = [PaperStatuses EXCEPT ![p] = "DRAFT"]
      /\ PaperTexts' = [PaperTexts EXCEPT ![p] = {c}]
      /\ PaperStatuses[p] = "NO_ROW"
  <2>1. paper[p].status = "NO_ROW"
      BY <1>2 DEF NoRow
  <2>2. PICK row \in PaperRow : row = NewPaper(c)
      BY <1>1
  <2>3. /\ PaperStatuses[p] = paper[p].status
        /\ PaperStatuses' = [PaperStatuses EXCEPT ![p] = row.status]
        /\ PaperTexts' = [PaperTexts EXCEPT ![p] = {row.content}]
      BY <1>2, <2>2, PaperViewOf
  <2>4. QED
      BY <1>1, <2>1, <2>2, <2>3
<1>4. PaperEvidence' = PaperEvidence /\ PaperNotes' = PaperNotes
    BY <1>2 DEF PaperEvidence, PaperNotes, OpenNotes
<1>5. Protocol!Prepare(p, c)
    BY <1>3, <1>4
    DEF fileView, planView, Protocol!Prepare, Protocol!planState, Protocol!fileState, Protocol!Written
<1>6. QED
    BY <1>5, PaperStepFollows DEF Protocol!PaperStep

\* The four commits that leave the status alone.
LEMMA PlainFollows ==
    ASSUME TypeInv, SignInv, NotesInv, PlanInv, NEW w \in Workers, PlainCommit(w), ~stale',
           UNCHANGED fileView
    PROVE  Protocol!ProtocolNext
<1>1. req[w].op \in PaperOps
    BY DEF PlainCommit, CommitEdit, CommitLink, CommitNote, CommitResolve, PaperOps
<1>2. PICK p \in Papers : p = req[w].paper
    BY <1>1, RequestOfPaper
<1>3. PICK row \in PaperRow : /\ PaperCommit(w, row)
                              /\ row.status = paper[p].status
                              /\ req[w].op # "EDIT" => row.content = paper[p].content
    BY <1>2, CommitRow DEF PlainCommit
<1>4. ~stale /\ paper[p] = req[w].row /\ paper' = [paper EXCEPT ![p] = row]
    BY <1>2, <1>3 DEF PaperCommit, Overtaken
<1>5. Protocol!Unlocked(p) /\ paper[p] # NoRow
    BY <1>1, <1>2, <1>4, WritesUnlocked, RequestOfPaper, RowFields
<1>6. /\ PaperStatuses' = PaperStatuses /\ PaperStatuses[p] = paper[p].status
      /\ PaperTexts' = [PaperTexts EXCEPT ![p] = {row.content}]
      /\ req[w].op # "EDIT" => PaperTexts' = PaperTexts
    BY <1>3, <1>4, <1>5, PaperViewOf
<1>t. req[w] \in {Idle} \cup AuditRequest /\ note \in [Notes -> NoteRow \cup {NoRow}]
    BY DEF TypeInv, PaperTablesOK
<1>7. CASE CommitEdit(w)
  <2>1. req[w].op = "EDIT" /\ UNCHANGED <<note, evidence>>
      BY <1>7 DEF CommitEdit
  <2>2. PaperStatuses[p] \in {"DRAFT", "REVIEWED"}
      BY <1>4, <1>6, <2>1 DEF PlanInv, PlanKnows
  <2>3. PaperEvidence' = PaperEvidence /\ PaperNotes' = PaperNotes
      BY <2>1 DEF PaperEvidence, PaperNotes, OpenNotes
  <2>4. PICK c \in Contents : c = row.content
      BY RowFields
  <2>5. Protocol!Rewrite(p, c)
      BY <1>6, <2>2, <2>3, <2>4
      DEF fileView, planView, Protocol!Rewrite, Protocol!planState, Protocol!fileState
  <2>6. QED
      BY <2>5, PaperStepFollows DEF Protocol!PaperStep
<1>8. CASE CommitLink(w)
  <2>1. PICK f \in Files : f = req[w].file
      BY <1>t, <1>8, RequestKinds DEF CommitLink, LinkRequest
  <2>2. req[w].op = "LINK" /\ evidence' = evidence \cup {<<p, f>>} /\ note' = note
      BY <1>2, <1>8, <2>1 DEF CommitLink
  <2>3. PaperEvidence' = [PaperEvidence EXCEPT ![p] = @ \cup {f}] /\ PaperNotes' = PaperNotes
      BY <2>2, EvidenceView DEF PaperNotes, OpenNotes
  <2>4. Protocol!Link(p, f)
      BY <1>5, <1>6, <2>2, <2>3
      DEF fileView, planView, Protocol!Link, Protocol!planState, Protocol!fileState
  <2>5. QED
      BY <2>4, PaperStepFollows DEF Protocol!PaperStep
<1>9. CASE CommitNote(w)
  <2>1. PICK n \in Notes : n = req[w].note
      BY <1>t, <1>9, RequestKinds DEF CommitNote, NoteRequest
  <2> DEFINE new == [paper |-> p, status |-> "OPEN"]
  <2>2. req[w].op = "NOTE" /\ note' = [note EXCEPT ![n] = new] /\ evidence' = evidence
      BY <1>2, <1>9, <2>1 DEF CommitNote
  <2>3. note[n] = NoRow /\ new # NoRow
      BY <2>1, <2>2 DEF NotesInv, NotesKnow, NoRow
  <2>4. note'[n] = new /\ \A m \in Notes \ {n} : note'[m] = note[m]
      BY <1>t, <2>2
  <2>5. PaperNotes' = [PaperNotes EXCEPT ![p] = @ \cup {n}] /\ PaperEvidence' = PaperEvidence
      BY <2>2, <2>3, <2>4, NotesView DEF PaperEvidence
  <2>6. Protocol!Raise(p, n)
      BY <1>5, <1>6, <2>2, <2>5
      DEF fileView, planView, Protocol!Raise, Protocol!planState, Protocol!fileState
  <2>7. QED
      BY <2>6, PaperStepFollows DEF Protocol!PaperStep
<1>10. CASE CommitResolve(w)
  <2>1. PICK n \in Notes : n = req[w].note
      BY <1>t, <1>10, RequestKinds DEF CommitResolve, ResolveRequest
  <2> DEFINE new == [note[n] EXCEPT !.status = "RESOLVED"]
  <2>2. req[w].op = "RESOLVE" /\ note' = [note EXCEPT ![n] = new] /\ evidence' = evidence
      BY <1>10, <2>1, <1>t DEF CommitResolve
  <2>3. note[n] \in NoteRow /\ note[n].paper = p
      BY <1>t, <1>2, <2>1, <2>2 DEF NotesInv, NotesKnow, TypeInv, HasRows
  <2>4. new \in NoteRow /\ new.paper = p /\ new.status = "RESOLVED" /\ new # NoRow
      BY <2>3, RowFields DEF NoteRow
  <2>5. note'[n] = new /\ \A m \in Notes \ {n} : note'[m] = note[m]
      BY <1>t, <2>2
  <2> HIDE DEF new
  <2>6. PaperNotes' = [PaperNotes EXCEPT ![p] = @ \ {n}] /\ PaperEvidence' = PaperEvidence
      BY <2>2, <2>3, <2>4, <2>5, NotesView DEF PaperEvidence
  <2>7. Protocol!Resolve(p, n)
      BY <1>5, <1>6, <2>2, <2>6
      DEF fileView, planView, Protocol!Resolve, Protocol!planState, Protocol!fileState
  <2>8. QED
      BY <2>7, PaperStepFollows DEF Protocol!PaperStep
<1>11. QED
    BY <1>7, <1>8, <1>9, <1>10 DEF PlainCommit

LEMMA SignOffFollows ==
    ASSUME TypeInv, SignInv, NotesInv, NEW w \in Workers, CommitSignOff(w), ~stale',
           UNCHANGED fileView
    PROVE  Protocol!ProtocolNext
<1> DEFINE r == req[w]
<1>1. r.op \in PaperOps /\ r.op = "SIGN" /\ r.at = "commit" /\ UNCHANGED <<note, evidence>>
    BY DEF CommitSignOff, PaperOps
<1>2. PICK p \in Papers, to \in Signoffs : p = r.paper /\ to = r.action
    BY <1>1, RequestOfPaper, SignOffRow DEF SignRequest
<1>3. PICK row \in PaperRow : PaperCommit(w, row) /\ row.status = to /\ row = SignedOff(paper[p], r)
    BY <1>2, SignOffRow DEF PaperCommit
<1>4. ~stale /\ paper[p] = r.row /\ paper' = [paper EXCEPT ![p] = row]
    BY <1>2, <1>3 DEF PaperCommit, Overtaken
<1>5. paper[p] \in PaperRow /\ paper[p] # NoRow
    BY <1>1, <1>2, RequestOfPaper, RowFields
<1>6. row.content = paper[p].content
    BY <1>3, <1>5 DEF SignedOff, Revised, PaperRow
<1>7. /\ PaperStatuses' = [PaperStatuses EXCEPT ![p] = to] /\ PaperStatuses[p] = paper[p].status
      /\ PaperTexts' = PaperTexts
    BY <1>3, <1>4, <1>5, <1>6, PaperViewOf
<1>8. to \in DOMAIN Protocol!Before /\ PaperStatuses[p] = Protocol!Before[to]
    BY <1>1, <1>2, <1>4, <1>7 DEF SignInv, SignKnows, Expected, Signoffs, Protocol!Before
<1>9. to \in {"APPROVED", "LOCKED"} => PaperNotes[p] = {}
    BY <1>1, <1>2, <1>4 DEF NotesInv, NotesKnow, PaperNotes
<1>10. PaperEvidence' = PaperEvidence /\ PaperNotes' = PaperNotes
    BY <1>1 DEF PaperEvidence, PaperNotes, OpenNotes
<1>11. Protocol!SignOff(p, to)
    BY <1>7, <1>8, <1>9, <1>10
    DEF fileView, planView, Protocol!SignOff, Protocol!planState, Protocol!fileState
<1>12. QED
    BY <1>8, <1>11, PaperStepFollows DEF Protocol!PaperStep

LEMMA PapersFollow ==
    ASSUME TypeInv, SignInv, NotesInv, PlanInv, NEW w \in Workers, PapersStep(w), ~stale'
    PROVE  [Protocol!ProtocolNext]_(Protocol!protocolVars)
<1>1. UNCHANGED fileView
    BY PaperFrame
<1>2. CASE UNCHANGED <<paper, note, evidence>>
    BY <1>1, <1>2, ViewsKept, SilentStep DEF fileView
<1>3. QED
    BY <1>1, <1>2, PaperCases, CreationFollows, PlainFollows, SignOffFollows, OpenedPaper, Arrived,
       PaperReads, RepeatedLinkRead
    DEF ArchiveFile, paperTables

-----------------------------------------------------------------------------
(* The steps of the finalization.                                          *)

doneView == <<planView, paperView, WorkStates>>

LEMMA AsksIdle == Asks(Idle) = Protocol!NotAsked
    BY DEF Asks, Idle, Protocol!NotAsked

\* What a request can ask for is what the file shows of itself.
LEMMA WhatThereIs ==
    ASSUME TypeInv
    PROVE  /\ Protocol!Known = Registered \cap DemandedWork
           /\ Protocol!Written = Written
<1>1. ASSUME NEW i \in DemandedWork
      PROVE  WorkStates[i] # "NONE" <=> item[i] # NoRow
    BY DEF WorkStates, WorkState
<1>2. ASSUME NEW p \in Papers
      PROVE  PaperStatuses[p] # "NO_ROW" <=> paper[p] # NoRow
  <2>1. paper[p] \in PaperRow \cup {NoRow} /\ PaperStatuses[p] = paper[p].status
      BY DEF TypeInv, PaperTablesOK, PaperStatuses
  <2>2. QED
      BY <2>1, RowFields DEF PaperStatus, NoRow
<1>3. DemandedWork \subseteq Items
    BY DEF DemandedWork
<1>4. QED
    BY <1>1, <1>2, <1>3 DEF Protocol!Known, Protocol!Written, Registered, Written

LEMMA AskingFollows ==
    ASSUME TypeInv, NEW w \in Workers, Finalize(w), UNCHANGED doneView
    PROVE  Protocol!Ask(w)
<1> DEFINE r == [op |-> "FINALIZE", at |-> "acceptance", row |-> completion,
                 members |-> 0, unread |-> {}, lock |-> FALSE,
                 items |-> Registered, papers |-> Written]
<1>1. /\ req[w] = Idle /\ req' = [req EXCEPT ![w] = r] /\ completion' = completion
      /\ ~completion.locked
    BY DEF Finalize, Begin, executionTables
<1>2. Asks(r) = [work |-> Protocol!Known, papers |-> Protocol!Written, asked |-> TRUE]
    BY WhatThereIs DEF Asks
<1> HIDE DEF r
<1>3. Asked[w] = Protocol!NotAsked /\ Asked' = [Asked EXCEPT ![w] = Asks(r)]
    BY <1>1, AskedOf, AsksIdle
<1>4. UNCHANGED <<ChecklistComplete, Finalized>> /\ ~Finalized
    BY <1>1, ViewsKept DEF Finalized
<1>5. QED
    BY <1>2, <1>3, <1>4
    DEF doneView, planView, paperView, Protocol!Ask, Protocol!planState, Protocol!paperState

LEMMA RefusalFollows ==
    ASSUME TypeInv, NEW w \in Workers, req' = [req EXCEPT ![w] = Idle], completion' = completion,
           UNCHANGED doneView
    PROVE  Protocol!Refuse(w)
<1>1. Asked' = [Asked EXCEPT ![w] = Protocol!NotAsked]
    BY AskedOf, AsksIdle
<1>2. UNCHANGED <<ChecklistComplete, Finalized>>
    BY ViewsKept
<1>3. QED
    BY <1>1, <1>2
    DEF doneView, planView, paperView, Protocol!Refuse, Protocol!planState, Protocol!paperState

\* Of a request that changes neither what it is nor what it asks for, the
\* protocol sees nothing.
LEMMA AsksTheSame ==
    ASSUME TypeInv, NEW w \in Workers, NEW r, req' = [req EXCEPT ![w] = r], Asks(r) = Asks(req[w])
    PROVE  Asked' = Asked
<1>1. Asked[w] = Asks(req[w]) /\ Asked' = [Asked EXCEPT ![w] = Asks(r)]
    BY AskedOf
<1>2. Asked = [v \in Workers |-> Asks(req[v])]
    BY DEF Asked
<1>3. QED
    BY <1>1, <1>2

LEMMA ReadingFollows ==
    ASSUME TypeInv, NEW w \in Workers, GateRead(w), UNCHANGED doneView
    PROVE  [Protocol!ProtocolNext]_(Protocol!protocolVars)
<1>1. completion' = completion /\ req[w].op = "FINALIZE"
    BY GateReads DEF executionTables
<1>2. CASE req' = [req EXCEPT ![w] = Idle]
    BY <1>1, <1>2, RefusalFollows DEF Protocol!ProtocolNext
<1>3. ASSUME NEW r, GateStep(req[w], r), req' = [req EXCEPT ![w] = r]
      PROVE  UNCHANGED Protocol!protocolVars
  <2>1. Asks(r) = Asks(req[w])
      BY <1>1, <1>3 DEF GateStep, Asks
  <2>2. Asked' = Asked
      BY <1>3, <2>1, AsksTheSame
  <2>3. QED
      BY <1>1, <2>2, ViewsKept, SilentStep DEF doneView
<1>4. QED
    BY <1>2, <1>3, GateReads

LEMMA ChecklistFollows ==
    ASSUME TypeInv, FileInv, NEW w \in Workers, CommitCompletion(w), ~stale', UNCHANGED doneView
    PROVE  [Protocol!ProtocolNext]_(Protocol!protocolVars)
<1>1. req[w].op = "COMPLETE" /\ req' = [req EXCEPT ![w] = Idle]
    BY DEF CommitCompletion, Finish
<1>2. Asks(Idle) = Asks(req[w])
    BY <1>1 DEF Asks, Idle
<1>3. Asked' = Asked
    BY <1>1, <1>2, AsksTheSame
<1>4. CASE completion' = completion
    BY <1>3, <1>4, ViewsKept, SilentStep DEF doneView
<1>5. CASE (Finalized' <=> Finalized) /\ ~Finalized
  <2>1. Finalized' = Finalized
      BY <1>5 DEF Finalized
  <2>2. ChecklistComplete' \in BOOLEAN
      BY DEF ChecklistComplete
  <2>3. Protocol!Tick
      BY <1>3, <1>5, <2>1, <2>2
      DEF doneView, planView, paperView, Protocol!Tick, Protocol!planState, Protocol!paperState
  <2>4. QED
      BY <2>3 DEF Protocol!ProtocolNext
<1>6. QED
    BY <1>4, <1>5, ChecklistCommit

\* A finalization that does not fail commits at a moment when all it was asked
\* for is done.
LEMMA FinalizationFollows ==
    ASSUME TypeInv, SignInv, FileInv, WorkInv, PlanInv, NEW w \in Workers, CommitFinalize(w), ~stale',
           req[w].lock \/ ~fileLock, UNCHANGED doneView
    PROVE  Protocol!Finalize(w)
<1> DEFINE r == req[w]
<1>1. /\ r \in FinalizeRequest /\ r.op = "FINALIZE" /\ r.at = "commit"
      /\ r.row \in CompletionRow /\ completion \in CompletionRow
      /\ req' = [req EXCEPT ![w] = Idle]
    BY FileRows DEF CommitFinalize, Finish
<1>2. completion' = FinalizedRow(r) /\ ~stale /\ completion = r.row
    BY DEF CommitFinalize, FinalizedRow
<1>3. ~completion.locked /\ completion.done = Checks /\ completion # NoRow
    BY <1>1, <1>2, RowFields DEF FileInv, FileKnows
<1>4. ~Finalized /\ ChecklistComplete
    BY <1>3 DEF Finalized, ChecklistComplete
<1>5. Finalized' = TRUE /\ ChecklistComplete' = ChecklistComplete
  <2>1. completion' \in CompletionRow /\ completion'.locked /\ completion'.done = Checks
      BY <1>1, <1>2, <1>3, FinalizedRowFields
  <2>2. QED
      BY <1>4, <2>1, RowFields DEF Finalized, ChecklistComplete
<1>6. Planned
    BY <1>1 DEF PlanInv, PlanKnows, Planned
<1>7. Asked[w] = [work |-> r.items \cap DemandedWork, papers |-> r.papers, asked |-> TRUE]
  <2>1. Asked[w] = Asks(r)
      BY DEF Asked
  <2>2. QED
      BY <1>1, <2>1 DEF Asks
<1>8. Asked' = [Asked EXCEPT ![w] = Protocol!NotAsked]
    BY <1>1, AskedOf, AsksIdle
<1>k. WorkKnows(r)
    BY DEF WorkInv
<1>9. \A i \in r.items \cap DemandedWork : WorkStates[i] = "DONE"
  <2>1. TAKE i \in r.items \cap DemandedWork
  <2>2. item[i] # NoRow /\ Kind[i] \in Demanded
      BY <1>1, <1>k DEF WorkKnows, Registered, DemandedWork
  <2>3. item[i].status \in Settled[Kind[i]]
      BY <1>1, <1>k, <2>2 DEF WorkKnows, AllSettled, Demanded
  <2>4. QED
      BY <2>2, <2>3 DEF WorkStates, WorkState
<1>10. \A p \in r.papers : PaperStatuses[p] = "LOCKED"
  <2>1. TAKE p \in r.papers
  <2>2. p \in Papers /\ paper[p] # NoRow /\ paper[p].locked
      BY <1>1, <1>k DEF WorkKnows, Written, Unlocked
  <2>3. paper[p].status = "LOCKED"
      BY <1>2, <2>2 DEF SignInv, SignoffsAreChain
  <2>4. QED
      BY <2>2, <2>3 DEF PaperStatuses
<1>11. QED
    BY <1>4, <1>5, <1>6, <1>7, <1>8, <1>9, <1>10
    DEF doneView, planView, paperView, Protocol!Finalize, Protocol!planState, Protocol!paperState

LEMMA FileFollows ==
    ASSUME TypeInv, SignInv, FileInv, WorkInv, PlanInv, NEW w \in Workers, FileStep(w), ~stale'
    PROVE  [Protocol!ProtocolNext]_(Protocol!protocolVars)
<1>1. UNCHANGED doneView
    BY FileStepType, ViewsKept DEF paperRows, planningTables, doneView
<1>2. ASSUME NEW done \in SUBSET Checks, UpsertCompletion(w, done)
      PROVE  UNCHANGED Protocol!protocolVars
  <2> DEFINE r == [op |-> "COMPLETE", row |-> completion, done |-> done]
  <2>1. req[w] = Idle /\ req' = [req EXCEPT ![w] = r] /\ completion' = completion
      BY <1>2 DEF UpsertCompletion, Begin, executionTables
  <2>2. Asks(r) = Asks(req[w])
      BY <2>1 DEF Asks, Idle
  <2>3. Asked' = Asked
      BY <2>1, <2>2, AsksTheSame
  <2>4. QED
      BY <1>1, <2>1, <2>3, ViewsKept, SilentStep DEF doneView
<1>3. CASE Finalize(w)
    BY <1>1, <1>3, AskingFollows DEF Protocol!ProtocolNext
<1>4. CASE CommitFinalize(w)
  <2>1. CASE ~req[w].lock /\ fileLock
    <3>1. completion' = completion /\ req' = [req EXCEPT ![w] = Idle]
        BY <1>4, <2>1 DEF CommitFinalize, Finish
    <3>2. QED
        BY <1>1, <3>1, RefusalFollows DEF Protocol!ProtocolNext
  <2>2. CASE req[w].lock \/ ~fileLock
      BY <1>1, <1>4, <2>2, FinalizationFollows DEF Protocol!ProtocolNext
  <2>3. QED
      BY <2>1, <2>2
<1>5. QED
    BY <1>1, <1>2, <1>3, <1>4, ReadingFollows, ChecklistFollows DEF FileStep, GateRead

-----------------------------------------------------------------------------
(* All steps.                                                              *)

LEMMA StepFollows ==
    ASSUME AuditInv, PlanInv, AuditNext, ~stale'
    PROVE  [Protocol!ProtocolNext]_(Protocol!protocolVars)
    BY StepKinds, AcceptanceFollows, PlanningFollows, PapersFollow, ItemsFollow, FileFollows DEF AuditInv

LEMMA ProtocolStarts == AuditInit => Protocol!ProtocolInit
<1> SUFFICES ASSUME AuditInit PROVE Protocol!ProtocolInit
    OBVIOUS
<1>1. /\ \A p \in Papers : paper[p] = NoRow
      /\ \A n \in Notes : note[n] = NoRow
      /\ \A w \in Workers : req[w] = Idle
      /\ \A i \in Items : item[i] = NoRow
      /\ evidence = {} /\ acceptance = NoRow /\ materiality = FALSE /\ completion = NoRow
    BY DEF AuditInit, PapersInit
<1>2. Met = FALSE /\ Approved = FALSE /\ Planned = FALSE
    BY <1>1 DEF Met, Approved, Planned, NoRow
<1>3. PaperStatuses = [p \in Papers |-> "NO_ROW"]
    BY <1>1 DEF PaperStatuses, NoRow
<1>4. PaperTexts = [p \in Papers |-> {}]
    BY <1>1 DEF PaperTexts, Written
<1>5. PaperEvidence = [p \in Papers |-> {}] /\ PaperNotes = [p \in Papers |-> {}]
    BY <1>1 DEF PaperEvidence, PaperNotes, OpenNotes
<1>6. WorkStates = [i \in DemandedWork |-> "NONE"]
    BY <1>1 DEF WorkStates, WorkState, DemandedWork
<1>7. ChecklistComplete = FALSE /\ Finalized = FALSE
    BY <1>1 DEF ChecklistComplete, Finalized
<1>8. Asked = [w \in Workers |-> Protocol!NotAsked]
    BY <1>1, AsksIdle DEF Asked
<1>9. QED
    BY <1>2, <1>3, <1>4, <1>5, <1>6, <1>7, <1>8 DEF Protocol!ProtocolInit

LEMMA ProtocolInvHolds == AuditSpec => [](AuditInv /\ PlanInv)
<1>1. AuditInit => PlanInv
    BY PlanInvInit
<1>2. AuditInv /\ PlanInv /\ [AuditNext]_auditVars => PlanInv'
  <2> SUFFICES ASSUME AuditInv, PlanInv, [AuditNext]_auditVars PROVE PlanInv'
      OBVIOUS
  <2>1. CASE AuditNext
      BY <2>1, PlanInvNext DEF AuditInv
  <2>2. CASE UNCHANGED auditVars
      BY <2>2 DEF auditVars, PlanInv, PlanKnows
  <2>3. QED
      BY <2>1, <2>2
<1>3. QED
    BY <1>1, <1>2, AuditInvHolds, PTL DEF AuditSpec

-----------------------------------------------------------------------------
(* The theorems.                                                           *)

\* Unless stale, the sign-off rows of every paper are an unbroken chain up to
\* the status it shows: _transition of working_papers.py.
THEOREM SignoffsChain == AuditSpec => []SignoffsAreChain
<1>1. AuditInv => SignoffsAreChain
    BY DEF AuditInv, SignInv
<1>2. QED
    BY <1>1, AuditInvHolds, PTL

\* Unless stale, a locked paper has no open review note: the count of
\* lock_working_paper against create_review_note, which asks for no version.
THEOREM LockedPapersHaveNoOpenNotes == AuditSpec => []LockedHasNoOpenNotes
<1>1. AuditInv => LockedHasNoOpenNotes
    BY DEF AuditInv, NotesInv
<1>2. QED
    BY <1>1, AuditInvHolds, PTL

\* Unless stale, an approved acceptance meets its preconditions:
\* decide_acceptance beside upsert_acceptance.
THEOREM ApprovalsRest == AuditSpec => []ApprovalRestsOnPreconditions
<1>1. AuditInv => ApprovalRestsOnPreconditions
    BY DEF AuditInv, AcceptanceInv
<1>2. QED
    BY <1>1, AuditInvHolds, PTL

\* The count of declarations that _planning_ready compares speaks for every
\* member of the team, whatever is lost.
THEOREM IndependenceCounts == AuditSpec => []IndependenceIsPerMember
<1>1. AuditInv => IndependenceIsPerMember
    BY CountedMembers DEF AuditInv
<1>2. QED
    BY <1>1, AuditInvHolds, PTL

\* The lock row, the flag of the completion row and the finalizations agree,
\* whatever overlapped: finalize_audit_file beside upsert_completion.
THEOREM FileLocksAgree == AuditSpec => []FileLockAgrees
<1>1. AuditInv => FileLockAgrees
    BY DEF AuditInv, FileInv
<1>2. QED
    BY <1>1, AuditInvHolds, PTL

\* The tests, severe issues and papers there were when a finalization was asked
\* for are done once it has committed, and stay so, whatever is lost: the
\* counts of _readiness against the handlers that overlap it.
THEOREM FinalizedWorkStaysDone == AuditSpec => []FinalizedWorkIsDone
<1>1. AuditInv => FinalizedWorkIsDone
    BY DEF AuditInv, WorkInv
<1>2. QED
    BY <1>1, AuditInvHolds, PTL

\* A lock is never taken off a paper and only follows a recorded approval; and
\* unless stale, no request that was in flight changes the locked paper:
\* _ensure_editable together with the version checks.
THEOREM LocksStay == AuditSpec => LockedPapersStay
<1>1. AuditInv /\ [AuditNext]_auditVars
      => [\A p \in Papers : paper[p] # NoRow =>
              /\ paper[p].locked => paper'[p].locked
              /\ ~paper[p].locked /\ paper'[p].locked =>
                    \E i \in DOMAIN signoff[p] : signoff[p][i].action = "APPROVED"
              /\ ~stale' /\ paper[p].locked => PaperBody(p)' = PaperBody(p)]_paperVars
  <2> SUFFICES ASSUME AuditInv, [AuditNext]_auditVars, paperVars' # paperVars,
                      NEW p \in Papers, paper[p] # NoRow
               PROVE  PaperStays(p)
      BY DEF PaperStays, ApprovedBefore
  <2>1. AuditNext
      BY DEF auditVars, paperVars
  <2>2. QED
      BY <2>1, LockedStep DEF AuditInv
<1>2. QED
    BY <1>1, AuditInvHolds, PTL DEF AuditSpec, LockedPapersStay

\* After the finalization at most as many changes of the file follow as there
\* were requests that overlapped it: _ensure_not_finalized.
THEOREM FilesDrain == AuditSpec => FinalizedFileDrains
<1>1. AuditInv /\ [AuditNext]_auditVars
      => [Finalized =>
              /\ LetIn' \subseteq LetIn
              /\ <<item, completion, finalization>>' # <<item, completion, finalization>>
                    => LetIn' # LetIn]_auditVars
  <2> SUFFICES ASSUME AuditInv, AuditNext, Finalized
               PROVE  LetIn' \subseteq LetIn /\ (fileRows' # fileRows => LetIn' # LetIn)
      BY DEF fileRows
  <2>1. QED
      BY DrainStep DEF AuditInv
<1>2. QED
    BY <1>1, AuditInvHolds, PTL DEF AuditSpec, FinalizedFileDrains

\* Unless stale, every step of the file is a step of its protocol: the handlers
\* of app/routers/working_papers.py, audit_planning.py and audit_execution.py,
\* which check, count and write in statements of their own, against FileProtocol,
\* where each request is one step.
THEOREM FileFollowsProtocol == AuditSpec => FollowsProtocol
<1>1. (AuditInv /\ PlanInv) /\ [AuditNext]_auditVars
      => [~stale' => [Protocol!ProtocolNext]_(Protocol!protocolVars)]_auditVars
    BY StepFollows
<1>2. QED
    BY <1>1, ProtocolInvHolds, PTL DEF AuditSpec, FollowsProtocol

\* The executions in which every commit rests on what its request has read
\* implement the protocol of the file.
THEOREM FreshFileImplementsProtocol == FreshAuditSpec => Protocol!ProtocolSpec
<1>1. AuditInit => AuditInv /\ PlanInv
    BY TypeInvInit, InvsInit, PlanInvInit DEF AuditInv
<1>2. (AuditInv /\ PlanInv) /\ [AuditNext /\ ~stale']_auditVars => (AuditInv /\ PlanInv)'
  <2> SUFFICES ASSUME AuditInv, PlanInv, [AuditNext /\ ~stale']_auditVars PROVE AuditInv' /\ PlanInv'
      OBVIOUS
  <2>1. AuditInv'
      BY AuditInvNext
  <2>2. CASE AuditNext
      BY <2>1, <2>2, PlanInvNext DEF AuditInv
  <2>3. CASE UNCHANGED auditVars
      BY <2>1, <2>3 DEF auditVars, PlanInv, PlanKnows
  <2>4. QED
      BY <2>1, <2>2, <2>3
<1>3. (AuditInv /\ PlanInv) /\ [AuditNext /\ ~stale']_auditVars
      => [Protocol!ProtocolNext]_(Protocol!protocolVars)
  <2> SUFFICES ASSUME AuditInv, PlanInv, [AuditNext /\ ~stale']_auditVars
               PROVE  [Protocol!ProtocolNext]_(Protocol!protocolVars)
      OBVIOUS
  <2>1. CASE AuditNext /\ ~stale'
      BY <2>1, StepFollows
  <2>2. CASE UNCHANGED auditVars
    <3>1. UNCHANGED <<planView, paperView, WorkStates, ChecklistComplete, Finalized>>
        BY <2>2, ViewsKept DEF auditVars
    <3>2. Asked' = Asked
        BY <2>2 DEF auditVars, Asked, Asks
    <3>3. QED
        BY <3>1, <3>2, SilentStep
  <2>3. QED
      BY <2>1, <2>2
<1>4. QED
    BY <1>1, <1>2, <1>3, ProtocolStarts, PTL DEF FreshAuditSpec, Protocol!ProtocolSpec
=============================================================================
