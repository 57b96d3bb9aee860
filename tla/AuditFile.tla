----------------------------- MODULE AuditFile -----------------------------
(***************************************************************************)
(* The audit file of one engagement: its planning records                  *)
(* (app/routers/audit_planning.py), its requisitions, tests and issues,    *)
(* its completion checklist and its finalization                           *)
(* (app/routers/audit_execution.py), beside the working papers.            *)
(***************************************************************************)
EXTENDS WorkingPapers, FiniteSets, Functions

CONSTANTS
    Staff,              \* the staff who may join the engagement's team
    Risks,              \* ids of the significant risks that can be registered
    Items,              \* codes of the requisitions, tests and issues there can be
    Kind,               \* what each of them is
    Checks,             \* the boxes of the completion checklist
    MaxRecordVersion,   \* bounds: no request starts from a later version of an
    MaxAcceptanceVersion\* item or the checklist, and of the acceptance row

Kinds == {"REQUISITION", "TEST", "SEVERE_ISSUE", "MINOR_ISSUE"}

ASSUME AuditAssumption ==
    /\ Kind \in [Items -> Kinds]
    /\ IsFiniteSet(Staff) /\ Checks # {}
    /\ MaxRecordVersion \in Nat /\ MaxAcceptanceVersion \in Nat

VARIABLES
    acceptance,     \* the committed acceptance row, or NoRow
    materiality,    \* is there a materiality row (its amount is always positive)
    team,           \* the active team members: no code ever deactivates one
    declaration,    \* the independence declarations, NoRow for staff without one
    risk,           \* the significant risks registered: no code ever closes one
    procedure,      \* the links <<risk, paper>>
    item,           \* the committed requisitions, tests and issues, or NoRow
    completion,     \* the committed completion row, or NoRow
    fileLock,       \* is there a lock row of the file (it is always LOCKED)
    finalization    \* for each finalization committed, the items and papers
                    \* there were when it was asked for

planningTables == <<acceptance, materiality, team, declaration, risk, procedure>>
executionTables == <<item, completion, fileLock, finalization>>
auditVars == <<paper, note, evidence, archived, signoff, req, stale,
               acceptance, materiality, team, declaration, risk, procedure,
               item, completion, fileLock, finalization>>

-----------------------------------------------------------------------------
(* Rows and requests.                                                      *)

AcceptanceRow == [status : {"DRAFT", "APPROVED", "REJECTED"}, met : BOOLEAN, version : Nat]

Declared == {"CLEAR", "THREAT", "NOT_INDEPENDENT"}
DeclarationRow == [status : Declared]

\* The statuses an item can have, the one it starts with, the ones a request
\* can give it, and the ones that do not stand in the way of finalization.
ItemStatus == [REQUISITION  |-> {"OPEN", "RECEIVED", "CLOSED"},
               TEST         |-> {"DRAFT", "COMPLETED"},
               SEVERE_ISSUE |-> {"OPEN", "RESOLVED"},
               MINOR_ISSUE  |-> {"OPEN", "RESOLVED"}]

\* Mutant: every item starts as open.
FreshOpen == [k \in Kinds |-> "OPEN"]

Fresh == [k \in Kinds |-> IF k = "TEST" THEN "DRAFT" ELSE "OPEN"]
Target == [REQUISITION  |-> {"OPEN", "RECEIVED", "CLOSED"},
           TEST         |-> {"COMPLETED"},
           SEVERE_ISSUE |-> {"RESOLVED"},
           MINOR_ISSUE  |-> {"RESOLVED"}]
Settled == [REQUISITION  |-> {"CLOSED"},
            TEST         |-> {"COMPLETED"},
            SEVERE_ISSUE |-> {"RESOLVED"},
            MINOR_ISSUE  |-> {"OPEN", "RESOLVED"}]

ItemRow(i) == [status : ItemStatus[Kind[i]], version : Nat]

CompletionRow == [done : SUBSET Checks, status : {"DRAFT", "READY", "FINALIZED"},
                  locked : BOOLEAN, version : Nat]

AcceptRequest == [op : {"ACCEPT"}, row : AcceptanceRow \cup {NoRow}, met : BOOLEAN]
DecideRequest == [op : {"DECIDE"}, row : AcceptanceRow, to : {"APPROVED", "REJECTED"}]
DeclareRequest == [op : {"DECLARE"}, staff : Staff, row : DeclarationRow \cup {NoRow}, to : Declared]
CreateRequest == [op : {"CREATE"}, item : Items]
MoveRequest == [op : {"MOVE"}, at : {"completion", "commit"}, item : Items,
                row : [status : UNION Range(ItemStatus), version : Nat], to : UNION Range(Target)]
CompleteRequest == [op : {"COMPLETE"}, row : CompletionRow \cup {NoRow}, done : SUBSET Checks]
FinalizeRequest ==
    [op : {"FINALIZE"},
     at : {"acceptance", "materiality", "team", "declarations", "risks", "procedures",
           "REQUISITION", "TEST", "SEVERE_ISSUE", "papers", "lock", "commit"},
     row : CompletionRow, members : Nat, unread : SUBSET Risks, lock : BOOLEAN,
     items : SUBSET Items, papers : SUBSET Papers]

AuditRequest == PaperRequest \cup AcceptRequest \cup DecideRequest \cup DeclareRequest
    \cup CreateRequest \cup MoveRequest \cup CompleteRequest \cup FinalizeRequest

\* _ensure_not_finalized raises.
Finalized == completion # NoRow /\ completion.locked

Registered == {i \in Items : item[i] # NoRow}
Unsettled(kind) == {i \in Registered : Kind[i] = kind /\ item[i].status \notin Settled[kind]}
Written == {p \in Papers : paper[p] # NoRow}
Unlocked == {p \in Written : ~paper[p].locked}
HasProcedure(r) == \E p \in Papers : <<r, p>> \in procedure

\* Independence as _planning_ready sees it: a count of the team, taken in a
\* statement before the one that reads the declarations.
IndependenceClear(members) ==
    LET made == {s \in Staff : declaration[s] # NoRow}
    IN  /\ members > 0 /\ Cardinality(made) >= members
        /\ \A s \in made : declaration[s].status = "CLEAR"

-----------------------------------------------------------------------------
AuditInit ==
    /\ PapersInit
    /\ acceptance = NoRow
    /\ materiality = FALSE
    /\ team = {}
    /\ declaration = [s \in Staff |-> NoRow]
    /\ risk = {}
    /\ procedure = {}
    /\ item = [i \in Items |-> NoRow]
    /\ completion = NoRow
    /\ fileLock = FALSE
    /\ finalization = <<>>

-----------------------------------------------------------------------------
(* Planning.  No handler of it looks at the completion row.                *)

\* upsert_acceptance: a row that exists is updated under its version, and an
\* insert that finds one at the commit fails on the unique constraint.
UpsertAcceptance(w, met) ==
    /\ acceptance # NoRow => acceptance.version < MaxAcceptanceVersion
    /\ Begin(w, [op |-> "ACCEPT", row |-> acceptance, met |-> met])
    /\ UNCHANGED <<paperTables, planningTables, executionTables>>

\* Mutant: a new assessment keeps the decision on the old one.
AcceptanceUndecided(current, r) ==
    [current EXCEPT !.met = Column(@, r.row.met, r.met), !.version = r.row.version + 1]

AcceptanceAfter(current, r) ==
    [status  |-> Column(current.status, r.row.status, "DRAFT"),
     met     |-> Column(current.met, r.row.met, r.met),
     version |-> r.row.version + 1]

CommitAcceptance(w) ==
    LET r == req[w]
        fails == r.row = NoRow /\ acceptance # NoRow
    IN  /\ r.op = "ACCEPT"
        /\ acceptance' =
              IF fails THEN acceptance
              ELSE IF r.row = NoRow THEN [status |-> "DRAFT", met |-> r.met, version |-> 1]
              ELSE AcceptanceAfter(acceptance, r)
        /\ stale' = (stale \/ (~fails /\ acceptance # r.row))
        /\ Finish(w)
        /\ UNCHANGED <<paper, note, evidence, archived, signoff,
                       materiality, team, declaration, risk, procedure, executionTables>>

\* decide_acceptance: approval asks for the preconditions of the loaded row.
DecideAcceptance(w, to) ==
    /\ acceptance # NoRow /\ acceptance.version < MaxAcceptanceVersion
    /\ to = "APPROVED" => acceptance.met
    /\ Begin(w, [op |-> "DECIDE", row |-> acceptance, to |-> to])
    /\ UNCHANGED <<paperTables, planningTables, executionTables>>

CommitDecision(w) ==
    LET r == req[w]
    IN  /\ r.op = "DECIDE"
        /\ acceptance' = [acceptance EXCEPT !.status = Column(@, r.row.status, r.to),
                                            !.version = r.row.version + 1]
        /\ stale' = (stale \/ acceptance # r.row)
        /\ Finish(w)
        /\ UNCHANGED <<paper, note, evidence, archived, signoff,
                       materiality, team, declaration, risk, procedure, executionTables>>

\* Mutant: anybody may declare.
DeclareForAnybody(w, s, to) ==
    /\ Begin(w, [op |-> "DECLARE", staff |-> s, row |-> declaration[s], to |-> to])
    /\ UNCHANGED <<paperTables, planningTables, executionTables>>

\* upsert_independence: only for an active team member; then as above, with
\* no version to send.
DeclareIndependence(w, s, to) ==
    /\ s \in team
    /\ Begin(w, [op |-> "DECLARE", staff |-> s, row |-> declaration[s], to |-> to])
    /\ UNCHANGED <<paperTables, planningTables, executionTables>>

CommitDeclaration(w) ==
    LET r == req[w]
        now == declaration[r.staff]
        fails == r.row = NoRow /\ now # NoRow
    IN  /\ r.op = "DECLARE"
        /\ declaration' = [declaration EXCEPT ![r.staff] =
              IF fails THEN now
              ELSE IF r.row = NoRow THEN [status |-> r.to]
              ELSE [status |-> Column(now.status, r.row.status, r.to)]]
        /\ stale' = (stale \/ (~fails /\ now # r.row))
        /\ Finish(w)
        /\ UNCHANGED <<paper, note, evidence, archived, signoff,
                       acceptance, materiality, team, risk, procedure, executionTables>>

\* Requests whose single write depends on nothing that can change under them:
\* upsert_materiality, assign_team_member, create_risk, link_risk_procedure.
SetMateriality(w) ==
    /\ req[w] = Idle /\ materiality' = TRUE
    /\ UNCHANGED <<req, paperTables, acceptance, team, declaration, risk, procedure, executionTables>>

AssignMember(w, s) ==
    /\ req[w] = Idle /\ team' = team \cup {s}
    /\ UNCHANGED <<req, paperTables, acceptance, materiality, declaration, risk, procedure, executionTables>>

CreateRisk(w, r) ==
    /\ req[w] = Idle /\ risk' = risk \cup {r}
    /\ UNCHANGED <<req, paperTables, acceptance, materiality, team, declaration, procedure, executionTables>>

LinkProcedure(w, r, p) ==
    /\ req[w] = Idle /\ r \in risk /\ p \in Written
    /\ procedure' = procedure \cup {<<r, p>>}
    /\ UNCHANGED <<req, paperTables, acceptance, materiality, team, declaration, risk, executionTables>>

-----------------------------------------------------------------------------
(* Execution.                                                              *)

\* Mutant: creating does not look at the completion row.
CreateItemAnyway(w, i) ==
    /\ Begin(w, [op |-> "CREATE", item |-> i])
    /\ UNCHANGED <<paperTables, planningTables, executionTables>>

\* create_requisition, create_test, create_issue: check that the file is not
\* finalized, then insert; the unique constraint refuses a code that is taken.
CreateItem(w, i) ==
    /\ ~Finalized
    /\ Begin(w, [op |-> "CREATE", item |-> i])
    /\ UNCHANGED <<paperTables, planningTables, executionTables>>

CommitItem(w) ==
    LET r == req[w]
    IN  /\ r.op = "CREATE"
        /\ item' = IF item[r.item] # NoRow THEN item
                   ELSE [item EXCEPT ![r.item] = [status |-> Fresh[Kind[r.item]], version |-> 1]]
        /\ Finish(w)
        /\ UNCHANGED <<paperTables, planningTables, completion, fileLock, finalization>>

\* update_requisition_status, complete_test, resolve_issue: load the row, then
\* check that the file is not finalized.
MoveItem(w, i, to) ==
    /\ item[i] # NoRow /\ item[i].version < MaxRecordVersion
    /\ to \in Target[Kind[i]]
    /\ Begin(w, [op |-> "MOVE", at |-> "completion", item |-> i, row |-> item[i], to |-> to])
    /\ UNCHANGED <<paperTables, planningTables, executionTables>>

CheckNotFinalized(w) ==
    /\ req[w].op = "MOVE" /\ req[w].at = "completion"
    /\ IF Finalized THEN Finish(w) ELSE req' = [req EXCEPT ![w].at = "commit"]
    /\ UNCHANGED <<paperTables, planningTables, executionTables>>

CommitMove(w) ==
    LET r == req[w]
    IN  /\ r.op = "MOVE" /\ r.at = "commit"
        /\ item' = [item EXCEPT ![r.item].status = Column(@, r.row.status, r.to),
                                ![r.item].version = r.row.version + 1]
        /\ stale' = (stale \/ item[r.item] # r.row)
        /\ Finish(w)
        /\ UNCHANGED <<paper, note, evidence, archived, signoff, planningTables,
                       completion, fileLock, finalization>>

\* upsert_completion: the boxes are columns of their own, so overlapping
\* requests mix.
UpsertCompletion(w, done) ==
    /\ ~Finalized
    /\ completion # NoRow => completion.version < MaxRecordVersion
    /\ Begin(w, [op |-> "COMPLETE", row |-> completion, done |-> done])
    /\ UNCHANGED <<paperTables, planningTables, executionTables>>

ChecklistStatus(r) == IF r.done = Checks THEN "READY" ELSE "DRAFT"

\* Mutant: saving the checklist writes the lock flag as well.
ChecklistUnlocked(current, r) ==
    [done    |-> {c \in Checks : Column(c \in current.done, c \in r.row.done, c \in r.done)},
     status  |-> Column(current.status, r.row.status, ChecklistStatus(r)),
     locked  |-> r.row.locked,
     version |-> r.row.version + 1]

ChecklistAfter(current, r) ==
    [done    |-> {c \in Checks : Column(c \in current.done, c \in r.row.done, c \in r.done)},
     status  |-> Column(current.status, r.row.status, ChecklistStatus(r)),
     locked  |-> current.locked,
     version |-> r.row.version + 1]

CommitCompletion(w) ==
    LET r == req[w]
        fails == r.row = NoRow /\ completion # NoRow
    IN  /\ r.op = "COMPLETE"
        /\ completion' =
              IF fails THEN completion
              ELSE IF r.row = NoRow
              THEN [done |-> r.done, status |-> ChecklistStatus(r), locked |-> FALSE, version |-> 1]
              ELSE ChecklistAfter(completion, r)
        /\ stale' = (stale \/ (~fails /\ completion # r.row))
        /\ Finish(w)
        /\ UNCHANGED <<paper, note, evidence, archived, signoff, planningTables,
                       item, fileLock, finalization>>

-----------------------------------------------------------------------------
(* Finalization.                                                           *)

\* finalize_audit_file: the completion row is loaded once, and _readiness sees
\* that copy of it.  The request remembers what there was, for the properties.
Finalize(w) ==
    /\ completion # NoRow /\ ~completion.locked /\ completion.done = Checks
    /\ Begin(w, [op |-> "FINALIZE", at |-> "acceptance", row |-> completion,
                 members |-> 0, unread |-> {}, lock |-> FALSE,
                 items |-> Registered, papers |-> Written])
    /\ UNCHANGED <<paperTables, planningTables, executionTables>>

\* The selects of _readiness in their order: what each wants to see, and the
\* next one.  One that does not see it leads to a refusal.
Gate(r) == [acceptance   |-> acceptance # NoRow /\ acceptance.status = "APPROVED",
            materiality  |-> materiality,
            team         |-> team # {},
            declarations |-> IndependenceClear(r.members),
            risks        |-> TRUE,
            procedures   |-> r.unread = {},
            REQUISITION  |-> Unsettled("REQUISITION") = {},
            TEST         |-> Unsettled("TEST") = {},
            SEVERE_ISSUE |-> Unsettled("SEVERE_ISSUE") = {},
            papers       |-> Unlocked = {}]

\* Mutant: the unlocked papers are counted in the report only.
NextGateWithoutPapers ==
    [acceptance |-> "materiality", materiality |-> "team", team |-> "declarations",
     declarations |-> "risks", risks |-> "procedures", procedures |-> "REQUISITION",
     REQUISITION |-> "TEST", TEST |-> "SEVERE_ISSUE", SEVERE_ISSUE |-> "lock", papers |-> "lock"]

NextGate == [acceptance |-> "materiality", materiality |-> "team", team |-> "declarations",
             declarations |-> "risks", risks |-> "procedures", procedures |-> "REQUISITION",
             REQUISITION |-> "TEST", TEST |-> "SEVERE_ISSUE", SEVERE_ISSUE |-> "papers",
             papers |-> "lock"]

CheckReadiness(w) ==
    LET r == req[w]
    IN  /\ r.op = "FINALIZE" /\ r.at \in DOMAIN NextGate
        /\ r.at = "procedures" => r.unread = {}
        /\ IF Gate(r)[r.at]
           THEN req' = [req EXCEPT
                    ![w].at = NextGate[@],
                    ![w].members = IF r.at = "team" THEN Cardinality(team) ELSE @,
                    ![w].unread = IF r.at = "risks" THEN risk ELSE @]
           ELSE Finish(w)
        /\ UNCHANGED <<paperTables, planningTables, executionTables>>

\* One select of a procedure for each risk that was read.
CheckProcedure(w, k) ==
    /\ req[w].op = "FINALIZE" /\ req[w].at = "procedures" /\ k \in req[w].unread
    /\ IF HasProcedure(k) THEN req' = [req EXCEPT ![w].unread = @ \ {k}] ELSE Finish(w)
    /\ UNCHANGED <<paperTables, planningTables, executionTables>>

ReadFileLock(w) ==
    /\ req[w].op = "FINALIZE" /\ req[w].at = "lock"
    /\ req' = [req EXCEPT ![w].at = "commit", ![w].lock = fileLock]
    /\ UNCHANGED <<paperTables, planningTables, executionTables>>

\* The commit: a lock row inserted since the select fails it.
CommitFinalize(w) ==
    LET r == req[w]
        fails == ~r.lock /\ fileLock
    IN  /\ r.op = "FINALIZE" /\ r.at = "commit"
        /\ completion' = IF fails THEN completion
                         ELSE [completion EXCEPT !.status = Column(@, r.row.status, "FINALIZED"),
                                                 !.locked = TRUE, !.version = r.row.version + 1]
        /\ fileLock' = TRUE
        /\ finalization' = IF fails THEN finalization
                           ELSE Append(finalization, [items |-> r.items, papers |-> r.papers])
        /\ stale' = (stale \/ (~fails /\ completion # r.row))
        /\ Finish(w)
        /\ UNCHANGED <<paper, note, evidence, archived, signoff, planningTables, item>>

-----------------------------------------------------------------------------
PlanningArrives(w) ==
    \/ \E met \in BOOLEAN : UpsertAcceptance(w, met)
    \/ \E to \in {"APPROVED", "REJECTED"} : DecideAcceptance(w, to)
    \/ \E s \in Staff : AssignMember(w, s) \/ \E to \in Declared : DeclareIndependence(w, s, to)
    \/ SetMateriality(w)
    \/ \E r \in Risks : CreateRisk(w, r) \/ \E p \in Papers : LinkProcedure(w, r, p)

ExecutionArrives(w) ==
    \/ \E i \in Items : CreateItem(w, i) \/ \E to \in Target[Kind[i]] : MoveItem(w, i, to)
    \/ \E done \in SUBSET Checks : UpsertCompletion(w, done)
    \/ Finalize(w)

AuditRequestStep(w) ==
    \/ CommitAcceptance(w)
    \/ CommitDecision(w)
    \/ CommitDeclaration(w)
    \/ CommitItem(w)
    \/ CheckNotFinalized(w)
    \/ CommitMove(w)
    \/ CommitCompletion(w)
    \/ CheckReadiness(w)
    \/ \E k \in Risks : CheckProcedure(w, k)
    \/ ReadFileLock(w)
    \/ CommitFinalize(w)
    \/ PaperRequestStep(w) /\ UNCHANGED <<planningTables, executionTables>>

AuditNext == \E w \in Workers :
    \/ PaperRequestArrives(w) /\ UNCHANGED <<planningTables, executionTables>>
    \/ PlanningArrives(w)
    \/ ExecutionArrives(w)
    \/ AuditRequestStep(w)

AuditSpec == AuditInit /\ [][AuditNext]_auditVars

\* The executions in which every commit still rests on what its request read.
FreshAuditSpec == AuditInit /\ [][AuditNext /\ ~stale']_auditVars
-----------------------------------------------------------------------------
(* Properties.                                                             *)

\* Every request record is one a handler can have built from committed rows.
AuditTypeOK ==
    /\ paper \in [Papers -> PaperRow \cup {NoRow}]
    /\ note \in [Notes -> NoteRow \cup {NoRow}]
    /\ evidence \subseteq Papers \X Files /\ archived \subseteq Files
    /\ signoff \in [Papers -> Seq(SignoffRow)]
    /\ acceptance \in AcceptanceRow \cup {NoRow}
    /\ materiality \in BOOLEAN
    /\ team \subseteq Staff
    /\ declaration \in [Staff -> DeclarationRow \cup {NoRow}]
    /\ risk \subseteq Risks /\ procedure \subseteq Risks \X Papers
    /\ \A i \in Items : item[i] \in ItemRow(i) \cup {NoRow}
    /\ completion \in CompletionRow \cup {NoRow}
    /\ fileLock \in BOOLEAN
    /\ finalization \in Seq([items : SUBSET Items, papers : SUBSET Papers])
    /\ req \in [Workers -> {Idle} \cup AuditRequest]
    /\ \A w \in Workers : req[w].op = "MOVE" =>
          /\ req[w].row \in ItemRow(req[w].item)
          /\ req[w].to \in Target[Kind[req[w].item]]
    /\ stale \in BOOLEAN

\* The count _planning_ready compares means what it is taken for: at any
\* moment it is satisfied exactly when there is a team and every member of it
\* has declared to be clear, because declarations are only taken from members
\* and members never leave.
IndependenceIsPerMember ==
    IndependenceClear(Cardinality(team))
        <=> team # {} /\ \A s \in team : declaration[s] = [status |-> "CLEAR"]

\* The three places that say whether the file is finalized agree, whatever
\* overlapped: the lock row, the flag of the completion row (which a checklist
\* saved by an older request leaves alone) and the record of finalizations.
\* Unless stale, the file is finalized once, and the row still says so with
\* every box ticked.
FileLockAgrees ==
    /\ fileLock <=> Finalized
    /\ Finalized <=> finalization # <<>>
    /\ ~stale /\ Finalized =>
          /\ Len(finalization) = 1
          /\ completion.status = "FINALIZED" /\ completion.done = Checks

\* Whatever is lost, the tests, severe issues and papers there were when a
\* finalization was asked for are done once it has committed, and stay so: no
\* overlapping request takes back what a count of _readiness has seen.
FinalizedWorkIsDone ==
    \A n \in DOMAIN finalization :
        /\ \A i \in finalization[n].items :
              Kind[i] \in {"TEST", "SEVERE_ISSUE"} => item[i].status \in Settled[Kind[i]]
        /\ finalization[n].papers \cap Unlocked = {}

\* The workers whose request has been let in and will still write the
\* requisitions, tests, issues or checklist of the file.
LetIn == {w \in Workers : \/ req[w].op \in {"CREATE", "COMPLETE", "FINALIZE"}
                          \/ req[w].op = "MOVE" /\ req[w].at = "commit"}

\* Once the file is finalized no further request is let in, and each change of
\* its execution records uses up one that was: at most as many changes follow
\* the finalization as requests overlapped it, then the file rests for ever.
FinalizedFileDrains ==
    [][Finalized =>
          /\ LetIn' \subseteq LetIn
          /\ <<item, completion, finalization>>' # <<item, completion, finalization>>
                => LetIn' # LetIn]_auditVars

-----------------------------------------------------------------------------
(* The protocol of the file.  It sees rows without their versions, the      *)
(* tests and severe issues as open or done, and of the requests in flight   *)
(* only the finalizations.                                                  *)

Met == acceptance # NoRow /\ acceptance.met
Approved == acceptance.status = "APPROVED"
Planned == materiality /\ team # {}

PaperStatuses == [p \in Papers |-> paper[p].status]
PaperTexts == [p \in Papers |-> IF p \in Written THEN {paper[p].content} ELSE {}]
PaperEvidence == [p \in Papers |-> {f \in Files : <<p, f>> \in evidence}]
PaperNotes == [p \in Papers |-> OpenNotes(p)]

Demanded == {"TEST", "SEVERE_ISSUE"}
DemandedWork == {i \in Items : Kind[i] \in Demanded}
WorkState(i) == IF item[i] = NoRow THEN "NONE"
                ELSE IF item[i].status \in Settled[Kind[i]] THEN "DONE" ELSE "OPEN"
WorkStates == [i \in DemandedWork |-> WorkState(i)]
ChecklistComplete == completion # NoRow /\ completion.done = Checks

Asks(r) == IF r.op = "FINALIZE"
           THEN [work |-> r.items \cap DemandedWork, papers |-> r.papers, asked |-> TRUE]
           ELSE [work |-> {}, papers |-> {}, asked |-> FALSE]
Asked == [w \in Workers |-> Asks(req[w])]

Protocol == INSTANCE FileProtocol WITH
    Clients <- Workers,       Work <- DemandedWork,
    met <- Met,               approved <- Approved,         planned <- Planned,
    status <- PaperStatuses,  text <- PaperTexts,
    linked <- PaperEvidence,  open <- PaperNotes,
    work <- WorkStates,       complete <- ChecklistComplete,
    asked <- Asked,           finalized <- Finalized

\* Unless stale, what overlapping requests do to the file amounts to the
\* indivisible steps of FileProtocol: an approval is of the assessment the row
\* still shows, a paper is signed off with no open note on it and is left alone
\* once locked, and the file is finalized once, at a moment when what there was
\* when it was asked for is done, although handlers check, count and write in
\* statements of their own.
FollowsProtocol == [][~stale' => [Protocol!ProtocolNext]_(Protocol!protocolVars)]_auditVars

-----------------------------------------------------------------------------
(* What the repository says without "unless stale", and the code does not   *)
(* keep; refuted by a run of its own.                                       *)

\* "The audit file is finalized and locked", but the planning records and the
\* set of working papers are not.
FinalizedFileIsReady ==
    Finalized => /\ Gate([members |-> Cardinality(team), unread |-> {}])
                      = [g \in DOMAIN NextGate |-> TRUE]
                 /\ \A r \in risk : HasProcedure(r)
=============================================================================
