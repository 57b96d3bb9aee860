---------------------------- MODULE MCAuditFile ----------------------------
(* One audit file in small parts: which requests arrive in a behaviour is   *)
(* fixed by `part`, so that requests which touch no common row do not       *)
(* multiply each other.                                                     *)
EXTENDS AuditFile, TLC

CONSTANTS Parts, w1, w2, p1, n1, n2, f1, plain, revised, s1, s2, r1, q1, t1, i1, c1, c2

VARIABLE part

OneWorker == {w1}
TwoWorkers == {w1, w2}
WorkerSymmetry == Permutations(TwoWorkers)

OnePaper == {p1}
OneNote == {n1}
TwoNotes == {n1, n2}
OneFile == {f1}
TwoContents == {plain, revised}
TwoStaff == {s1, s2}
OneRisk == {r1}
OneOfEach == {q1, t1, i1}
KindOf == [i \in OneOfEach |-> IF i = q1 THEN "REQUISITION" ELSE IF i = t1 THEN "TEST" ELSE "SEVERE_ISSUE"]
TwoChecks == {c1, c2}
NoItems == {}
NoKind == [i \in NoItems |-> "TEST"]
OneStaff == {s1}
OneCheck == {c1}

NotesPart == {"NOTES"}
FilePart == {"TEST"}
AllParts == {"NOTES", "BODY", "ACCEPTANCE", "TEAM", "REQUISITION", "TEST", "SEVERE_ISSUE"}

\* Paper p1 as it is after its creation and its first n sign-offs.
Signed(n) ==
    LET step == <<"SUBMITTED", "REVIEWED", "APPROVED">>
    IN  /\ paper = [p \in Papers |-> [NewPaper(plain) EXCEPT !.status = IF n = 0 THEN @ ELSE step[n],
                                                            !.version = n + 1]]
        /\ signoff = [p \in Papers |->
                         <<[action |-> "PREPARED", from |-> "DRAFT", to |-> "DRAFT"]>>
                         \o [k \in 1 .. n |-> [action |-> step[k], from |-> Expected[step[k]], to |-> step[k]]]]

\* A file that is planned, with its one paper approved or not yet written.
PlannedFile(written) ==
    /\ IF written THEN Signed(3)
       ELSE paper = [p \in Papers |-> NoRow] /\ signoff = [p \in Papers |-> <<>>]
    /\ acceptance = [status |-> "APPROVED", met |-> TRUE, version |-> 2]
    /\ materiality = TRUE
    /\ team = {s1}
    /\ declaration = [s \in Staff |-> IF s = s1 THEN [status |-> "CLEAR"] ELSE NoRow]
    /\ risk = IF written THEN {r1} ELSE {}
    /\ procedure = IF written THEN {<<r1, p1>>} ELSE {}

Unplanned ==
    /\ acceptance = NoRow /\ materiality = FALSE /\ team = {}
    /\ declaration = [s \in Staff |-> NoRow] /\ risk = {} /\ procedure = {}

MCInit ==
    /\ part \in Parts
    /\ note = [n \in Notes |-> NoRow] /\ evidence = {} /\ archived = {}
    /\ req = [w \in Workers |-> Idle] /\ stale = FALSE
    /\ item = [i \in Items |-> NoRow] /\ completion = NoRow
    /\ fileLock = FALSE /\ finalization = <<>>
    /\ \/ part \notin Kinds /\ Unplanned /\ Signed(0)
       \/ part \in Kinds /\ \E written \in BOOLEAN : PlannedFile(written)

\* The notes of a paper, its text and evidence, the acceptance, the other
\* planning records, or the execution of a planned file with items of one
\* kind, whose paper is written and locked meanwhile.
MCNext ==
    /\ part' = part
    /\ \E w \in Workers :
          \/ /\ PaperRequestArrives(w) /\ UNCHANGED <<planningTables, executionTables>>
             /\ \/ part = "NOTES" /\ req'[w].op \in {"NOTE", "RESOLVE", "SIGN"}
                \/ part = "BODY" /\ req'[w].op \notin {"NOTE", "RESOLVE"}
          \/ /\ PlanningArrives(w)
             /\ \/ part = "ACCEPTANCE" /\ req'[w].op \in {"ACCEPT", "DECIDE"}
                \/ part = "TEAM" /\ req'[w].op \notin {"ACCEPT", "DECIDE"}
          \/ /\ part \in Kinds /\ ExecutionArrives(w)
             /\ req'[w].op \in {"CREATE", "MOVE"} => Kind[req'[w].item] = part
          \/ /\ part \in Kinds /\ UNCHANGED <<planningTables, executionTables>>
             /\ \E p \in Papers : CreatePaper(w, p, plain) \/ SignOff(w, p, "LOCKED")
          \/ AuditRequestStep(w)

MCSpec == MCInit /\ [][MCNext]_<<auditVars, part>>

\* The same beginnings, then any request.
WholeSpec == MCInit /\ [][AuditNext /\ part' = part]_<<auditVars, part>>
=============================================================================
