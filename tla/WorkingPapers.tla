--------------------------- MODULE WorkingPapers ---------------------------
(***************************************************************************)
(* The working papers of one engagement with their evidence links, review  *)
(* notes and sign-off history: app/routers/working_papers.py, and the      *)
(* archiving of documents in app/routers/documents.py.                     *)
(***************************************************************************)
EXTENDS Requests

CONSTANTS
    Papers,             \* codes of the papers that can exist
    Notes,              \* ids of the review notes that can be raised
    Files,              \* documents of the engagement, each with one version
    Contents,           \* what a paper can say
    MaxPaperVersion     \* bound: no request starts from a later row version

ASSUME PapersAssumption == Contents # {} /\ MaxPaperVersion \in Nat

VARIABLES
    paper,      \* the committed paper rows, NoRow for a code without one
    note,       \* the committed review notes, NoRow for an id without one
    evidence,   \* the committed links <<paper, file>>
    archived,   \* the files that are archived
    signoff     \* for each paper, its sign-off rows, oldest first

paperTables == <<paper, note, evidence, archived, signoff, stale>>
paperVars == <<paper, note, evidence, archived, signoff, req, stale>>

-----------------------------------------------------------------------------
(* Rows and requests.                                                      *)

PaperStatus == {"DRAFT", "SUBMITTED", "REVIEWED", "APPROVED", "LOCKED"}

\* The status each sign-off expects; it is named after the one it leads to.
Expected == [SUBMITTED |-> "DRAFT",    REVIEWED |-> "SUBMITTED",
             APPROVED  |-> "REVIEWED", LOCKED   |-> "APPROVED"]

Signoffs == DOMAIN Expected

PaperRow == [status : PaperStatus, locked : BOOLEAN, content : Contents, version : Nat]

NewPaper(c) == [status |-> "DRAFT", locked |-> FALSE, content |-> c, version |-> 1]

NoteRow == [paper : Papers, status : {"OPEN", "RESOLVED"}]

SignoffRow == [action : Signoffs \cup {"PREPARED"}, from : PaperStatus, to : PaperStatus]

\* A request about paper `paper`, whose row it loaded as `row`.
EditRequest == [op : {"EDIT"}, paper : Papers, row : PaperRow, content : Contents]
LinkRequest == [op : {"LINK"}, at : {"document", "commit"}, paper : Papers, row : PaperRow, file : Files]
NoteRequest == [op : {"NOTE"}, paper : Papers, row : PaperRow, note : Notes]
ResolveRequest == [op : {"RESOLVE"}, at : {"note", "commit"}, paper : Papers, row : PaperRow, note : Notes]
SignRequest == [op : {"SIGN"}, at : {"notes", "commit"}, paper : Papers, row : PaperRow, action : Signoffs]

PaperRequest == EditRequest \cup LinkRequest \cup NoteRequest \cup ResolveRequest \cup SignRequest

\* Mutant: _ensure_editable refuses nothing.
EditableIfThere(r) == r # NoRow

\* _ensure_editable.
Editable(r) == r # NoRow /\ ~(r.locked \/ r.status = "LOCKED")

OpenNotes(p) == {n \in Notes : note[n] # NoRow /\ note[n].paper = p /\ note[n].status = "OPEN"}

\* The paper as a commit leaves it that changes nothing but the version.
Revised(current, r) == [current EXCEPT !.version = r.row.version + 1]

\* The request's paper is no longer the row it loaded.
Overtaken(r) == paper[r.paper] # r.row

-----------------------------------------------------------------------------
PapersInit ==
    /\ paper = [p \in Papers |-> NoRow]
    /\ note = [n \in Notes |-> NoRow]
    /\ evidence = {}
    /\ archived = {}
    /\ signoff = [p \in Papers |-> <<>>]
    /\ req = [w \in Workers |-> Idle]
    /\ stale = FALSE

\* create_working_paper: nothing it reads can change what it inserts, so it is
\* one step; the unique constraint refuses a code that is taken.
CreatePaper(w, p, c) ==
    /\ req[w] = Idle /\ paper[p] = NoRow
    /\ paper' = [paper EXCEPT ![p] = NewPaper(c)]
    /\ signoff' = [signoff EXCEPT ![p] = Append(@, [action |-> "PREPARED", from |-> "DRAFT", to |-> "DRAFT"])]
    /\ UNCHANGED <<note, evidence, archived, req, stale>>

\* Load paper p for a request that sends the version it finds.
OpenPaper(w, p, request) ==
    /\ Editable(paper[p]) /\ paper[p].version < MaxPaperVersion
    /\ Begin(w, request)
    /\ UNCHANGED paperTables

\* update_working_paper.
EditPaper(w, p, c) ==
    /\ Editable(paper[p]) /\ paper[p].status \in {"DRAFT", "REVIEWED"}
    /\ OpenPaper(w, p, [op |-> "EDIT", paper |-> p, row |-> paper[p], content |-> c])

Edited(current, r) ==
    [Revised(current, r) EXCEPT !.content = Column(@, r.row.content, r.content)]

CommitEdit(w) ==
    LET r == req[w]
    IN  /\ r.op = "EDIT"
        /\ paper' = [paper EXCEPT ![r.paper] = Edited(@, r)]
        /\ stale' = (stale \/ Overtaken(r))
        /\ Finish(w)
        /\ UNCHANGED <<note, evidence, archived, signoff>>

\* link_evidence: load the paper, then the document and its version ...
LinkEvidence(w, p, f) ==
    OpenPaper(w, p, [op |-> "LINK", at |-> "document", paper |-> p, row |-> paper[p], file |-> f])

ReadDocument(w) ==
    /\ req[w].op = "LINK" /\ req[w].at = "document"
    /\ IF req[w].file \in archived THEN Finish(w)
                                   ELSE req' = [req EXCEPT ![w].at = "commit"]
    /\ UNCHANGED paperTables

\* ... and insert the link; the unique constraint turns a duplicate into a 409.
CommitLink(w) ==
    LET r == req[w]
        new == <<r.paper, r.file>> \notin evidence
    IN  /\ r.op = "LINK" /\ r.at = "commit"
        /\ evidence' = evidence \cup {<<r.paper, r.file>>}
        /\ paper' = IF new THEN [paper EXCEPT ![r.paper] = Revised(@, r)] ELSE paper
        /\ stale' = (stale \/ (new /\ Overtaken(r)))
        /\ Finish(w)
        /\ UNCHANGED <<note, archived, signoff>>

\* create_review_note: no version is asked for.  The id is the note's uuid.
RaiseNote(w, p, n) ==
    /\ note[n] = NoRow /\ \A v \in Workers : req[v].op = "NOTE" => req[v].note # n
    /\ OpenPaper(w, p, [op |-> "NOTE", paper |-> p, row |-> paper[p], note |-> n])

CommitNote(w) ==
    LET r == req[w]
    IN  /\ r.op = "NOTE"
        /\ note' = [note EXCEPT ![r.note] = [paper |-> r.paper, status |-> "OPEN"]]
        /\ paper' = [paper EXCEPT ![r.paper] = Revised(@, r)]
        /\ stale' = (stale \/ Overtaken(r))
        /\ Finish(w)
        /\ UNCHANGED <<evidence, archived, signoff>>

\* resolve_review_note: load the paper, then the note, which must be open.
ResolveNote(w, p, n) ==
    /\ note[n] # NoRow /\ note[n].paper = p
    /\ OpenPaper(w, p, [op |-> "RESOLVE", at |-> "note", paper |-> p, row |-> paper[p], note |-> n])

ReadNote(w) ==
    /\ req[w].op = "RESOLVE" /\ req[w].at = "note"
    /\ IF note[req[w].note].status = "RESOLVED" THEN Finish(w)
                                                ELSE req' = [req EXCEPT ![w].at = "commit"]
    /\ UNCHANGED paperTables

CommitResolve(w) ==
    LET r == req[w]
    IN  /\ r.op = "RESOLVE" /\ r.at = "commit"
        /\ note' = [note EXCEPT ![r.note].status = "RESOLVED"]
        /\ paper' = [paper EXCEPT ![r.paper] = Revised(@, r)]
        /\ stale' = (stale \/ Overtaken(r))
        /\ Finish(w)
        /\ UNCHANGED <<evidence, archived, signoff>>

\* Mutant: locking trusts the count made for the approval.
FirstReadUnlessLocking(action) == IF action = "APPROVED" THEN "notes" ELSE "commit"

\* Approving and locking count the open notes first.
FirstRead(action) == IF action \in {"APPROVED", "LOCKED"} THEN "notes" ELSE "commit"

\* _transition.
SignOff(w, p, action) ==
    /\ paper[p] # NoRow /\ paper[p].status = Expected[action]
    /\ OpenPaper(w, p, [op |-> "SIGN", at |-> FirstRead(action), paper |-> p,
                        row |-> paper[p], action |-> action])

CountNotes(w) ==
    /\ req[w].op = "SIGN" /\ req[w].at = "notes"
    /\ IF OpenNotes(req[w].paper) # {} THEN Finish(w)
                                       ELSE req' = [req EXCEPT ![w].at = "commit"]
    /\ UNCHANGED paperTables

\* Mutant: the previous status is taken after it has changed.
SignoffEntryLate(r) == [action |-> r.action, from |-> r.action, to |-> r.action]

\* The paper and the sign-off row that the commit of a sign-off leaves.
SignedOff(current, r) ==
    [Revised(current, r) EXCEPT !.status = r.action, !.locked = @ \/ r.action = "LOCKED"]
SignoffEntry(r) == [action |-> r.action, from |-> r.row.status, to |-> r.action]

CommitSignOff(w) ==
    LET r == req[w]
    IN  /\ r.op = "SIGN" /\ r.at = "commit"
        /\ paper' = [paper EXCEPT ![r.paper] = SignedOff(@, r)]
        /\ signoff' = [signoff EXCEPT ![r.paper] = Append(@, SignoffEntry(r))]
        /\ stale' = (stale \/ Overtaken(r))
        /\ Finish(w)
        /\ UNCHANGED <<note, evidence, archived>>

\* archive_document: what it writes depends on nothing else it reads.
ArchiveFile(w, f) ==
    /\ req[w] = Idle /\ f \notin archived
    /\ archived' = archived \cup {f}
    /\ UNCHANGED <<paper, note, evidence, signoff, req, stale>>

PaperRequestArrives(w) ==
    \/ \E p \in Papers :
          \/ \E c \in Contents : CreatePaper(w, p, c) \/ EditPaper(w, p, c)
          \/ \E f \in Files : LinkEvidence(w, p, f)
          \/ \E n \in Notes : RaiseNote(w, p, n) \/ ResolveNote(w, p, n)
          \/ \E action \in Signoffs : SignOff(w, p, action)
    \/ \E f \in Files : ArchiveFile(w, f)

PaperRequestStep(w) ==
    \/ CommitEdit(w)
    \/ ReadDocument(w)
    \/ CommitLink(w)
    \/ CommitNote(w)
    \/ ReadNote(w)
    \/ CommitResolve(w)
    \/ CountNotes(w)
    \/ CommitSignOff(w)

PapersNext == \E w \in Workers : PaperRequestArrives(w) \/ PaperRequestStep(w)

PapersSpec == PapersInit /\ [][PapersNext]_paperVars
-----------------------------------------------------------------------------
(* Properties.                                                             *)

\* Unless stale, the sign-off rows of a paper are an unbroken chain of the
\* steps of _transition up to the status its row shows, and the row is marked
\* as locked exactly when the chain has got there.
SignoffsAreChain ==
    ~stale => \A p \in Papers : paper[p] # NoRow =>
        LET s == signoff[p]
        IN  /\ \A i \in DOMAIN s : i > 1 => s[i].from = s[i - 1].to /\ s[i].from = Expected[s[i].to]
            /\ paper[p].status = s[Len(s)].to
            /\ paper[p].locked <=> paper[p].status = "LOCKED"

\* Unless stale, a locked paper has no open review note, although the notes
\* were counted before the lock and raising one asks for no version.
LockedHasNoOpenNotes ==
    ~stale => \A p \in Papers : paper[p] # NoRow /\ paper[p].locked => OpenNotes(p) = {}

\* What a paper says, with its evidence and notes.
PaperBody(p) == <<paper[p].content, {f \in Files : <<p, f>> \in evidence},
                  {n \in Notes : note[n] # NoRow /\ note[n].paper = p}, OpenNotes(p)>>

\* Whatever is lost, the lock flag of a paper is never taken off again, and
\* only a paper with a recorded approval gets it; and unless stale, nothing a
\* locked paper says, rests on or was asked about changes, whichever requests
\* were in flight when it was locked.
LockedPapersStay ==
    [][\A p \in Papers : paper[p] # NoRow =>
          /\ paper[p].locked => paper'[p].locked
          /\ ~paper[p].locked /\ paper'[p].locked =>
                \E i \in DOMAIN signoff[p] : signoff[p][i].action = "APPROVED"
          /\ ~stale' /\ paper[p].locked => PaperBody(p)' = PaperBody(p)]_paperVars

-----------------------------------------------------------------------------
(* What the repository says without "unless stale", and the code does not   *)
(* keep; refuted by a run of its own.                                       *)

\* "Locked working papers cannot be modified": an edit, a note or a link that
\* was let in before the lock is committed after it.
LockedPapersAreImmutable ==
    [][\A p \in Papers : paper[p] # NoRow /\ paper[p].locked => PaperBody(p)' = PaperBody(p)]_paperVars
=============================================================================
