--------------------------- MODULE DocumentStore ---------------------------
(***************************************************************************)
(* Documents and their versions (app/routers/documents.py).  An upload     *)
(* checks the document first and then awaits the file, so that anything    *)
(* may commit before it does.  Contents are opaque; the access log is left *)
(* out.                                                                    *)
(***************************************************************************)
EXTENDS Requests

CONSTANTS
    Documents,      \* ids of the documents that can exist
    MaxDocVersion   \* bound: no upload starts from a later version

ASSUME DocumentsAssumption == MaxDocVersion \in Nat

VARIABLES
    document,   \* the committed document rows, NoRow for an id without one
    versions    \* the version numbers of each document, in commit order

documentVars == <<document, versions, req, stale>>

DocumentRow == [current : Nat, archived : BOOLEAN]

VersionRequest == [op : {"UPLOAD_VERSION"}, document : Documents, row : DocumentRow]

ArchiveRequest == [op : {"ARCHIVE"}, document : Documents, row : DocumentRow]

DocumentRequest == VersionRequest \cup ArchiveRequest

-----------------------------------------------------------------------------
DocumentsInit ==
    /\ document = [d \in Documents |-> NoRow]
    /\ versions = [d \in Documents |-> <<>>]
    /\ req = [w \in Workers |-> Idle]
    /\ stale = FALSE

\* upload_document: the document and its first version, in one transaction.
UploadDocument(w, d) ==
    /\ req[w] = Idle /\ document[d] = NoRow
    /\ document' = [document EXCEPT ![d] = [current |-> 1, archived |-> FALSE]]
    /\ versions' = [versions EXCEPT ![d] = <<1>>]
    /\ UNCHANGED <<req, stale>>

\* _accessible_document: the row is there and not archived.
Accessible(d) == document[d] # NoRow /\ ~document[d].archived

\* Mutant: a version is added to an archived document.
UploadVersionAnyway(w, d) ==
    /\ document[d] # NoRow /\ document[d].current < MaxDocVersion
    /\ Begin(w, [op |-> "UPLOAD_VERSION", document |-> d, row |-> document[d]])
    /\ UNCHANGED <<document, versions, stale>>

\* upload_new_version, up to the awaited file.
UploadVersion(w, d) ==
    /\ Accessible(d) /\ document[d].current < MaxDocVersion
    /\ Begin(w, [op |-> "UPLOAD_VERSION", document |-> d, row |-> document[d]])
    /\ UNCHANGED <<document, versions, stale>>

\* An empty or too large file, or a broken upload, is refused.
RefuseFile(w) ==
    /\ req[w].op = "UPLOAD_VERSION"
    /\ Finish(w)
    /\ UNCHANGED <<document, versions, stale>>

\* Mutant: without the unique constraint.
CommitVersionTwice(w) ==
    LET r    == req[w]
        next == r.row.current + 1
    IN  /\ r.op = "UPLOAD_VERSION"
        /\ versions' = [versions EXCEPT ![r.document] = Append(@, next)]
        /\ document' = [document EXCEPT ![r.document].current = next]
        /\ stale' = (stale \/ document[r.document] # r.row)
        /\ Finish(w)

\* The rest of upload_new_version; uq_document_version_number lets a number
\* in once, and the second upload fails at its flush.
CommitVersion(w) ==
    LET r    == req[w]
        next == r.row.current + 1
    IN  /\ r.op = "UPLOAD_VERSION"
        /\ \/ /\ \E k \in DOMAIN versions[r.document] : versions[r.document][k] = next
              /\ UNCHANGED <<document, versions, stale>>
           \/ /\ \A k \in DOMAIN versions[r.document] : versions[r.document][k] # next
              /\ versions' = [versions EXCEPT ![r.document] = Append(@, next)]
              /\ document' = [document EXCEPT ![r.document].current = next]
              /\ stale' = (stale \/ document[r.document] # r.row)
        /\ Finish(w)

\* archive_document.
Archive(w, d) ==
    /\ Accessible(d)
    /\ Begin(w, [op |-> "ARCHIVE", document |-> d, row |-> document[d]])
    /\ UNCHANGED <<document, versions, stale>>

CommitArchive(w) ==
    LET r == req[w]
    IN  /\ r.op = "ARCHIVE"
        /\ document' = [document EXCEPT ![r.document].archived = TRUE]
        /\ stale' = (stale \/ document[r.document] # r.row)
        /\ Finish(w)
        /\ UNCHANGED versions

DocumentRequestArrives(w) ==
    \E d \in Documents : UploadDocument(w, d) \/ UploadVersion(w, d) \/ Archive(w, d)

DocumentRequestStep(w) == RefuseFile(w) \/ CommitVersion(w) \/ CommitArchive(w)

DocumentsNext == \E w \in Workers : DocumentRequestArrives(w) \/ DocumentRequestStep(w)

DocumentsSpec == DocumentsInit /\ [][DocumentsNext]_documentVars
-----------------------------------------------------------------------------
(* Properties.                                                             *)

DocumentsTypeOK ==
    /\ document \in [Documents -> DocumentRow \cup {NoRow}]
    /\ versions \in [Documents -> Seq(Nat)]
    /\ req \in [Workers -> {Idle} \cup DocumentRequest]
    /\ stale \in BOOLEAN

\* The history of a document is complete: its versions are 1, 2, 3, ... in the
\* order they were uploaded, and the row shows the last one.  This holds
\* whatever overlaps, since here a unique key backs the version check.
VersionsAreInOrder ==
    \A d \in Documents :
        LET n == IF document[d] = NoRow THEN 0 ELSE document[d].current
        IN  versions[d] = [k \in 1 .. n |-> k]

\* Unless stale, an archived document gets no further version and is not taken
\* out of the archive, also when an upload was awaited meanwhile.
ArchivedIsFrozen ==
    [][\A d \in Documents :
          ~stale' /\ document[d] # NoRow /\ document[d].archived
          => document'[d] = document[d] /\ versions'[d] = versions[d]]_documentVars
=============================================================================
