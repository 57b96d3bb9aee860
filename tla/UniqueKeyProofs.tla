--------------------------- MODULE UniqueKeyProofs --------------------------
(***************************************************************************)
(* What the components promise that a unique key of the database backs:    *)
(* the numbers of engagements, the versions of documents and the           *)
(* identifiers of clients.  Where the other tables need "unless stale",    *)
(* these hold whatever overlaps, because an insert waits for the one that  *)
(* holds its key, or is refused.                                           *)
(***************************************************************************)
EXTENDS EngagementNumbers, DocumentStore, ClientMaster, TLAPS

-----------------------------------------------------------------------------
(* The numbers of the engagements of a year.                               *)

\* What a request that has read the series knows: it is the next number, and
\* still is when the request commits, because nobody else has the row.
NumberIsNext(r) ==
    /\ r.at = "insert" => r.number = 1
    /\ r.at = "commit" => r.number = IF series[r.year] = 0 THEN 1 ELSE series[r.year]

RowIsExclusive ==
    \A v, w \in Workers : \A y \in Years : InTransaction(v, y) /\ InTransaction(w, y) => v = w

NumbersInv ==
    /\ NumbersTypeOK
    /\ NumbersAreGapless
    /\ RowIsExclusive
    /\ \A w \in Workers : req[w].op = "CREATE_ENGAGEMENT" => NumberIsNext(req[w])

\* A request record is idle or a creation.
LEMMA CreationFields ==
    ASSUME NumbersTypeOK, NEW w \in Workers, req[w].op = "CREATE_ENGAGEMENT"
    PROVE  req[w] \in CreationRequest
    BY DEF NumbersTypeOK, CreationRequest, Idle

LEMMA NumbersInvInit == NumbersInit => NumbersInv
<1> SUFFICES ASSUME NumbersInit PROVE NumbersInv
    OBVIOUS
<1>0. <<>> \in Seq(Nat)
    OBVIOUS
<1>1. NumbersTypeOK
  <2>1. year \in Years
      BY NumbersAssumption DEF NumbersInit, Years
  <2>2. series \in [Years -> Nat] /\ issued \in [Years -> Seq(Nat)]
      BY <1>0 DEF NumbersInit
  <2>3. req \in [Workers -> {Idle} \cup CreationRequest] /\ stale \in BOOLEAN
      BY DEF NumbersInit
  <2>4. QED
      BY <2>1, <2>2, <2>3 DEF NumbersTypeOK
<1>2. NumbersAreGapless
    BY DEF NumbersInit, NumbersAreGapless
<1>3. \A w \in Workers : req[w].op # "CREATE_ENGAGEMENT"
    BY DEF NumbersInit, Idle
<1>4. QED
    BY <1>1, <1>2, <1>3 DEF NumbersInv, RowIsExclusive, InTransaction

\* A step that writes no table and leaves worker w with request r.
LEMMA NumbersRead ==
    ASSUME NumbersInv, NEW w \in Workers, NEW r \in {Idle} \cup CreationRequest,
           req' = [req EXCEPT ![w] = r], UNCHANGED <<series, issued, stale>>, year' \in Years,
           r # Idle => NumberIsNext(r),
           r # Idle /\ r.at = "commit" => ~RowHeld(r.year)
    PROVE  NumbersInv'
<1>1. NumbersTypeOK'
    BY DEF NumbersInv, NumbersTypeOK
<1>2. NumbersAreGapless'
    BY DEF NumbersInv, NumbersAreGapless
<1>3. \A v \in Workers : req'[v] = IF v = w THEN r ELSE req[v]
    BY DEF NumbersInv, NumbersTypeOK
<1>4. RowIsExclusive'
    BY <1>3 DEF NumbersInv, RowIsExclusive, InTransaction, RowHeld, Idle
<1>5. ASSUME NEW v \in Workers, req'[v].op = "CREATE_ENGAGEMENT"
      PROVE  NumberIsNext(req[v])'
    BY <1>3, <1>5 DEF NumbersInv, NumberIsNext, Idle
<1>6. QED
    BY <1>1, <1>2, <1>4, <1>5 DEF NumbersInv

\* The commit: every other request of the same year has read nothing, or is
\* about to insert the first row and will fail.
LEMMA NumbersCommit ==
    ASSUME NumbersInv, NEW w \in Workers, CommitCreation(w)
    PROVE  NumbersInv'
<1> DEFINE r == req[w]
           y == r.year
           n == r.number
<1>1. /\ r \in CreationRequest /\ r.op = "CREATE_ENGAGEMENT" /\ r.at = "commit"
      /\ y \in Years /\ n \in Nat
    BY CreationFields DEF NumbersInv, CommitCreation, CreationRequest
<1>2. /\ series' = [series EXCEPT ![y] = n + 1]
      /\ issued' = [issued EXCEPT ![y] = Append(issued[y], n)]
      /\ req' = [req EXCEPT ![w] = Idle]
      /\ year' = year /\ stale' = stale
    BY DEF CommitCreation, Finish
<1>3. /\ series \in [Years -> Nat] /\ issued \in [Years -> Seq(Nat)]
      /\ req \in [Workers -> {Idle} \cup CreationRequest]
      /\ year \in Years /\ stale \in BOOLEAN
    BY DEF NumbersInv, NumbersTypeOK
<1>4. n = Len(issued[y]) + 1
  <2>1. n = IF series[y] = 0 THEN 1 ELSE series[y]
      BY <1>1 DEF NumbersInv, NumberIsNext
  <2>2. series[y] = IF issued[y] = <<>> THEN 0 ELSE Len(issued[y]) + 1
      BY <1>1 DEF NumbersInv, NumbersAreGapless
  <2>3. Len(issued[y]) \in Nat /\ (issued[y] = <<>> => Len(issued[y]) = 0)
      BY <1>1, <1>3
  <2>4. QED
      BY <2>1, <2>2, <2>3
<1>5. NumbersTypeOK'
    BY <1>1, <1>2, <1>3 DEF NumbersTypeOK
<1>6. NumbersAreGapless'
  <2> SUFFICES ASSUME NEW z \in Years
               PROVE  /\ issued'[z] = [k \in 1 .. Len(issued'[z]) |-> k]
                      /\ series'[z] = IF issued'[z] = <<>> THEN 0 ELSE Len(issued'[z]) + 1
      BY DEF NumbersAreGapless
  <2>1. CASE z # y
      BY <2>1, <1>2, <1>3 DEF NumbersInv, NumbersAreGapless
  <2>2. CASE z = y
    <3> DEFINE s == issued[y]
    <3>1. s \in Seq(Nat) /\ s = [k \in 1 .. Len(s) |-> k]
        BY <1>1, <1>3 DEF NumbersInv, NumbersAreGapless
    <3>2. issued'[z] = Append(s, n) /\ series'[z] = n + 1
        BY <2>2, <1>1, <1>2, <1>3
    <3>3. Append(s, Len(s) + 1) = [k \in 1 .. Len(s) + 1 |-> k]
        BY <3>1
    <3>4. Append(s, n) # <<>> /\ Len(Append(s, n)) = Len(s) + 1
        BY <3>1, <1>1
    <3>5. QED
        BY <3>1, <3>2, <3>3, <3>4, <1>4
  <2>3. QED
      BY <2>1, <2>2
<1>7. \A v \in Workers : req'[v] = IF v = w THEN Idle ELSE req[v]
    BY <1>2, <1>3
<1>8. RowIsExclusive'
    BY <1>7 DEF NumbersInv, RowIsExclusive, InTransaction, Idle
<1>9. ASSUME NEW v \in Workers, req'[v].op = "CREATE_ENGAGEMENT"
      PROVE  NumberIsNext(req[v])'
  <2>1. v # w /\ req'[v] = req[v] /\ req[v].op = "CREATE_ENGAGEMENT"
      BY <1>7, <1>9 DEF Idle
  <2>2. req[v] \in CreationRequest /\ NumberIsNext(req[v])
      BY <2>1, CreationFields DEF NumbersInv
  <2>3. req[v].at = "commit" => req[v].year # y
      BY <2>1, <1>1 DEF NumbersInv, RowIsExclusive, InTransaction
  <2>4. req[v].at = "commit" => series'[req[v].year] = series[req[v].year]
      BY <2>2, <2>3, <1>2, <1>3 DEF CreationRequest
  <2>5. QED
      BY <2>1, <2>2, <2>4 DEF NumberIsNext
<1>10. QED
    BY <1>5, <1>6, <1>8, <1>9 DEF NumbersInv

LEMMA NumbersInvNext == NumbersInv /\ [NumbersNext]_numbersVars => NumbersInv'
<1> SUFFICES ASSUME NumbersInv, [NumbersNext]_numbersVars PROVE NumbersInv'
    OBVIOUS
<1>0. year \in Years /\ series \in [Years -> Nat] /\ req \in [Workers -> {Idle} \cup CreationRequest]
    BY DEF NumbersInv, NumbersTypeOK
<1>1. ASSUME NEW w \in Workers, StartCreation(w)
      PROVE  NumbersInv'
  <2> DEFINE r == [op |-> "CREATE_ENGAGEMENT", at |-> "series", year |-> year, number |-> 0]
  <2>1. r \in CreationRequest /\ NumberIsNext(r)
      BY <1>0 DEF CreationRequest, NumberIsNext
  <2>2. QED
      BY <1>0, <1>1, <2>1, NumbersRead DEF StartCreation, Begin
<1>2. ASSUME NEW w \in Workers, TakeNumber(w)
      PROVE  NumbersInv'
  <2> DEFINE r == req[w]
  <2>1. r \in CreationRequest
      BY <1>2, CreationFields DEF NumbersInv, TakeNumber
  <2>2. CASE series[r.year] = 0
    <3> DEFINE s == [r EXCEPT !.at = "insert", !.number = 1]
    <3>1. s \in CreationRequest /\ NumberIsNext(s) /\ s.at # "commit"
        BY <2>1 DEF CreationRequest, NumberIsNext
    <3>2. req' = [req EXCEPT ![w] = s] /\ UNCHANGED <<year, series, issued, stale>>
        BY <1>2, <2>2 DEF TakeNumber
    <3>3. QED
        BY <1>0, <3>1, <3>2, NumbersRead
  <2>3. CASE series[r.year] # 0
    <3> DEFINE s == [r EXCEPT !.at = "commit", !.number = series[r.year]]
    <3>1. r.year \in Years /\ series[r.year] \in Nat
        BY <1>0, <2>1 DEF CreationRequest
    <3>2. s \in CreationRequest /\ NumberIsNext(s) /\ s.year = r.year
        BY <2>1, <2>3, <3>1 DEF CreationRequest, NumberIsNext
    <3>3. /\ req' = [req EXCEPT ![w] = s] /\ UNCHANGED <<year, series, issued, stale>>
          /\ ~RowHeld(r.year)
        BY <1>2, <2>3 DEF TakeNumber
    <3>4. QED
        BY <1>0, <3>2, <3>3, NumbersRead
  <2>4. QED
      BY <2>2, <2>3
<1>3. ASSUME NEW w \in Workers, InsertSeries(w)
      PROVE  NumbersInv'
  <2> DEFINE r == req[w]
  <2>1. r \in CreationRequest /\ NumberIsNext(r) /\ r.at = "insert" /\ UNCHANGED <<year, series, issued, stale>>
      BY <1>3, CreationFields DEF NumbersInv, InsertSeries
  <2>2. CASE series[r.year] # 0
    <3>1. req' = [req EXCEPT ![w] = Idle]
        BY <1>3, <2>2 DEF InsertSeries, Finish
    <3>2. QED
        BY <1>0, <2>1, <3>1, NumbersRead
  <2>3. CASE series[r.year] = 0
    <3> DEFINE s == [r EXCEPT !.at = "commit"]
    <3>1. s \in CreationRequest /\ s.year = r.year /\ NumberIsNext(s)
        BY <2>1, <2>3 DEF CreationRequest, NumberIsNext
    <3>2. req' = [req EXCEPT ![w] = s] /\ ~RowHeld(r.year)
        BY <1>3, <2>3 DEF InsertSeries
    <3>3. QED
        BY <1>0, <2>1, <3>1, <3>2, NumbersRead
  <2>4. QED
      BY <2>2, <2>3
<1>4. ASSUME NEW w \in Workers, CommitCreation(w)
      PROVE  NumbersInv'
    BY <1>4, NumbersCommit
<1>5. ASSUME NEW w \in Workers, RollBack(w)
      PROVE  NumbersInv'
    BY <1>0, <1>5, NumbersRead DEF RollBack, Finish
<1>6. CASE NewYear
  <2>1. year' \in Years
      BY <1>0, <1>6, NumbersAssumption DEF NewYear, Years
  <2>2. NumbersTypeOK'
      BY <1>6, <2>1 DEF NumbersInv, NumbersTypeOK, NewYear
  <2>3. QED
      BY <1>6, <2>2 DEF NumbersInv, NewYear, NumbersAreGapless, RowIsExclusive, InTransaction, NumberIsNext
<1>7. CASE UNCHANGED numbersVars
    BY <1>7 DEF numbersVars, NumbersInv, NumbersTypeOK, NumbersAreGapless, RowIsExclusive,
                InTransaction, NumberIsNext
<1>8. QED
    BY <1>1, <1>2, <1>3, <1>4, <1>5, <1>6, <1>7 DEF NumbersNext, CreationStep

\* Engagements get the numbers 1, 2, 3, ... of their year: _next_engagement_code
\* with its select FOR UPDATE, and the primary key where there is no row yet.
THEOREM Gapless == NumbersSpec => []NumbersAreGapless
<1>1. NumbersInv => NumbersAreGapless
    BY DEF NumbersInv
<1>2. QED
    BY NumbersInvInit, NumbersInvNext, <1>1, PTL DEF NumbersSpec

\* Every year's row, the numbers issued and each transaction have their types.
THEOREM NumberTypesAreKept == NumbersSpec => []NumbersTypeOK
<1>1. NumbersInv => NumbersTypeOK
    BY DEF NumbersInv
<1>2. QED
    BY NumbersInvInit, NumbersInvNext, <1>1, PTL DEF NumbersSpec

-----------------------------------------------------------------------------
(* The versions of a document.                                             *)

\* A request rests on a row that was there and not archived, and no version is
\* ever removed: a row is at least as far as any copy of it.
CopyIsEarlier(r) ==
    r # Idle => /\ document[r.document] # NoRow
                /\ r.row.current <= document[r.document].current
                /\ ~r.row.archived

DocumentsInv ==
    /\ DocumentsTypeOK
    /\ VersionsAreInOrder
    /\ \A w \in Workers : CopyIsEarlier(req[w])

LEMMA DocumentFields ==
    /\ \A row \in DocumentRow : row # NoRow /\ row.current \in Nat /\ row.archived \in BOOLEAN
    /\ \A r \in {Idle} \cup DocumentRequest :
          /\ r.op \in {"UPLOAD_VERSION", "ARCHIVE"} => r # Idle
          /\ r # Idle => r.document \in Documents /\ r.row \in DocumentRow /\ r.row.current \in Nat
<1>1. \A row \in DocumentRow : row # NoRow /\ row.current \in Nat /\ row.archived \in BOOLEAN
    BY DEF DocumentRow, NoRow
<1>2. QED
    BY <1>1 DEF DocumentRequest, VersionRequest, ArchiveRequest, Idle

LEMMA DocumentsInvInit == DocumentsInit => DocumentsInv
<1> SUFFICES ASSUME DocumentsInit PROVE DocumentsInv
    OBVIOUS
<1>0. <<>> \in Seq(Nat)
    OBVIOUS
<1>1. DocumentsTypeOK
  <2>1. document \in [Documents -> DocumentRow \cup {NoRow}] /\ versions \in [Documents -> Seq(Nat)]
      BY <1>0 DEF DocumentsInit
  <2>2. req \in [Workers -> {Idle} \cup DocumentRequest] /\ stale \in BOOLEAN
      BY DEF DocumentsInit
  <2>3. QED
      BY <2>1, <2>2 DEF DocumentsTypeOK
<1>2. VersionsAreInOrder
    BY DEF DocumentsInit, VersionsAreInOrder
<1>3. \A w \in Workers : CopyIsEarlier(req[w])
    BY DEF DocumentsInit, CopyIsEarlier
<1>4. QED
    BY <1>1, <1>2, <1>3 DEF DocumentsInv

\* A step that writes no table and leaves worker w with request r.
LEMMA DocumentsRead ==
    ASSUME DocumentsInv, NEW w \in Workers, NEW r \in {Idle} \cup DocumentRequest,
           req' = [req EXCEPT ![w] = r], UNCHANGED <<document, versions, stale>>,
           CopyIsEarlier(r)
    PROVE  DocumentsInv'
<1>1. DocumentsTypeOK' /\ VersionsAreInOrder'
    BY DEF DocumentsInv, DocumentsTypeOK, VersionsAreInOrder
<1>2. \A v \in Workers : req'[v] = IF v = w THEN r ELSE req[v]
    BY DEF DocumentsInv, DocumentsTypeOK
<1>3. \A v \in Workers : CopyIsEarlier(req[v])'
    BY <1>2 DEF DocumentsInv, CopyIsEarlier
<1>4. QED
    BY <1>1, <1>3 DEF DocumentsInv

\* A step that commits document d, which is there afterwards and not behind.
LEMMA DocumentsCommit ==
    ASSUME DocumentsInv, NEW w \in Workers, NEW d \in Documents, NEW row \in DocumentRow,
           NEW vs \in Seq(Nat), vs = [k \in 1 .. row.current |-> k],
           document' = [document EXCEPT ![d] = row],
           versions' = [versions EXCEPT ![d] = vs],
           document[d] # NoRow => document[d].current <= row.current,
           req' = req \/ req' = [req EXCEPT ![w] = Idle], stale' \in BOOLEAN
    PROVE  DocumentsInv'
<1>0. /\ document \in [Documents -> DocumentRow \cup {NoRow}]
      /\ versions \in [Documents -> Seq(Nat)]
      /\ req \in [Workers -> {Idle} \cup DocumentRequest]
    BY DEF DocumentsInv, DocumentsTypeOK
<1>1. DocumentsTypeOK'
    BY <1>0 DEF DocumentsTypeOK
<1>2. VersionsAreInOrder'
  <2>1. ASSUME NEW e \in Documents, e # d
        PROVE  document'[e] = document[e] /\ versions'[e] = versions[e]
      BY <1>0, <2>1
  <2>2. document'[d] = row /\ versions'[d] = vs /\ row # NoRow
      BY <1>0, DocumentFields
  <2>3. QED
      BY <2>1, <2>2 DEF DocumentsInv, VersionsAreInOrder
<1>3. ASSUME NEW v \in Workers
      PROVE  CopyIsEarlier(req[v])'
  <2>1. CASE req'[v] = Idle
      BY <2>1 DEF CopyIsEarlier
  <2>2. CASE req'[v] # Idle
    <3>1. req'[v] = req[v] /\ req[v] # Idle
        BY <1>0, <2>2
    <3> DEFINE e == req[v].document
    <3>2. /\ e \in Documents /\ req[v].row.current \in Nat
          /\ document[e] # NoRow /\ req[v].row.current <= document[e].current
          /\ ~req[v].row.archived
        BY <1>0, <3>1, DocumentFields DEF DocumentsInv, CopyIsEarlier
    <3>3. document[e] \in DocumentRow /\ document[e].current \in Nat /\ row.current \in Nat /\ row # NoRow
        BY <1>0, <3>2, DocumentFields
    <3>4. document'[e] = IF e = d THEN row ELSE document[e]
        BY <1>0, <3>2
    <3>5. document'[e] # NoRow /\ req[v].row.current <= document'[e].current
        BY <3>2, <3>3, <3>4
    <3>6. QED
        BY <3>1, <3>2, <3>5 DEF CopyIsEarlier
  <2>3. QED
      BY <2>1, <2>2
<1>4. QED
    BY <1>1, <1>2, <1>3 DEF DocumentsInv

LEMMA DocumentsInvNext == DocumentsInv /\ [DocumentsNext]_documentVars => DocumentsInv'
<1> SUFFICES ASSUME DocumentsInv, [DocumentsNext]_documentVars PROVE DocumentsInv'
    OBVIOUS
<1>0. /\ document \in [Documents -> DocumentRow \cup {NoRow}]
      /\ versions \in [Documents -> Seq(Nat)]
      /\ req \in [Workers -> {Idle} \cup DocumentRequest] /\ stale \in BOOLEAN
    BY DEF DocumentsInv, DocumentsTypeOK
<1>1. ASSUME NEW w \in Workers, NEW d \in Documents, UploadDocument(w, d)
      PROVE  DocumentsInv'
  <2> DEFINE row == [current |-> 1, archived |-> FALSE]
  <2>1. row \in DocumentRow /\ <<1>> \in Seq(Nat) /\ <<1>> = [k \in 1 .. row.current |-> k]
      BY DEF DocumentRow
  <2>2. QED
      BY <1>0, <1>1, <2>1, DocumentsCommit DEF UploadDocument
<1>2. ASSUME NEW w \in Workers, NEW d \in Documents, UploadVersion(w, d)
      PROVE  DocumentsInv'
  <2> DEFINE r == [op |-> "UPLOAD_VERSION", document |-> d, row |-> document[d]]
  <2>1. /\ document[d] \in DocumentRow /\ document[d] # NoRow /\ document[d].current \in Nat
        /\ ~document[d].archived
      BY <1>0, <1>2, DocumentFields DEF UploadVersion, Accessible
  <2>2. r \in DocumentRequest /\ CopyIsEarlier(r)
      BY <2>1 DEF DocumentRequest, VersionRequest, CopyIsEarlier
  <2>3. QED
      BY <1>2, <2>2, DocumentsRead DEF UploadVersion, Begin
<1>3. ASSUME NEW w \in Workers, NEW d \in Documents, Archive(w, d)
      PROVE  DocumentsInv'
  <2> DEFINE r == [op |-> "ARCHIVE", document |-> d, row |-> document[d]]
  <2>1. /\ document[d] \in DocumentRow /\ document[d] # NoRow /\ document[d].current \in Nat
        /\ ~document[d].archived
      BY <1>0, <1>3, DocumentFields DEF Archive, Accessible
  <2>2. r \in DocumentRequest /\ CopyIsEarlier(r)
      BY <2>1 DEF DocumentRequest, ArchiveRequest, CopyIsEarlier
  <2>3. QED
      BY <1>3, <2>2, DocumentsRead DEF Archive, Begin
<1>4. ASSUME NEW w \in Workers, RefuseFile(w)
      PROVE  DocumentsInv'
    BY <1>4, DocumentsRead DEF RefuseFile, Finish, CopyIsEarlier
<1>5. ASSUME NEW w \in Workers, CommitVersion(w)
      PROVE  DocumentsInv'
  <2> DEFINE r == req[w]
             d == r.document
             next == r.row.current + 1
             n == document[d].current
  <2>1. /\ r # Idle /\ d \in Documents /\ r.row.current \in Nat /\ document[d] # NoRow
        /\ r.row.current <= n
      BY <1>0, <1>5, DocumentFields DEF CommitVersion, DocumentsInv, CopyIsEarlier
  <2>2. document[d] \in DocumentRow /\ n \in Nat /\ document[d].archived \in BOOLEAN
      BY <1>0, <2>1, DocumentFields
  <2>3. versions[d] = [k \in 1 .. n |-> k]
      BY <2>1 DEF DocumentsInv, VersionsAreInOrder
  <2>4. CASE UNCHANGED <<document, versions, stale>>
      BY <1>5, <2>4, DocumentsRead DEF CommitVersion, Finish, CopyIsEarlier
  <2>5. CASE /\ \A k \in DOMAIN versions[d] : versions[d][k] # next
             /\ versions' = [versions EXCEPT ![d] = Append(@, next)]
             /\ document' = [document EXCEPT ![d].current = next]
             /\ stale' = (stale \/ document[d] # r.row)
    <3> DEFINE row == [document[d] EXCEPT !.current = next]
               vs == Append(versions[d], next)
    <3>1. next = n + 1
      <4>1. \A k \in 1 .. n : k # next
          BY <2>3, <2>5
      <4>2. next \in Nat /\ next >= 1
          BY <2>1
      <4>3. QED
          BY <2>1, <2>2, <4>1, <4>2
    <3>2. row \in DocumentRow /\ row.current = next
        BY <2>1, <2>2 DEF DocumentRow
    <3>3. vs \in Seq(Nat) /\ vs = [k \in 1 .. row.current |-> k]
      <4>1. versions[d] \in Seq(Nat) /\ Len(versions[d]) = n
          BY <1>0, <2>1, <2>2, <2>3
      <4>2. QED
          BY <4>1, <3>1, <3>2, <2>2, <2>3
    <3>4. document' = [document EXCEPT ![d] = row] /\ versions' = [versions EXCEPT ![d] = vs]
        BY <2>5
    <3>5. n <= row.current /\ req' = [req EXCEPT ![w] = Idle]
        BY <1>5, <3>1, <3>2, <2>2 DEF CommitVersion, Finish
    <3>6. stale' \in BOOLEAN
        BY <1>0, <2>5
    <3>7. QED
        BY <2>1, <3>2, <3>3, <3>4, <3>5, <3>6, DocumentsCommit
  <2>6. QED
      BY <1>5, <2>4, <2>5 DEF CommitVersion
<1>6. ASSUME NEW w \in Workers, CommitArchive(w)
      PROVE  DocumentsInv'
  <2> DEFINE r == req[w]
             d == r.document
             row == [document[d] EXCEPT !.archived = TRUE]
  <2>1. r # Idle /\ d \in Documents /\ document[d] # NoRow
      BY <1>0, <1>6, DocumentFields DEF CommitArchive, DocumentsInv, CopyIsEarlier
  <2>2. document[d] \in DocumentRow /\ document[d].current \in Nat
      BY <1>0, <2>1, DocumentFields
  <2>3. row \in DocumentRow /\ row.current = document[d].current
      BY <2>2 DEF DocumentRow
  <2>4. versions[d] \in Seq(Nat) /\ versions[d] = [k \in 1 .. row.current |-> k]
      BY <1>0, <2>1, <2>3 DEF DocumentsInv, VersionsAreInOrder
  <2>5. /\ document' = [document EXCEPT ![d] = row]
        /\ versions' = [versions EXCEPT ![d] = versions[d]]
        /\ req' = [req EXCEPT ![w] = Idle] /\ stale' \in BOOLEAN
      BY <1>0, <1>6 DEF CommitArchive, Finish
  <2>6. document[d].current <= row.current
      BY <2>2, <2>3
  <2>7. QED
      BY <2>1, <2>3, <2>4, <2>5, <2>6, DocumentsCommit
<1>7. CASE UNCHANGED documentVars
    BY <1>7 DEF documentVars, DocumentsInv, DocumentsTypeOK, VersionsAreInOrder, CopyIsEarlier
<1>8. QED
    BY <1>1, <1>2, <1>3, <1>4, <1>5, <1>6, <1>7
    DEF DocumentsNext, DocumentRequestArrives, DocumentRequestStep

\* The version history of every document is complete and in order: what
\* upload_new_version promises, by uq_document_version_number.
THEOREM HistoryIsComplete == DocumentsSpec => []VersionsAreInOrder
<1>1. DocumentsInv => VersionsAreInOrder
    BY DEF DocumentsInv
<1>2. QED
    BY DocumentsInvInit, DocumentsInvNext, <1>1, PTL DEF DocumentsSpec

\* A commit over an archived document rests on an older copy of its row.
LEMMA ArchivedStep ==
    ASSUME DocumentsInv, DocumentsNext, NEW d \in Documents, ~stale',
           document[d] # NoRow, document[d].archived
    PROVE  document'[d] = document[d] /\ versions'[d] = versions[d]
<1>0. /\ document \in [Documents -> DocumentRow \cup {NoRow}]
      /\ versions \in [Documents -> Seq(Nat)]
      /\ req \in [Workers -> {Idle} \cup DocumentRequest]
    BY DEF DocumentsInv, DocumentsTypeOK
<1>1. ASSUME NEW w \in Workers, NEW e \in Documents, UploadDocument(w, e)
      PROVE  e # d
    BY <1>1 DEF UploadDocument
<1>2. ASSUME NEW w \in Workers, CommitVersion(w) \/ CommitArchive(w),
             document[req[w].document] = req[w].row
      PROVE  req[w].document # d
  <2>1. ~req[w].row.archived
      BY <1>0, <1>2, DocumentFields DEF CommitVersion, CommitArchive, DocumentsInv, CopyIsEarlier
  <2>2. QED
      BY <1>2, <2>1
<1>3. ASSUME NEW w \in Workers, CommitVersion(w)
      PROVE  document'[d] = document[d] /\ versions'[d] = versions[d]
    BY <1>0, <1>2, <1>3 DEF CommitVersion
<1>4. ASSUME NEW w \in Workers, CommitArchive(w)
      PROVE  document'[d] = document[d] /\ versions'[d] = versions[d]
    BY <1>0, <1>2, <1>4 DEF CommitArchive
<1>5. QED
    BY <1>0, <1>1, <1>3, <1>4
    DEF DocumentsNext, DocumentRequestArrives, DocumentRequestStep, UploadDocument, UploadVersion,
        Archive, RefuseFile

\* Unless a commit was stale, what is archived stays as it is: the check of
\* _accessible_document together with the version checks.
THEOREM ArchiveIsFrozen == DocumentsSpec => ArchivedIsFrozen
<1>1. DocumentsInv /\ [DocumentsNext]_documentVars
      => [\A d \in Documents :
              ~stale' /\ document[d] # NoRow /\ document[d].archived
              => document'[d] = document[d] /\ versions'[d] = versions[d]]_documentVars
    BY ArchivedStep
<1>2. QED
    BY DocumentsInvInit, DocumentsInvNext, <1>1, PTL DEF DocumentsSpec, ArchivedIsFrozen

\* Every document, version and request has its type.
THEOREM DocumentTypesAreKept == DocumentsSpec => []DocumentsTypeOK
<1>1. DocumentsInv => DocumentsTypeOK
    BY DEF DocumentsInv
<1>2. QED
    BY DocumentsInvInit, DocumentsInvNext, <1>1, PTL DEF DocumentsSpec

-----------------------------------------------------------------------------
(* The identifiers of clients.                                             *)

\* The identifiers a creation has inserted and not committed.
Held(r) == IF r.op = "CREATE_CLIENT" THEN {r.identifiers[n] : n \in 1 .. r.inserted} ELSE {}

\* A creation has an id without a client, and none it holds has the key of a
\* committed identifier or the type of another it holds.
CreationIsApart(r) ==
    r.op = "CREATE_CLIENT" =>
        /\ client[r.client] = NoRow
        /\ r.inserted <= Len(r.identifiers)
        /\ \A x, y \in Held(r) : x.type = y.type => x = y
        /\ \A x \in Held(r), c \in Clients : \A y \in identifiers[c] : Key(x) # Key(y)

\* Two creations have different ids and hold different keys.
Apart(r, s) ==
    /\ r.op = "CREATE_CLIENT" /\ s.op = "CREATE_CLIENT" => r.client # s.client
    /\ \A x \in Held(r), y \in Held(s) : Key(x) # Key(y)

\* An update or an archive found a row that was not archived.
RowWasOpen(r) ==
    r.op \in {"UPDATE_CLIENT", "ARCHIVE_CLIENT"} => client[r.client] # NoRow /\ ~r.row.archived

ClientsInv ==
    /\ ClientsTypeOK
    /\ IdentifiersAreUnique
    /\ \A c \in Clients : client[c] # NoRow /\ client[c].archived => client[c].status = "ARCHIVED"
    /\ \A w \in Workers : CreationIsApart(req[w]) /\ RowWasOpen(req[w])
    /\ \A v, w \in Workers : v # w => Apart(req[v], req[w])

LEMMA ClientFields ==
    /\ \A row \in ClientRow :
          /\ row # NoRow /\ row.status \in ClientStatus /\ row.archived \in BOOLEAN
          /\ row.details \in Details /\ row.version \in Nat
    /\ \A r \in {Idle} \cup ClientRequest :
          /\ r.op = "CREATE_CLIENT" =>
                /\ r \in CreateRequest /\ r.client \in Clients /\ r.details \in Details
                /\ r.identifiers \in Seq(Identifier) /\ r.inserted \in Nat
          /\ r.op = "UPDATE_CLIENT" =>
                r.client \in Clients /\ r.row \in ClientRow /\ r.details \in Details
          /\ r.op = "ARCHIVE_CLIENT" => r.client \in Clients /\ r.row \in ClientRow
<1>1. \A row \in ClientRow :
          /\ row # NoRow /\ row.status \in ClientStatus /\ row.archived \in BOOLEAN
          /\ row.details \in Details /\ row.version \in Nat
    BY DEF ClientRow, NoRow
<1>2. QED
    BY <1>1, ClientsAssumption
    DEF ClientRequest, CreateRequest, UpdateRequest, ClientArchiveRequest, Idle

LEMMA ApartBothWays ==
    ASSUME NEW r, NEW s, Apart(r, s)
    PROVE  Apart(s, r)
<1>1. r.op = "CREATE_CLIENT" /\ s.op = "CREATE_CLIENT" => s.client # r.client
    BY DEF Apart
<1>2. \A x \in Held(s), y \in Held(r) : Key(x) # Key(y)
    BY DEF Apart
<1>3. QED
    BY <1>1, <1>2 DEF Apart

LEMMA StatusesOfClients == {"PROSPECT", "ARCHIVED"} \subseteq ClientStatus
    BY DEF ClientStatus, MayFollow

LEMMA ClientsInvInit == ClientsInit => ClientsInv
<1> SUFFICES ASSUME ClientsInit PROVE ClientsInv
    OBVIOUS
<1>1. statuses \in [Clients -> Seq(ClientStatus)]
    BY DEF ClientsInit
<1>2. ClientsTypeOK
    BY <1>1 DEF ClientsInit, ClientsTypeOK
<1>3. IdentifiersAreUnique
    BY DEF ClientsInit, IdentifiersAreUnique
<1>4. \A w \in Workers : req[w].op = "IDLE"
    BY DEF ClientsInit, Idle
<1>5. QED
    BY <1>2, <1>3, <1>4 DEF ClientsInit, ClientsInv, CreationIsApart, RowWasOpen, Apart, Held

\* A step that writes no table and leaves worker w with request r, which holds
\* nothing that it did not hold before, and no id that another creation has.
LEMMA ClientsRead ==
    ASSUME ClientsInv, NEW w \in Workers, NEW r \in {Idle} \cup ClientRequest,
           req' = [req EXCEPT ![w] = r], UNCHANGED clientTables,
           CreationIsApart(r), RowWasOpen(r),
           \A v \in Workers : v # w => Apart(r, req[v])
    PROVE  ClientsInv'
<1>0. UNCHANGED <<client, identifiers, statuses, stale>>
    BY DEF clientTables
<1>1. ClientsTypeOK'
    BY <1>0 DEF ClientsInv, ClientsTypeOK
<1>2. IdentifiersAreUnique'
    BY <1>0 DEF ClientsInv, IdentifiersAreUnique
<1>3. \A v \in Workers : req'[v] = IF v = w THEN r ELSE req[v]
    BY DEF ClientsInv, ClientsTypeOK
<1>4. \A v \in Workers : CreationIsApart(req[v])' /\ RowWasOpen(req[v])'
    BY <1>0, <1>3 DEF ClientsInv, CreationIsApart, RowWasOpen, Held
<1>5. \A u, v \in Workers : u # v => Apart(req[u], req[v])'
  <2> SUFFICES ASSUME NEW u \in Workers, NEW v \in Workers, u # v
               PROVE  Apart(req'[u], req'[v])
      BY DEF Apart, Held
  <2>1. CASE u = w
      BY <1>3, <2>1
  <2>2. CASE v = w
    <3>1. Apart(r, req[u]) /\ req'[u] = req[u] /\ req'[v] = r
        BY <1>3, <2>2
    <3>2. Apart(req[u], r)
        BY <3>1, ApartBothWays
    <3>3. QED
        BY <3>1, <3>2
  <2>3. CASE u # w /\ v # w
      BY <1>3, <2>3 DEF ClientsInv
  <2>4. QED
      BY <2>1, <2>2, <2>3
<1>6. QED
    BY <1>0, <1>1, <1>2, <1>4, <1>5 DEF ClientsInv

\* A step that writes the row of a client that is there, and nobody's
\* identifiers.
LEMMA ClientsCommit ==
    ASSUME ClientsInv, NEW w \in Workers, NEW c \in Clients, client[c] # NoRow,
           NEW row \in ClientRow, row.archived => row.status = "ARCHIVED",
           client' = [client EXCEPT ![c] = row], identifiers' = identifiers,
           statuses' \in [Clients -> Seq(ClientStatus)], stale' \in BOOLEAN,
           req' = [req EXCEPT ![w] = Idle]
    PROVE  ClientsInv'
<1>0. /\ client \in [Clients -> ClientRow \cup {NoRow}]
      /\ req \in [Workers -> {Idle} \cup ClientRequest]
    BY DEF ClientsInv, ClientsTypeOK
<1>1. ClientsTypeOK'
    BY <1>0 DEF ClientsInv, ClientsTypeOK
<1>2. /\ \A d \in Clients : client'[d] = IF d = c THEN row ELSE client[d]
      /\ \A v \in Workers : req'[v] = IF v = w THEN Idle ELSE req[v]
      /\ row # NoRow /\ Idle.op = "IDLE"
    BY <1>0, ClientFields DEF Idle
<1>3. IdentifiersAreUnique'
  <2>1. \A d \in Clients : client'[d] = NoRow => identifiers'[d] = {}
      BY <1>2 DEF ClientsInv, IdentifiersAreUnique
  <2>2. QED
      BY <2>1 DEF ClientsInv, IdentifiersAreUnique
<1>4. \A v \in Workers : CreationIsApart(req[v])' /\ RowWasOpen(req[v])'
  <2> SUFFICES ASSUME NEW v \in Workers PROVE CreationIsApart(req[v])' /\ RowWasOpen(req[v])'
      OBVIOUS
  <2>1. CASE req'[v].op = "IDLE"
      BY <2>1 DEF CreationIsApart, RowWasOpen
  <2>2. CASE req'[v].op # "IDLE"
    <3>1. req'[v] = req[v] /\ CreationIsApart(req[v]) /\ RowWasOpen(req[v])
        BY <1>2, <2>2 DEF ClientsInv
    <3>2. req[v].op \in {"CREATE_CLIENT", "UPDATE_CLIENT", "ARCHIVE_CLIENT"} => req[v].client \in Clients
        BY <1>0, ClientFields
    <3>3. CreationIsApart(req[v])'
      <4>1. PICK r : r = req[v]
          OBVIOUS
      <4>2. r.op = "CREATE_CLIENT" => client'[r.client] = NoRow
          BY <1>2, <3>1, <3>2, <4>1 DEF CreationIsApart
      <4>3. CreationIsApart(r)'
          BY <3>1, <4>1, <4>2 DEF CreationIsApart
      <4>4. QED
          BY <3>1, <4>1, <4>3 DEF CreationIsApart
    <3>4. RowWasOpen(req[v])'
        BY <1>2, <3>1, <3>2 DEF RowWasOpen
    <3>5. QED
        BY <3>3, <3>4
  <2>3. QED
      BY <2>1, <2>2
<1>5. \A u, v \in Workers : u # v => Apart(req[u], req[v])'
    BY <1>2 DEF ClientsInv, Apart, Held
<1>6. \A d \in Clients : client'[d] # NoRow /\ client'[d].archived => client'[d].status = "ARCHIVED"
    BY <1>2 DEF ClientsInv
<1>7. QED
    BY <1>1, <1>3, <1>4, <1>5, <1>6 DEF ClientsInv


LEMMA IdleIsApart ==
    /\ CreationIsApart(Idle) /\ RowWasOpen(Idle)
    /\ \A r : Apart(Idle, r)
    BY DEF CreationIsApart, RowWasOpen, Apart, Held, Idle

\* One more identifier is held, after the index has been asked.
LEMMA InsertStep ==
    ASSUME ClientsInv, NEW w \in Workers, Inserting(w), ~Collides(w),
           \A v \in Workers : ~WaitsFor(w, v),
           NEW r, r = [req[w] EXCEPT !.inserted = @ + 1]
    PROVE  /\ r \in ClientRequest /\ CreationIsApart(r) /\ RowWasOpen(r)
           /\ \A v \in Workers : v # w => Apart(r, req[v])
<1> DEFINE q == req[w]
           k == q.inserted + 1
           x == q.identifiers[k]
<1>1. /\ q \in CreateRequest /\ q.op = "CREATE_CLIENT" /\ q.identifiers \in Seq(Identifier)
      /\ q.inserted \in Nat /\ q.inserted < Len(q.identifiers) /\ CreationIsApart(q)
    BY ClientFields DEF ClientsInv, ClientsTypeOK, Inserting
<1>2. k \in Nat /\ 1 <= k /\ k <= Len(q.identifiers) /\ x \in Identifier
    BY <1>1
<1>3. /\ r \in CreateRequest /\ r.op = "CREATE_CLIENT" /\ r.client = q.client
      /\ r.identifiers = q.identifiers /\ r.inserted = k
    BY <1>1, <1>2 DEF CreateRequest
<1>4. Held(r) = Held(q) \cup {x}
  <2>1. 1 .. k = (1 .. q.inserted) \cup {k}
      BY <1>1, <1>2
  <2>2. Held(r) = {q.identifiers[n] : n \in 1 .. k} /\ Held(q) = {q.identifiers[n] : n \in 1 .. q.inserted}
      BY <1>1, <1>3 DEF Held
  <2> HIDE DEF k
  <2>3. QED
      BY <2>1, <2>2
<1>5. \A y \in Held(q) : y.type # x.type
    BY <1>1 DEF Collides, NextIdentifier, Held
<1>6. \A c \in Clients : \A y \in identifiers[c] : Key(x) # Key(y)
    BY DEF Collides, NextIdentifier
<1>7. \A v \in Workers : v # w => \A y \in Held(req[v]) : Key(x) # Key(y)
    BY DEF WaitsFor, HoldsKey, NextIdentifier, Held
<1> HIDE DEF x, k
<1>8. CreationIsApart(r)
  <2>1. client[r.client] = NoRow /\ r.inserted <= Len(r.identifiers)
      BY <1>1, <1>2, <1>3 DEF CreationIsApart
  <2>2. \A y, z \in Held(r) : y.type = z.type => y = z
      BY <1>1, <1>4, <1>5 DEF CreationIsApart
  <2>3. \A y \in Held(r), c \in Clients : \A z \in identifiers[c] : Key(y) # Key(z)
      BY <1>1, <1>4, <1>6 DEF CreationIsApart
  <2>4. QED
      BY <2>1, <2>2, <2>3 DEF CreationIsApart
<1>9. ASSUME NEW v \in Workers, v # w PROVE Apart(r, req[v])
  <2>1. Apart(q, req[v])
      BY <1>9 DEF ClientsInv
  <2>2. r.op = "CREATE_CLIENT" /\ req[v].op = "CREATE_CLIENT" => r.client # req[v].client
      BY <1>1, <1>3, <2>1 DEF Apart
  <2>3. \A y \in Held(r), z \in Held(req[v]) : Key(y) # Key(z)
      BY <1>4, <1>7, <1>9, <2>1 DEF Apart
  <2>4. QED
      BY <2>2, <2>3 DEF Apart
<1>10. r \in ClientRequest /\ RowWasOpen(r)
    BY <1>3 DEF ClientRequest, RowWasOpen
<1>11. QED
    BY <1>8, <1>9, <1>10

\* A creation commits: what it held is committed, and nobody else held any of
\* it or has its id.
LEMMA CreationCommits ==
    ASSUME ClientsInv, NEW w \in Workers, CommitClient(w)
    PROVE  ClientsInv'
<1> DEFINE r == req[w]
           c == r.client
           row == [status |-> "PROSPECT", archived |-> FALSE, details |-> r.details, version |-> 1]
<1>0. /\ client \in [Clients -> ClientRow \cup {NoRow}]
      /\ identifiers \in [Clients -> SUBSET Identifier]
      /\ statuses \in [Clients -> Seq(ClientStatus)]
      /\ req \in [Workers -> {Idle} \cup ClientRequest] /\ stale \in BOOLEAN
    BY DEF ClientsInv, ClientsTypeOK
<1>1. /\ r.op = "CREATE_CLIENT" /\ c \in Clients /\ r.details \in Details
      /\ r.identifiers \in Seq(Identifier) /\ r.inserted = Len(r.identifiers)
      /\ CreationIsApart(r)
    BY <1>0, ClientFields DEF CommitClient, ClientsInv
<1>2. row \in ClientRow /\ ~row.archived /\ row # NoRow
    BY <1>1, StatusesOfClients, ClientFields DEF ClientRow
<1>3. Held(r) = {r.identifiers[n] : n \in 1 .. r.inserted}
    BY <1>1 DEF Held
<1>4. Held(r) \in SUBSET Identifier
    BY <1>1, <1>3
<1>5. /\ client' = [client EXCEPT ![c] = row] /\ identifiers' = [identifiers EXCEPT ![c] = Held(r)]
      /\ statuses' = [statuses EXCEPT ![c] = <<"PROSPECT">>] /\ stale' = stale
      /\ req' = [req EXCEPT ![w] = Idle]
    BY <1>3 DEF CommitClient, Finish
<1> HIDE DEF row
<1>6. /\ \A d \in Clients : /\ client'[d] = IF d = c THEN row ELSE client[d]
                            /\ identifiers'[d] = IF d = c THEN Held(r) ELSE identifiers[d]
      /\ \A v \in Workers : req'[v] = IF v = w THEN Idle ELSE req[v]
    BY <1>0, <1>1, <1>5
<1>7. ClientsTypeOK'
  <2>1. <<"PROSPECT">> \in Seq(ClientStatus)
      BY StatusesOfClients
  <2>2. QED
      BY <1>0, <1>1, <1>2, <1>4, <1>5, <2>1 DEF ClientsTypeOK
<1>8. IdentifiersAreUnique'
  <2>1. \A d \in Clients : client'[d] = NoRow => identifiers'[d] = {}
      BY <1>2, <1>6 DEF ClientsInv, IdentifiersAreUnique
  <2>2. ASSUME NEW d \in Clients, NEW e \in Clients, NEW x \in identifiers'[d], NEW y \in identifiers'[e],
               x.type = y.type, d = e \/ Normalized(x.value) = Normalized(y.value)
        PROVE  d = e /\ x = y
    <3>1. CASE d = c /\ e = c
        BY <1>1, <1>6, <2>2, <3>1 DEF CreationIsApart
    <3>2. CASE d = c /\ e # c
      <4>1. x \in Held(r) /\ y \in identifiers[e]
          BY <1>6, <3>2
      <4>2. Key(x) # Key(y)
          BY <1>1, <4>1 DEF CreationIsApart
      <4>3. QED
          BY <2>2, <3>2, <4>2 DEF Key
    <3>3. CASE d # c /\ e = c
      <4>1. y \in Held(r) /\ x \in identifiers[d]
          BY <1>6, <3>3
      <4>2. Key(y) # Key(x)
          BY <1>1, <4>1 DEF CreationIsApart
      <4>3. QED
          BY <2>2, <3>3, <4>2 DEF Key
    <3>4. CASE d # c /\ e # c
        BY <1>6, <2>2, <3>4 DEF ClientsInv, IdentifiersAreUnique
    <3>5. QED
        BY <3>1, <3>2, <3>3, <3>4
  <2>3. QED
      BY <2>1, <2>2 DEF IdentifiersAreUnique
<1>9. ASSUME NEW v \in Workers PROVE CreationIsApart(req[v])' /\ RowWasOpen(req[v])'
  <2>1. CASE v = w
      BY <1>6, <2>1 DEF CreationIsApart, RowWasOpen, Idle
  <2>2. CASE v # w
    <3>1. PICK s : s = req[v]
        OBVIOUS
    <3>2. req'[v] = s /\ CreationIsApart(s) /\ RowWasOpen(s) /\ Apart(r, s)
        BY <1>6, <2>2, <3>1 DEF ClientsInv
    <3>3. /\ s.op \in {"CREATE_CLIENT", "UPDATE_CLIENT", "ARCHIVE_CLIENT"} => s.client \in Clients
          /\ s.op = "CREATE_CLIENT" => s.client # c
        BY <1>0, <1>1, <3>1, <3>2, ClientFields DEF Apart
    <3>4. ASSUME s.op = "CREATE_CLIENT"
          PROVE  \A x \in Held(s), d \in Clients : \A y \in identifiers'[d] : Key(x) # Key(y)
      <4>1. ASSUME NEW x \in Held(s), NEW d \in Clients, NEW y \in identifiers'[d] PROVE Key(x) # Key(y)
        <5>1. CASE d = c
            BY <1>6, <3>2, <4>1, <5>1 DEF Apart
        <5>2. CASE d # c
            BY <1>6, <3>2, <3>4, <4>1, <5>2 DEF CreationIsApart
        <5>3. QED
            BY <5>1, <5>2
      <4>2. QED
          BY <4>1
    <3>5. CreationIsApart(s)'
        BY <1>6, <3>2, <3>3, <3>4 DEF CreationIsApart
    <3>6. RowWasOpen(s)'
        BY <1>2, <1>6, <3>2, <3>3 DEF RowWasOpen
    <3>7. QED
        BY <3>2, <3>5, <3>6 DEF CreationIsApart, RowWasOpen
  <2>3. QED
      BY <2>1, <2>2
<1>10. \A u, v \in Workers : u # v => Apart(req[u], req[v])'
  <2> SUFFICES ASSUME NEW u \in Workers, NEW v \in Workers, u # v
               PROVE  Apart(req'[u], req'[v])
      BY DEF Apart, Held
  <2>1. QED
      BY <1>6, IdleIsApart, ApartBothWays DEF ClientsInv
<1>11. \A d \in Clients : client'[d] # NoRow /\ client'[d].archived => client'[d].status = "ARCHIVED"
    BY <1>2, <1>6 DEF ClientsInv
<1>12. QED
    BY <1>7, <1>8, <1>9, <1>10, <1>11 DEF ClientsInv


LEMMA ClientsInvNext == ClientsInv /\ [ClientsNext]_clientVars => ClientsInv'
<1> SUFFICES ASSUME ClientsInv, [ClientsNext]_clientVars PROVE ClientsInv'
    OBVIOUS
<1>0. /\ client \in [Clients -> ClientRow \cup {NoRow}]
      /\ identifiers \in [Clients -> SUBSET Identifier]
      /\ statuses \in [Clients -> Seq(ClientStatus)]
      /\ req \in [Workers -> {Idle} \cup ClientRequest] /\ stale \in BOOLEAN
    BY DEF ClientsInv, ClientsTypeOK
<1>1. ASSUME NEW w \in Workers, NEW c \in Clients, NEW d \in Details, NEW list \in Lists,
             CreateClient(w, c, d, list)
      PROVE  ClientsInv'
  <2> DEFINE r == [op |-> "CREATE_CLIENT", client |-> c, details |-> d,
                   identifiers |-> list, inserted |-> 0]
  <2>1. r \in ClientRequest
      BY DEF ClientRequest, CreateRequest
  <2>2. Held(r) = {}
      BY DEF Held
  <2>3. 0 <= Len(list)
      BY ClientsAssumption
  <2>4. CreationIsApart(r) /\ RowWasOpen(r)
      BY <1>1, <2>2, <2>3 DEF CreateClient, CreationIsApart, RowWasOpen
  <2>5. ASSUME NEW v \in Workers, v # w PROVE Apart(r, req[v])
      BY <1>1, <2>2 DEF CreateClient, Apart
  <2> HIDE DEF r
  <2>6. req' = [req EXCEPT ![w] = r] /\ UNCHANGED clientTables
      BY <1>1 DEF CreateClient, Begin, r
  <2>7. QED
      BY <2>1, <2>4, <2>5, <2>6, ClientsRead
<1>2. ASSUME NEW w \in Workers, NEW c \in Clients, NEW d \in Details, UpdateClient(w, c, d)
      PROVE  ClientsInv'
  <2> DEFINE r == [op |-> "UPDATE_CLIENT", client |-> c, row |-> client[c], details |-> d]
  <2>1. r \in ClientRequest
      BY <1>0, <1>2 DEF UpdateClient, ClientRequest, UpdateRequest
  <2>2. CreationIsApart(r) /\ RowWasOpen(r) /\ \A v \in Workers : Apart(r, req[v])
      BY <1>2 DEF UpdateClient, CreationIsApart, RowWasOpen, Apart, Held
  <2>3. QED
      BY <1>2, <2>1, <2>2, ClientsRead DEF UpdateClient, Begin
<1>3. ASSUME NEW w \in Workers, NEW c \in Clients, ArchiveClient(w, c)
      PROVE  ClientsInv'
  <2> DEFINE r == [op |-> "ARCHIVE_CLIENT", client |-> c, row |-> client[c]]
  <2>1. r \in ClientRequest
      BY <1>0, <1>3 DEF ArchiveClient, ClientRequest, ClientArchiveRequest
  <2>2. CreationIsApart(r) /\ RowWasOpen(r) /\ \A v \in Workers : Apart(r, req[v])
      BY <1>3 DEF ArchiveClient, CreationIsApart, RowWasOpen, Apart, Held
  <2>3. QED
      BY <1>3, <2>1, <2>2, ClientsRead DEF ArchiveClient, Begin
<1>4. ASSUME NEW w \in Workers, InsertIdentifier(w)
      PROVE  ClientsInv'
  <2>1. CASE Finish(w)
      BY <1>4, <2>1, IdleIsApart, ClientsRead DEF InsertIdentifier, Finish
  <2>2. CASE /\ ~Collides(w) /\ \A v \in Workers : ~WaitsFor(w, v)
             /\ req' = [req EXCEPT ![w].inserted = @ + 1]
    <3>1. PICK r : r = [req[w] EXCEPT !.inserted = @ + 1]
        OBVIOUS
    <3>2. req' = [req EXCEPT ![w] = r]
        BY <1>0, <2>2, <3>1
    <3>3. /\ r \in ClientRequest /\ CreationIsApart(r) /\ RowWasOpen(r)
          /\ \A v \in Workers : v # w => Apart(r, req[v])
        BY <1>4, <2>2, <3>1, InsertStep DEF InsertIdentifier
    <3>4. QED
        BY <1>4, <3>2, <3>3, ClientsRead DEF InsertIdentifier
  <2>3. QED
      BY <1>4, <2>1, <2>2 DEF InsertIdentifier
<1>5. ASSUME NEW w \in Workers, BreakDeadlock(w)
      PROVE  ClientsInv'
    BY <1>5, IdleIsApart, ClientsRead DEF BreakDeadlock, Finish
<1>6. ASSUME NEW w \in Workers, CommitClientUpdate(w)
      PROVE  ClientsInv'
  <2> DEFINE r == req[w]
             c == r.client
             row == [client[c] EXCEPT !.details = Column(@, r.row.details, r.details),
                                      !.version = r.row.version + 1]
  <2>1. c \in Clients /\ r.row \in ClientRow /\ r.details \in Details /\ client[c] # NoRow
      BY <1>0, <1>6, ClientFields DEF CommitClientUpdate, ClientsInv, RowWasOpen
  <2>2. client[c] \in ClientRow /\ r.row.version + 1 \in Nat
      BY <1>0, <2>1, ClientFields
  <2>3. row \in ClientRow /\ row.status = client[c].status /\ row.archived = client[c].archived
      BY <2>1, <2>2 DEF ClientRow, Column
  <2>4. row.archived => row.status = "ARCHIVED"
      BY <2>1, <2>3 DEF ClientsInv
  <2>5. /\ client' = [client EXCEPT ![c] = row] /\ UNCHANGED <<identifiers, statuses>>
        /\ stale' \in BOOLEAN /\ req' = [req EXCEPT ![w] = Idle]
      BY <1>0, <1>6, <2>1 DEF CommitClientUpdate, Finish
  <2> HIDE DEF row
  <2>6. QED
      BY <1>0, <2>1, <2>3, <2>4, <2>5, ClientsCommit
<1>7. ASSUME NEW w \in Workers, CommitClientArchive(w)
      PROVE  ClientsInv'
  <2> DEFINE r == req[w]
             c == r.client
             row == [client[c] EXCEPT !.status = "ARCHIVED", !.archived = TRUE,
                                      !.version = r.row.version + 1]
  <2>1. c \in Clients /\ r.row \in ClientRow /\ client[c] # NoRow
      BY <1>0, <1>7, ClientFields DEF CommitClientArchive, ClientsInv, RowWasOpen
  <2>2. client[c] \in ClientRow /\ r.row.version + 1 \in Nat
      BY <1>0, <2>1, ClientFields
  <2>3. row \in ClientRow /\ row.status = "ARCHIVED"
      BY <2>1, <2>2, StatusesOfClients DEF ClientRow
  <2>4. statuses' \in [Clients -> Seq(ClientStatus)]
      BY <1>0, <1>7, <2>1, StatusesOfClients DEF CommitClientArchive
  <2>5. /\ client' = [client EXCEPT ![c] = row] /\ identifiers' = identifiers
        /\ stale' \in BOOLEAN /\ req' = [req EXCEPT ![w] = Idle]
      BY <1>0, <1>7, <2>1 DEF CommitClientArchive, Finish
  <2> HIDE DEF row
  <2>6. QED
      BY <2>1, <2>3, <2>4, <2>5, ClientsCommit
<1>8. CASE UNCHANGED clientVars
    BY <1>8 DEF clientVars, ClientsInv, ClientsTypeOK, IdentifiersAreUnique, CreationIsApart,
                RowWasOpen, Apart, Held
<1>9. QED
    BY <1>1, <1>2, <1>3, <1>4, <1>5, <1>6, <1>7, <1>8, CreationCommits
    DEF ClientsNext, ClientRequestArrives, ClientRequestStep

\* The tables of clients have their types.
THEOREM ClientTypesAreKept == ClientsSpec => []ClientsTypeOK
<1>1. ClientsInv => ClientsTypeOK
    BY DEF ClientsInv
<1>2. QED
    BY ClientsInvInit, ClientsInvNext, <1>1, PTL DEF ClientsSpec

\* No two clients share a normalized identifier, whatever creations overlap:
\* the unique index, which holds back the second insert of a key, is enough,
\* although create_client looks no identifier up before it inserts.
THEOREM NoSharedIdentifiers == ClientsSpec => []IdentifiersAreUnique
<1>1. ClientsInv => IdentifiersAreUnique
    BY DEF ClientsInv
<1>2. QED
    BY ClientsInvInit, ClientsInvNext, <1>1, PTL DEF ClientsSpec

LEMMA ArchivedClientStep ==
    ASSUME ClientsInv, ClientsNext, NEW c \in Clients, client[c] # NoRow, client[c].archived
    PROVE  /\ client'[c].archived /\ client'[c].status = "ARCHIVED"
           /\ ~stale' => client'[c] = client[c] /\ statuses'[c] = statuses[c]
<1>0. /\ client \in [Clients -> ClientRow \cup {NoRow}]
      /\ statuses \in [Clients -> Seq(ClientStatus)]
      /\ req \in [Workers -> {Idle} \cup ClientRequest] /\ client[c].status = "ARCHIVED"
    BY DEF ClientsInv, ClientsTypeOK
<1>1. ASSUME UNCHANGED <<client, statuses>>
      PROVE  /\ client'[c].archived /\ client'[c].status = "ARCHIVED"
             /\ ~stale' => client'[c] = client[c] /\ statuses'[c] = statuses[c]
    BY <1>0, <1>1
<1>2. ASSUME NEW w \in Workers, CommitClient(w)
      PROVE  client'[c] = client[c] /\ statuses'[c] = statuses[c]
  <2>1. req[w].client # c
      BY <1>2 DEF CommitClient, ClientsInv, CreationIsApart
  <2>2. QED
      BY <1>0, <1>2, <2>1 DEF CommitClient
<1>3. ASSUME NEW w \in Workers, CommitClientUpdate(w) \/ CommitClientArchive(w), req[w].client = c
      PROVE  client'[c].archived /\ client'[c].status = "ARCHIVED" /\ stale'
  <2>1. ~req[w].row.archived
      BY <1>3 DEF CommitClientUpdate, CommitClientArchive, ClientsInv, RowWasOpen
  <2>2. client[c] \in ClientRow
      BY <1>0
  <2>3. stale'
      BY <1>3, <2>1 DEF CommitClientUpdate, CommitClientArchive
  <2>4. CASE CommitClientUpdate(w)
      BY <1>0, <1>3, <2>2, <2>3, <2>4 DEF CommitClientUpdate, ClientRow
  <2>5. CASE CommitClientArchive(w)
      BY <1>0, <1>3, <2>2, <2>3, <2>5 DEF CommitClientArchive, ClientRow
  <2>6. QED
      BY <1>3, <2>4, <2>5
<1>4. ASSUME NEW w \in Workers, CommitClientUpdate(w) \/ CommitClientArchive(w), req[w].client # c
      PROVE  client'[c] = client[c] /\ statuses'[c] = statuses[c]
    BY <1>0, <1>4 DEF CommitClientUpdate, CommitClientArchive
<1>5. QED
    BY <1>0, <1>1, <1>2, <1>3, <1>4
    DEF ClientsNext, ClientRequestArrives, ClientRequestStep, CreateClient, UpdateClient, ArchiveClient,
        InsertIdentifier, BreakDeadlock, clientTables

\* What is archived stays in the archive: an update or a second archive that
\* still finds it there has loaded an older row.
THEOREM ArchivedClientsStay == ClientsSpec => ClientArchiveIsFinal
<1>1. ClientsInv /\ [ClientsNext]_clientVars
      => [\A c \in Clients :
              client[c] # NoRow /\ client[c].archived
              => /\ client'[c].archived /\ client'[c].status = "ARCHIVED"
                 /\ ~stale' => client'[c] = client[c] /\ statuses'[c] = statuses[c]]_clientVars
    BY ArchivedClientStep
<1>2. QED
    BY ClientsInvInit, ClientsInvNext, <1>1, PTL DEF ClientsSpec, ClientArchiveIsFinal
=============================================================================
