--------------------------- MODULE MCOfficeProofs ---------------------------
(***************************************************************************)
(* The composition of the smaller parts that one run explores is, part by  *)
(* part, the specification that OfficeProofs and UniqueKeyProofs are       *)
(* about: what the run checks of a part is what is proved of it.           *)
(***************************************************************************)
EXTENDS MCOffice, OfficeProofs, UniqueKeyProofs

LEMMA LedgerIsExplored == MCSpec /\ part = "LEDGER" => LedgerSpec /\ [](part = "LEDGER")
<1>1. MCInit => LedgerInit
    BY DEF MCInit
<1>2. part = "LEDGER" /\ [MCNext]_officeVars => (part = "LEDGER")' /\ [LedgerNext]_ledgerVars
    BY DEF MCNext, officeVars
<1>3. QED
    BY <1>1, <1>2, PTL DEF MCSpec, LedgerSpec

LEMMA DocumentsIsExplored == MCSpec /\ part = "DOCUMENTS" => DocumentsSpec /\ [](part = "DOCUMENTS")
<1>1. MCInit => DocumentsInit
    BY DEF MCInit
<1>2. part = "DOCUMENTS" /\ [MCNext]_officeVars => (part = "DOCUMENTS")' /\ [DocumentsNext]_documentVars
    BY DEF MCNext, officeVars
<1>3. QED
    BY <1>1, <1>2, PTL DEF MCSpec, DocumentsSpec

LEMMA WorkforceIsExplored == MCSpec /\ part = "WORKFORCE" => WorkforceSpec /\ [](part = "WORKFORCE")
<1>1. MCInit => WorkforceInit
    BY DEF MCInit
<1>2. part = "WORKFORCE" /\ [MCNext]_officeVars => (part = "WORKFORCE")' /\ [WorkforceNext]_workforceVars
    BY DEF MCNext, officeVars
<1>3. QED
    BY <1>1, <1>2, PTL DEF MCSpec, WorkforceSpec

LEMMA AccountsIsExplored == MCSpec /\ part = "ACCOUNTS" => AccountsSpec /\ [](part = "ACCOUNTS")
<1>1. MCInit => AccountsInit
    BY DEF MCInit
<1>2. part = "ACCOUNTS" /\ [MCNext]_officeVars => (part = "ACCOUNTS")' /\ [AccountsNext]_accountsVars
    BY DEF MCNext, officeVars
<1>3. QED
    BY <1>1, <1>2, PTL DEF MCSpec, AccountsSpec

LEMMA StaffIsExplored == MCSpec /\ part = "STAFF" => StaffSpec /\ [](part = "STAFF")
<1>1. MCInit => StaffInit
    BY DEF MCInit
<1>2. part = "STAFF" /\ [MCNext]_officeVars => (part = "STAFF")' /\ [StaffNext]_staffVars
    BY DEF MCNext, officeVars
<1>3. QED
    BY <1>1, <1>2, PTL DEF MCSpec, StaffSpec

LEMMA OperationsIsExplored == MCSpec /\ part = "OPERATIONS" => OperationsSpec /\ [](part = "OPERATIONS")
<1>1. MCInit => OperationsInit
    BY DEF MCInit
<1>2. part = "OPERATIONS" /\ [MCNext]_officeVars => (part = "OPERATIONS")' /\ [OperationsNext]_operationsVars
    BY DEF MCNext, officeVars
<1>3. QED
    BY <1>1, <1>2, PTL DEF MCSpec, OperationsSpec

LEMMA AccessIsExplored == MCSpec /\ part = "ACCESS" => AccessSpec /\ [](part = "ACCESS")
<1>1. MCInit /\ part = "ACCESS" => AccessInit
    BY DEF MCInit
<1>2. part = "ACCESS" /\ [MCNext]_officeVars => (part = "ACCESS")' /\ [AccessNext]_accessVars
    BY DEF MCNext, officeVars
<1>3. QED
    BY <1>1, <1>2, PTL DEF MCSpec, AccessSpec

\* A behaviour of the composition is one of the component it explores, for the
\* routers of the office share no table but those of the part.
THEOREM OfficeExploresItsParts ==
    MCSpec =>
        /\ part = "LEDGER" => LedgerSpec
        /\ part = "DOCUMENTS" => DocumentsSpec
        /\ part = "WORKFORCE" => WorkforceSpec
        /\ part = "ACCOUNTS" => AccountsSpec
        /\ part = "STAFF" => StaffSpec
        /\ part = "OPERATIONS" => OperationsSpec
        /\ part = "ACCESS" => AccessSpec
    BY LedgerIsExplored, DocumentsIsExplored, WorkforceIsExplored, AccountsIsExplored,
       StaffIsExplored, OperationsIsExplored, AccessIsExplored, PTL

\* In each part, the rows and requests of all its handlers have their types.
THEOREM OfficeTypesAreKept == MCSpec => []OfficeTypeOK
<1>1. MCInit =>
          \/ part = "LEDGER"
          \/ part = "DOCUMENTS"
          \/ part = "WORKFORCE"
          \/ part = "ACCOUNTS"
          \/ part = "STAFF"
          \/ part = "OPERATIONS"
          \/ part = "ACCESS"
    BY PartsAssumption DEF MCInit, AllParts
<1>2. MCSpec /\ part = "LEDGER" => []OfficeTypeOK
  <2>1. part = "LEDGER" /\ LedgerTypeOK => OfficeTypeOK
      BY DEF OfficeTypeOK
  <2>2. QED
      BY <2>1, LedgerIsExplored, LedgerTypesAreKept, PTL
<1>3. MCSpec /\ part = "DOCUMENTS" => []OfficeTypeOK
  <2>1. part = "DOCUMENTS" /\ DocumentsTypeOK => OfficeTypeOK
      BY DEF OfficeTypeOK
  <2>2. QED
      BY <2>1, DocumentsIsExplored, DocumentTypesAreKept, PTL
<1>4. MCSpec /\ part = "WORKFORCE" => []OfficeTypeOK
  <2>1. part = "WORKFORCE" /\ WorkforceTypeOK => OfficeTypeOK
      BY DEF OfficeTypeOK
  <2>2. QED
      BY <2>1, WorkforceIsExplored, WorkforceTypesAreKept, PTL
<1>5. MCSpec /\ part = "ACCOUNTS" => []OfficeTypeOK
  <2>1. part = "ACCOUNTS" /\ AccountsTypeOK => OfficeTypeOK
      BY DEF OfficeTypeOK
  <2>2. QED
      BY <2>1, AccountsIsExplored, AccountTypesAreKept, PTL
<1>6. MCSpec /\ part = "STAFF" => []OfficeTypeOK
  <2>1. part = "STAFF" /\ StaffTypeOK => OfficeTypeOK
      BY DEF OfficeTypeOK
  <2>2. QED
      BY <2>1, StaffIsExplored, StaffTypesAreKept, PTL
<1>7. MCSpec /\ part = "OPERATIONS" => []OfficeTypeOK
  <2>1. part = "OPERATIONS" /\ OperationsTypeOK => OfficeTypeOK
      BY DEF OfficeTypeOK
  <2>2. QED
      BY <2>1, OperationsIsExplored, OperationsTypesAreKept, PTL
<1>8. MCSpec /\ part = "ACCESS" => []OfficeTypeOK
  <2>1. part = "ACCESS" /\ AccessTypeOK => OfficeTypeOK
      BY DEF OfficeTypeOK
  <2>2. QED
      BY <2>1, AccessIsExplored, AccessTypesAreKept, PTL
<1>9. QED
    BY <1>1, <1>2, <1>3, <1>4, <1>5, <1>6, <1>7, <1>8, PTL DEF MCSpec
=============================================================================
