------------------------------ MODULE MCOffice ------------------------------
(* The smaller parts of the office, each with the same two workers.  They   *)
(* share no table, so a behaviour explores one of them: `part`.             *)
EXTENDS Ledger, DocumentStore, Workforce, Accounts, StaffMaster, Operations, Access, TLC

CONSTANTS w1, w2, i1, i2, d1, bdt, usd, a1, b1, t1, s1, s2, Parts

VARIABLE part

TwoWorkers == {w1, w2}
WorkerSymmetry == Permutations(TwoWorkers)
OneInvoice == {i1}
OneRow == {i1}
TwoRows == {i1, i2}
OneCurrency == {bdt}
TwoCurrencies == {bdt, usd}
OneDocument == {d1}
Small == {1, 2}
One == {1}
Two == {2}
OneType == {t1}
TwoDepartments == {a1, b1}
TwoSecrets == {s1, s2}
NobodysContext ==
    [role |-> "OTHER", permitted |-> FALSE, active |-> FALSE, member |-> FALSE, scoped |-> TRUE,
     portfolio |-> FALSE, engagement |-> FALSE, confidential |-> FALSE, level |-> "INTERNAL",
     delegated |-> FALSE, listed |-> FALSE, starts |-> {}, ends |-> {}]
AllParts == {"LEDGER", "DOCUMENTS", "WORKFORCE", "ACCOUNTS", "STAFF", "OPERATIONS", "ACCESS"}
LedgerPart == {"LEDGER"}

ASSUME PartsAssumption == Parts \subseteq AllParts

ledgerOnly == <<currency, invoice, received, approvals, expenses>>
documentsOnly == <<document, versions>>
workforceOnly == <<attended, leave, assigned, worklog, moves>>
accountsOnly == <<account, listed, handedOut, revoked, misses, chosen>>
staffOnly == <<departments, designation, profile, updates>>
operationsOnly == <<notification, deliveries, check, verdict, verified>>

\* The account starts without a row or with the first password; the parts that
\* a behaviour does not explore start in one state.
MCInit ==
    /\ part \in Parts
    /\ LedgerInit /\ (part = "LEDGER" \/ currency = bdt)
    /\ DocumentsInit /\ WorkforceInit
    /\ AccountsInit /\ chosen \in IF part = "ACCOUNTS" THEN {NoRow, s1} ELSE {NoRow}
    /\ listed = IF part = "ACCOUNTS" THEN listed ELSE "ACTIVE"
    /\ StaffInit /\ OperationsInit
    /\ IF part = "ACCESS" THEN AccessInit ELSE context = NobodysContext /\ now = 1

\* Where every property is "unless stale", nothing follows a stale commit.
MCNext ==
    /\ part' = part
    /\ \/ /\ part = "LEDGER" /\ LedgerNext
          /\ UNCHANGED <<documentsOnly, workforceOnly, accountsOnly, staffOnly, operationsOnly, accessVars>>
       \/ /\ part = "DOCUMENTS" /\ DocumentsNext
          /\ UNCHANGED <<ledgerOnly, workforceOnly, accountsOnly, staffOnly, operationsOnly, accessVars>>
       \/ /\ part = "WORKFORCE" /\ WorkforceNext
          /\ UNCHANGED <<ledgerOnly, documentsOnly, accountsOnly, staffOnly, operationsOnly, accessVars>>
       \/ /\ part = "ACCOUNTS" /\ ~stale /\ AccountsNext
          /\ UNCHANGED <<ledgerOnly, documentsOnly, workforceOnly, staffOnly, operationsOnly, accessVars>>
       \/ /\ part = "STAFF" /\ ~stale /\ StaffNext
          /\ UNCHANGED <<ledgerOnly, documentsOnly, workforceOnly, accountsOnly, operationsOnly, accessVars>>
       \/ /\ part = "OPERATIONS" /\ OperationsNext
          /\ UNCHANGED <<ledgerOnly, documentsOnly, workforceOnly, accountsOnly, staffOnly, accessVars>>
       \/ /\ part = "ACCESS" /\ AccessNext
          /\ UNCHANGED <<ledgerOnly, documentsOnly, workforceOnly, accountsOnly, staffOnly, operationsOnly, req, stale>>

officeVars == <<ledgerVars, documentVars, workforceVars, accountsVars, staffVars, operationsVars, accessVars, part>>

MCSpec == MCInit /\ [][MCNext]_officeVars

\* Each part's type invariant, where its requests are.
OfficeTypeOK ==
    CASE part = "LEDGER"     -> LedgerTypeOK
      [] part = "DOCUMENTS"  -> DocumentsTypeOK
      [] part = "WORKFORCE"  -> WorkforceTypeOK
      [] part = "ACCOUNTS"   -> AccountsTypeOK
      [] part = "STAFF"      -> StaffTypeOK
      [] part = "OPERATIONS" -> OperationsTypeOK
      [] part = "ACCESS"     -> AccessTypeOK
=============================================================================
