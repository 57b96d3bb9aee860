---------------------------- MODULE OfficeProofs ----------------------------
(***************************************************************************)
(* Theorems about the smaller components, one part of the module each:     *)
(* ledger, staff master, operations, workforce, the access decision and    *)
(* accounts.  Each is about the component's own specification, for any     *)
(* sets of workers and rows and any bounds.                                *)
(***************************************************************************)
EXTENDS Ledger, Workforce, Accounts, StaffMaster, Operations, Access,
        FiniteSetTheorems, WellFoundedInduction, TLAPS

-----------------------------------------------------------------------------
(* The ledger.                                                             *)

\* What a request knows of its invoice, whatever has been committed since: an
\* approval was let in by a draft and a receipt by an approved invoice, and an
\* invoice only goes forward.
Holds(r) ==
    /\ r.op = "INVOICE" => invoice[r.invoice] = NoRow /\ r.row.status = "DRAFT"
    /\ r.op = "APPROVE_INVOICE" => invoice[r.invoice] # NoRow /\ r.row.status = "DRAFT"
    /\ r.op = "RECEIPT" => /\ r.row.status = "APPROVED"
                           /\ r.at = "commit" => r.sum + r.amount <= r.row.total
    /\ r.op = "ECONOMICS" /\ r.at = "receipts" => \A i \in Invoices : r.invoiced[i] <= Due(i)

\* An id is given to one invoice.
IdsAreFresh ==
    \A v, w \in Workers :
        req[v].op = "INVOICE" /\ req[w].op = "INVOICE" /\ req[v].invoice = req[w].invoice => v = w

\* The two halves of LedgerBalances.
ReceiptsAreCovered == ~stale => \A i \in Invoices : received[i] <= Due(i)

ApprovedOnce == ~stale => \A i \in Invoices : approvals[i] = IF Approved(i) THEN 1 ELSE 0

LedgerInv ==
    /\ LedgerTypeOK
    /\ ReceiptsAreCovered
    /\ ApprovedOnce
    /\ IdsAreFresh
    /\ \A w \in Workers : Holds(req[w])

LEMMA LedgerFields ==
    /\ \A row \in InvoiceRow : /\ row # NoRow /\ row.currency \in Currencies /\ row.total \in Nat
                               /\ row.status \in {"DRAFT", "APPROVED"} /\ row.version \in Nat
    /\ \A r \in {Idle} \cup LedgerRequest :
          /\ r.op = "INVOICE" => r \in InvoiceRequest
          /\ r.op = "APPROVE_INVOICE" => r \in ApprovalRequest
          /\ r.op = "RECEIPT" => r \in ReceiptRequest
          /\ r.op = "ECONOMICS" => r \in ReportRequest
<1>1. ASSUME NEW row \in InvoiceRow
      PROVE  /\ row # NoRow /\ row.currency \in Currencies /\ row.total \in Nat
             /\ row.status \in {"DRAFT", "APPROVED"} /\ row.version \in Nat
  <2>1. /\ row.currency \in Currencies /\ row.total \in Totals
        /\ row.status \in {"DRAFT", "APPROVED"} /\ row.version \in Nat
      BY DEF InvoiceRow
  <2>2. row.total \in Nat
      BY <2>1, LedgerAssumption
  <2>3. row # NoRow
      BY <2>1 DEF NoRow
  <2>4. QED
      BY <2>1, <2>2, <2>3
<1>2. QED
    BY <1>1 DEF LedgerRequest, InvoiceRequest, ApprovalRequest, ReceiptRequest, ReportRequest, Idle

LEMMA ApprovedRow ==
    ASSUME NEW row \in InvoiceRow, NEW n \in Nat
    PROVE  [row EXCEPT !.status = "APPROVED", !.version = n] \in InvoiceRow
    BY DEF InvoiceRow

LEMMA DueIsNat ==
    ASSUME LedgerTypeOK, NEW i \in Invoices
    PROVE  Due(i) \in Nat
    BY LedgerFields DEF LedgerTypeOK, Due, Approved

LEMMA LedgerInvInit == LedgerInit => LedgerInv
<1> SUFFICES ASSUME LedgerInit PROVE LedgerInv
    OBVIOUS
<1>1. /\ invoice \in [Invoices -> InvoiceRow \cup {NoRow}]
      /\ received \in [Invoices -> Nat] /\ approvals \in [Invoices -> Nat]
    BY DEF LedgerInit, Nothing
<1>2. LedgerTypeOK
    BY <1>1 DEF LedgerInit, LedgerTypeOK
<1>3. \A i \in Invoices : received[i] = 0 /\ approvals[i] = 0 /\ ~Approved(i)
    BY DEF LedgerInit, Nothing, Approved
<1>4. ReceiptsAreCovered /\ ApprovedOnce
    BY <1>3 DEF ReceiptsAreCovered, ApprovedOnce, Due
<1>5. \A w \in Workers : req[w] = Idle
    BY DEF LedgerInit
<1>6. IdsAreFresh /\ \A w \in Workers : Holds(req[w])
    BY <1>5 DEF IdsAreFresh, Holds, Idle
<1>7. QED
    BY <1>2, <1>4, <1>6 DEF LedgerInv

\* A step of worker w that writes no invoice and leaves w with request r.
LEMMA LedgerRead ==
    ASSUME LedgerInv, NEW w \in Workers, NEW r \in {Idle} \cup LedgerRequest,
           req' = [req EXCEPT ![w] = r], UNCHANGED ledgerTables, Holds(r),
           r.op = "INVOICE" => \A v \in Workers : req[v].op = "INVOICE" => req[v].invoice # r.invoice
    PROVE  LedgerInv'
<1>1. LedgerTypeOK'
    BY DEF LedgerInv, LedgerTypeOK, ledgerTables
<1>2. ReceiptsAreCovered' /\ ApprovedOnce'
    BY DEF LedgerInv, ReceiptsAreCovered, ApprovedOnce, Due, Approved, ledgerTables
<1>3. \A v \in Workers : req'[v] = IF v = w THEN r ELSE req[v]
    BY DEF LedgerInv, LedgerTypeOK
<1>4. IdsAreFresh'
    BY <1>3 DEF LedgerInv, IdsAreFresh
<1>5. \A v \in Workers : Holds(req[v])'
    BY <1>3 DEF LedgerInv, Holds, Due, Approved, ledgerTables
<1>6. QED
    BY <1>1, <1>2, <1>4, <1>5 DEF LedgerInv

\* A commit of worker w to invoice i, which is there afterwards and owes at
\* least what it owed before.
LEMMA LedgerCommit ==
    ASSUME LedgerInv, NEW w \in Workers, NEW i \in Invoices, NEW row \in InvoiceRow,
           invoice' = [invoice EXCEPT ![i] = row], Due(i) <= Due(i)',
           (req[w].op = "INVOICE" /\ req[w].invoice = i) \/ invoice[i] # NoRow,
           req' = [req EXCEPT ![w] = Idle],
           LedgerTypeOK', ReceiptsAreCovered', ApprovedOnce'
    PROVE  LedgerInv'
<1>0. /\ invoice \in [Invoices -> InvoiceRow \cup {NoRow}]
      /\ req \in [Workers -> {Idle} \cup LedgerRequest]
    BY DEF LedgerInv, LedgerTypeOK
<1>1. \A v \in Workers : req'[v] = IF v = w THEN Idle ELSE req[v]
    BY <1>0
<1>2. IdsAreFresh'
    BY <1>1 DEF LedgerInv, IdsAreFresh, Idle
<1>3. ASSUME NEW j \in Invoices
      PROVE  Due(j) <= Due(j)'
  <2>1. Due(j) \in Nat
      BY DueIsNat DEF LedgerInv
  <2>2. j # i => Due(j)' = Due(j)
      BY <1>0 DEF Due, Approved
  <2>3. QED
      BY <2>1, <2>2
<1>4. ASSUME NEW v \in Workers, v # w
      PROVE  Holds(req[v])'
  <2> DEFINE r == req[v]
  <2>1. req'[v] = r /\ r \in {Idle} \cup LedgerRequest /\ Holds(r)
      BY <1>0, <1>1, <1>4 DEF LedgerInv
  <2>2. CASE r.op = "INVOICE"
    <3>1. r \in InvoiceRequest /\ r.invoice \in Invoices /\ invoice[r.invoice] = NoRow
        BY <2>1, <2>2, LedgerFields DEF Holds, InvoiceRequest
    <3>2. r.invoice # i
        BY <1>4, <2>2, <3>1 DEF LedgerInv, IdsAreFresh
    <3>3. QED
        BY <1>0, <2>1, <2>2, <3>1, <3>2 DEF Holds
  <2>3. CASE r.op = "APPROVE_INVOICE"
    <3>1. r.invoice \in Invoices
        BY <2>1, <2>3, LedgerFields DEF ApprovalRequest
    <3>2. QED
        BY <1>0, <2>1, <2>3, <3>1, LedgerFields DEF Holds
  <2>4. CASE r.op = "RECEIPT"
      BY <2>1, <2>4 DEF Holds
  <2>5. CASE r.op = "ECONOMICS"
    <3>1. CASE r.at = "receipts"
      <4>1. ASSUME NEW j \in Invoices
            PROVE  r.invoiced[j] <= Due(j)'
        <5>1. r.invoiced[j] \in Nat
            BY <2>1, <2>5, LedgerFields DEF ReportRequest
        <5>2. r.invoiced[j] <= Due(j)
            BY <2>1, <2>5, <3>1 DEF Holds
        <5>3. Due(j) \in Nat /\ Due(j)' \in Nat
            BY DueIsNat, LedgerFields DEF LedgerInv, LedgerTypeOK, Due, Approved
        <5>4. QED
            BY <1>3, <5>1, <5>2, <5>3
      <4>2. QED
          BY <2>1, <2>5, <4>1 DEF Holds
    <3>2. CASE r.at # "receipts"
        BY <2>1, <2>5, <3>2 DEF Holds
    <3>3. QED
        BY <3>1, <3>2
  <2>6. QED
      BY <2>1, <2>2, <2>3, <2>4, <2>5 DEF Holds
<1>5. Holds(req[w])'
    BY <1>1 DEF Holds, Idle
<1>6. QED
    BY <1>2, <1>4, <1>5 DEF LedgerInv

\* create_invoice: a draft owes nothing, like the id that was free.
LEMMA InvoiceCommit ==
    ASSUME LedgerInv, NEW w \in Workers, CommitInvoice(w)
    PROVE  LedgerInv'
<1>0. /\ LedgerTypeOK /\ Holds(req[w])
      /\ req[w] \in {Idle} \cup LedgerRequest /\ req[w].op = "INVOICE"
    BY DEF LedgerInv, LedgerTypeOK, CommitInvoice
<1>1. PICK i \in Invoices, row \in InvoiceRow :
          /\ i = req[w].invoice /\ row = req[w].row
          /\ row # NoRow /\ invoice[i] = NoRow /\ row.status = "DRAFT"
    BY <1>0, LedgerFields DEF InvoiceRequest, Holds
<1>2. /\ invoice' = [invoice EXCEPT ![i] = row]
      /\ req' = [req EXCEPT ![w] = Idle]
      /\ stale' = (stale \/ currency # row.currency)
      /\ UNCHANGED <<currency, received, approvals, expenses>>
    BY <1>1 DEF CommitInvoice, Finish
<1>3. LedgerTypeOK'
    BY <1>0, <1>2 DEF LedgerTypeOK
<1>4. ASSUME NEW j \in Invoices
      PROVE  Approved(j)' = Approved(j) /\ Due(j)' = Due(j)
    BY <1>0, <1>1, <1>2 DEF LedgerTypeOK, Approved, Due
<1>5. ReceiptsAreCovered' /\ ApprovedOnce'
    BY <1>2, <1>4 DEF LedgerInv, ReceiptsAreCovered, ApprovedOnce
<1>6. Due(i) <= Due(i)'
    BY <1>0, <1>4, DueIsNat
<1>7. QED
    BY <1>0, <1>1, <1>2, <1>3, <1>5, <1>6, LedgerCommit

\* approve_invoice: what it approves was a draft, unless it is stale.
LEMMA ApprovalCommit ==
    ASSUME LedgerInv, NEW w \in Workers, CommitApproval(w)
    PROVE  LedgerInv'
<1>0. /\ LedgerTypeOK /\ Holds(req[w])
      /\ req[w] \in {Idle} \cup LedgerRequest /\ req[w].op = "APPROVE_INVOICE"
    BY DEF LedgerInv, LedgerTypeOK, CommitApproval
<1>1. PICK i \in Invoices, copy \in InvoiceRow :
          /\ i = req[w].invoice /\ copy = req[w].row /\ copy.version \in Nat
          /\ invoice[i] # NoRow /\ copy.status = "DRAFT"
    BY <1>0, LedgerFields DEF ApprovalRequest, Holds
<1>2. invoice[i] \in InvoiceRow /\ invoice[i].total \in Nat
    BY <1>0, <1>1, LedgerFields DEF LedgerTypeOK
<1>3. PICK row \in InvoiceRow :
          /\ row = [invoice[i] EXCEPT !.status = "APPROVED", !.version = copy.version + 1]
          /\ row # NoRow /\ row.status = "APPROVED" /\ row.total = invoice[i].total
  <2> DEFINE row == [invoice[i] EXCEPT !.status = "APPROVED", !.version = copy.version + 1]
  <2>1. row \in InvoiceRow
    <3>1. copy.version + 1 \in Nat
        BY <1>1
    <3>2. QED
        BY <1>2, <3>1, ApprovedRow
  <2>2. row.status = "APPROVED" /\ row.total = invoice[i].total
      BY <1>2 DEF InvoiceRow
  <2>3. QED
      BY <2>1, <2>2, LedgerFields
<1>4. /\ invoice' = [invoice EXCEPT ![i] = row]
      /\ approvals' = [approvals EXCEPT ![i] = approvals[i] + 1]
      /\ stale' = (stale \/ invoice[i] # copy)
      /\ req' = [req EXCEPT ![w] = Idle]
      /\ UNCHANGED <<currency, received, expenses>>
    BY <1>1, <1>3 DEF CommitApproval, Finish
<1>5. LedgerTypeOK'
    BY <1>0, <1>4 DEF LedgerTypeOK
<1>6. Approved(i)' /\ Due(i)' = invoice[i].total /\ Due(i) <= Due(i)'
  <2>1. invoice'[i] = row
      BY <1>0, <1>4 DEF LedgerTypeOK
  <2>2. Approved(i)' /\ Due(i)' = invoice[i].total
      BY <1>3, <2>1 DEF Approved, Due
  <2>3. Due(i) \in {0, invoice[i].total}
      BY DEF Due
  <2>4. QED
      BY <1>2, <2>2, <2>3
<1>7. ASSUME NEW j \in Invoices, j # i
      PROVE  Approved(j)' = Approved(j) /\ Due(j)' = Due(j) /\ approvals'[j] = approvals[j]
    BY <1>0, <1>4, <1>7 DEF LedgerTypeOK, Approved, Due
<1>8. ReceiptsAreCovered'
  <2>1. ASSUME NEW j \in Invoices, ~stale'
        PROVE  received'[j] <= Due(j)'
    <3>1. received'[j] = received[j] /\ received[j] \in Nat /\ received[j] <= Due(j)
        BY <1>0, <1>4, <2>1 DEF LedgerInv, LedgerTypeOK, ReceiptsAreCovered
    <3>2. Due(j) \in Nat /\ Due(j)' \in Nat /\ Due(j) <= Due(j)'
        BY <1>0, <1>2, <1>6, <1>7, DueIsNat
    <3>3. QED
        BY <3>1, <3>2
  <2>2. QED
      BY <2>1 DEF ReceiptsAreCovered
<1>9. ApprovedOnce'
  <2> SUFFICES ASSUME ~stale', NEW j \in Invoices
               PROVE  approvals'[j] = IF Approved(j)' THEN 1 ELSE 0
      BY DEF ApprovedOnce
  <2>1. ~stale /\ approvals[j] = (IF Approved(j) THEN 1 ELSE 0)
      BY <1>4 DEF LedgerInv, ApprovedOnce
  <2>2. CASE j = i
    <3>1. ~Approved(i)
        BY <1>1, <1>4 DEF Approved
    <3>2. approvals'[i] = 1
        BY <1>0, <1>4, <2>1, <2>2, <3>1 DEF LedgerTypeOK
    <3>3. QED
        BY <1>6, <2>2, <3>2
  <2>3. CASE j # i
      BY <1>7, <2>1, <2>3
  <2>4. QED
      BY <2>2, <2>3
<1>10. QED
    BY <1>0, <1>1, <1>4, <1>5, <1>6, <1>8, <1>9, LedgerCommit

\* record_receipt: unless it is stale, the sum it was allowed for is the sum
\* it adds to, and the total it was compared with that of the invoice.
LEMMA ReceiptCommit ==
    ASSUME LedgerInv, NEW w \in Workers, CommitReceipt(w)
    PROVE  LedgerInv'
<1> DEFINE r == req[w]
           i == r.invoice
<1>0. LedgerTypeOK /\ Holds(r) /\ r \in {Idle} \cup LedgerRequest /\ r.op = "RECEIPT" /\ r.at = "commit"
    BY DEF LedgerInv, LedgerTypeOK, CommitReceipt
<1>1. /\ i \in Invoices /\ r.row \in InvoiceRow /\ r.row # NoRow
      /\ r.amount \in Nat /\ r.sum \in Nat
      /\ r.row.status = "APPROVED" /\ r.sum + r.amount <= r.row.total
    BY <1>0, LedgerFields, LedgerAssumption DEF ReceiptRequest, Holds
<1>2. /\ received' = [received EXCEPT ![i] = received[i] + r.amount]
      /\ stale' = (stale \/ received[i] # r.sum \/ invoice[i] # r.row)
      /\ req' = [req EXCEPT ![w] = Idle]
      /\ UNCHANGED <<currency, invoice, approvals, expenses>>
    BY DEF CommitReceipt, Finish
<1>3. LedgerTypeOK'
    BY <1>0, <1>1, <1>2 DEF LedgerTypeOK
<1>4. \A j \in Invoices : Due(j)' = Due(j) /\ Approved(j)' = Approved(j)
    BY <1>2 DEF Due, Approved
<1>5. ReceiptsAreCovered'
  <2> SUFFICES ASSUME ~stale', NEW j \in Invoices
               PROVE  received'[j] <= Due(j)
      BY <1>4 DEF ReceiptsAreCovered
  <2>1. CASE j = i
    <3>1. received'[j] = r.sum + r.amount
        BY <1>0, <1>1, <1>2, <2>1 DEF LedgerTypeOK
    <3>2. Due(j) = r.row.total
        BY <1>1, <1>2, <2>1 DEF Due, Approved
    <3>3. QED
        BY <1>1, <3>1, <3>2
  <2>2. CASE j # i
      BY <1>0, <1>2, <2>2 DEF LedgerInv, LedgerTypeOK, ReceiptsAreCovered
  <2>3. QED
      BY <2>1, <2>2
<1>6. ApprovedOnce'
    BY <1>2, <1>4 DEF LedgerInv, ApprovedOnce
<1>7. \A v \in Workers : req'[v] = IF v = w THEN Idle ELSE req[v]
    BY <1>0, <1>2 DEF LedgerTypeOK
<1>8. IdsAreFresh'
    BY <1>7 DEF LedgerInv, IdsAreFresh, Idle
<1>9. \A v \in Workers : Holds(req[v])'
    BY <1>2, <1>4, <1>7 DEF LedgerInv, Holds, Idle
<1>10. QED
    BY <1>3, <1>5, <1>6, <1>8, <1>9 DEF LedgerInv

LEMMA LedgerInvNext == LedgerInv /\ [LedgerNext]_ledgerVars => LedgerInv'
<1> SUFFICES ASSUME LedgerInv, [LedgerNext]_ledgerVars PROVE LedgerInv'
    OBVIOUS
<1>0. /\ LedgerTypeOK /\ currency \in Currencies
      /\ invoice \in [Invoices -> InvoiceRow \cup {NoRow}] /\ received \in [Invoices -> Nat]
      /\ req \in [Workers -> {Idle} \cup LedgerRequest]
      /\ \A w \in Workers : Holds(req[w])
    BY DEF LedgerInv, LedgerTypeOK
<1>1. Holds(Idle) /\ Idle.op # "INVOICE"
    BY DEF Holds, Idle
<1>2. ASSUME NEW w \in Workers, NEW c \in Currencies, ChangeCurrency(w, c)
      PROVE  LedgerInv'
    BY <1>0, <1>2 DEF ChangeCurrency, LedgerInv, LedgerTypeOK, ReceiptsAreCovered, ApprovedOnce,
                      IdsAreFresh, Holds, Due, Approved
<1>3. ASSUME NEW w \in Workers, NEW amount \in Amounts, RecordExpense(w, amount)
      PROVE  LedgerInv'
  <2>1. amount \in Nat
      BY LedgerAssumption
  <2>2. QED
      BY <1>0, <1>3, <2>1 DEF RecordExpense, LedgerInv, LedgerTypeOK, ReceiptsAreCovered, ApprovedOnce,
                              IdsAreFresh, Holds, Due, Approved
<1>4. ASSUME NEW w \in Workers, NEW i \in Invoices, NEW total \in Totals, CreateInvoice(w, i, total)
      PROVE  LedgerInv'
  <2> DEFINE r == [op |-> "INVOICE", invoice |-> i, row |-> NewInvoice(currency, total)]
  <2>1. r \in LedgerRequest
      BY <1>0 DEF LedgerRequest, InvoiceRequest, InvoiceRow, NewInvoice
  <2>2. Holds(r)
      BY <1>4 DEF Holds, CreateInvoice, Issued, NewInvoice
  <2>3. /\ req' = [req EXCEPT ![w] = r] /\ UNCHANGED ledgerTables
        /\ \A v \in Workers : req[v].op = "INVOICE" => req[v].invoice # r.invoice
      BY <1>4 DEF CreateInvoice, Begin
  <2>4. QED
      BY <2>1, <2>2, <2>3, LedgerRead
<1>5. ASSUME NEW w \in Workers, NEW i \in Invoices, ApproveInvoice(w, i)
      PROVE  LedgerInv'
  <2> DEFINE r == [op |-> "APPROVE_INVOICE", invoice |-> i, row |-> invoice[i]]
  <2>1. invoice[i] # NoRow /\ invoice[i] \in InvoiceRow /\ invoice[i].status = "DRAFT"
      BY <1>0, <1>5 DEF ApproveInvoice, Issued
  <2>2. r \in LedgerRequest /\ Holds(r)
      BY <2>1 DEF LedgerRequest, ApprovalRequest, Holds
  <2>3. req' = [req EXCEPT ![w] = r] /\ UNCHANGED ledgerTables
      BY <1>5 DEF ApproveInvoice, Begin
  <2>4. QED
      BY <2>2, <2>3, LedgerRead
<1>6. ASSUME NEW w \in Workers, NEW i \in Invoices, NEW amount \in Amounts, RecordReceipt(w, i, amount)
      PROVE  LedgerInv'
  <2> DEFINE r == [op |-> "RECEIPT", at |-> "sum", invoice |-> i, row |-> invoice[i],
                   amount |-> amount, sum |-> 0]
  <2>1. invoice[i] # NoRow /\ invoice[i] \in InvoiceRow /\ invoice[i].status = "APPROVED"
      BY <1>0, <1>6 DEF RecordReceipt, Approved
  <2>2. r \in LedgerRequest /\ Holds(r)
      BY <2>1 DEF LedgerRequest, ReceiptRequest, Holds
  <2>3. req' = [req EXCEPT ![w] = r] /\ UNCHANGED ledgerTables
      BY <1>6 DEF RecordReceipt, Begin
  <2>4. QED
      BY <2>2, <2>3, LedgerRead
<1>7. ASSUME NEW w \in Workers, ViewEconomics(w)
      PROVE  LedgerInv'
  <2> DEFINE r == [op |-> "ECONOMICS", at |-> "invoiced", invoiced |-> Nothing, receipts |-> Nothing]
  <2>1. r \in LedgerRequest /\ Holds(r)
      BY DEF LedgerRequest, ReportRequest, Nothing, Holds
  <2>2. req' = [req EXCEPT ![w] = r] /\ UNCHANGED ledgerTables
      BY <1>7 DEF ViewEconomics, Begin
  <2>3. QED
      BY <2>1, <2>2, LedgerRead
<1>8. ASSUME NEW w \in Workers, CommitInvoice(w) \/ CommitApproval(w) \/ CommitReceipt(w)
      PROVE  LedgerInv'
    BY <1>8, InvoiceCommit, ApprovalCommit, ReceiptCommit
<1>9. ASSUME NEW w \in Workers, SumReceipts(w)
      PROVE  LedgerInv'
  <2> DEFINE r == req[w]
             s == [r EXCEPT !.at = "commit", !.sum = received[r.invoice]]
  <2>1. r \in ReceiptRequest /\ Holds(r) /\ r.op = "RECEIPT" /\ UNCHANGED ledgerTables
      BY <1>0, <1>9, LedgerFields DEF SumReceipts
  <2>2. CASE received[r.invoice] + r.amount > r.row.total
    <3>1. req' = [req EXCEPT ![w] = Idle]
        BY <1>9, <2>2 DEF SumReceipts, Finish
    <3>2. QED
        BY <1>1, <2>1, <3>1, LedgerRead
  <2>3. CASE ~(received[r.invoice] + r.amount > r.row.total)
    <3>1. req' = [req EXCEPT ![w] = s]
        BY <1>9, <2>3 DEF SumReceipts
    <3>2. /\ r.invoice \in Invoices /\ r.amount \in Nat /\ received[r.invoice] \in Nat
          /\ r.row.total \in Nat
        BY <1>0, <2>1, LedgerFields, LedgerAssumption DEF ReceiptRequest
    <3>3. s \in ReceiptRequest /\ s.op = "RECEIPT"
        BY <2>1, <3>2 DEF ReceiptRequest
    <3>4. s.row = r.row /\ s.sum = received[r.invoice] /\ s.amount = r.amount
        BY <2>1 DEF ReceiptRequest
    <3>5. s.sum + s.amount <= s.row.total
        BY <2>3, <3>2, <3>4
    <3>6. Holds(s)
        BY <2>1, <3>3, <3>4, <3>5 DEF Holds
    <3>7. QED
        BY <2>1, <3>1, <3>3, <3>6, LedgerRead DEF LedgerRequest
  <2>4. QED
      BY <2>2, <2>3
<1>10. ASSUME NEW w \in Workers, SumInvoices(w)
       PROVE  LedgerInv'
  <2> DEFINE r == req[w]
             s == [r EXCEPT !.at = "receipts", !.invoiced = Invoiced]
  <2>1. r \in ReportRequest /\ req' = [req EXCEPT ![w] = s] /\ UNCHANGED ledgerTables
      BY <1>0, <1>10, LedgerFields DEF SumInvoices
  <2>2. Invoiced \in [Invoices -> Nat] /\ \A i \in Invoices : Invoiced[i] = Due(i)
      BY <1>0, DueIsNat DEF Invoiced, Due
  <2>3. s \in ReportRequest /\ s.op = "ECONOMICS" /\ s.invoiced = Invoiced
      BY <2>1, <2>2 DEF ReportRequest
  <2>4. \A i \in Invoices : s.invoiced[i] <= Due(i)
      BY <1>0, <2>2, <2>3, DueIsNat
  <2>5. QED
      BY <2>1, <2>3, <2>4, LedgerRead DEF Holds, LedgerRequest
<1>11. ASSUME NEW w \in Workers, SumReceived(w)
       PROVE  LedgerInv'
  <2> DEFINE r == req[w]
             s == [r EXCEPT !.at = "expenses", !.receipts = received]
  <2>1. r \in ReportRequest /\ req' = [req EXCEPT ![w] = s] /\ UNCHANGED ledgerTables
      BY <1>0, <1>11, LedgerFields DEF SumReceived
  <2>2. s \in ReportRequest /\ s.op = "ECONOMICS" /\ s.at = "expenses"
      BY <1>0, <2>1 DEF ReportRequest
  <2>3. QED
      BY <2>1, <2>2, LedgerRead DEF Holds, LedgerRequest
<1>12. ASSUME NEW w \in Workers, SumExpenses(w)
       PROVE  LedgerInv'
    BY <1>1, <1>12, LedgerRead DEF SumExpenses, Finish
<1>13. CASE UNCHANGED ledgerVars
    BY <1>0, <1>13 DEF ledgerVars, LedgerInv, LedgerTypeOK, ReceiptsAreCovered, ApprovedOnce,
                       IdsAreFresh, Holds, Due, Approved
<1>14. QED
    BY <1>2, <1>3, <1>4, <1>5, <1>6, <1>7, <1>8, <1>9, <1>10, <1>11, <1>12, <1>13
    DEF LedgerNext, LedgerRequestArrives, LedgerRequestStep

\* Unless a commit was stale, no invoice is overpaid and none is paid as a
\* draft, and the trail has one approval of each approved invoice and none of a
\* draft: the checks of record_receipt, with those of approve_invoice.
THEOREM BalancesHold == LedgerSpec => []LedgerBalances
<1>1. LedgerInv => LedgerBalances
    BY DEF LedgerInv, ReceiptsAreCovered, ApprovedOnce, LedgerBalances
<1>2. QED
    BY LedgerInvInit, LedgerInvNext, <1>1, PTL DEF LedgerSpec

\* The two first selects of the report, in their order.
LEMMA ReportStep ==
    ASSUME LedgerInv, LedgerNext, NEW w \in Workers, NEW i \in Invoices,
           req[w].op = "ECONOMICS", req[w].at = "receipts", req'[w] # req[w]
    PROVE  req'[w].invoiced[i] - req'[w].receipts[i] <= Due(i) - received[i]
<1>0. /\ LedgerTypeOK /\ received \in [Invoices -> Nat]
      /\ req \in [Workers -> {Idle} \cup LedgerRequest] /\ req[w] \in ReportRequest
      /\ Holds(req[w])
    BY LedgerFields DEF LedgerInv, LedgerTypeOK
<1>1. SumReceived(w)
    BY <1>0 DEF LedgerNext, LedgerRequestArrives, LedgerRequestStep, ChangeCurrency, CreateInvoice,
                ApproveInvoice, RecordReceipt, RecordExpense, ViewEconomics, CommitInvoice,
                CommitApproval, SumReceipts, CommitReceipt, SumInvoices, SumReceived, SumExpenses,
                Begin, Finish, Idle
<1>2. req'[w] = [req[w] EXCEPT !.at = "expenses", !.receipts = received]
    BY <1>0, <1>1 DEF SumReceived
<1>3. req'[w].invoiced = req[w].invoiced /\ req'[w].receipts = received
    BY <1>0, <1>2 DEF ReportRequest
<1>4. req[w].invoiced[i] \in Nat /\ req[w].invoiced[i] <= Due(i)
    BY <1>0 DEF ReportRequest, Holds
<1>5. Due(i) \in Nat /\ received[i] \in Nat
    BY <1>0, DueIsNat
<1>6. QED
    BY <1>3, <1>4, <1>5

\* The report never overstates what is outstanding, whatever commits between
\* its selects.
THEOREM ReportsAreCautious == LedgerSpec => ReportIsCautious
<1>1. LedgerInv /\ [LedgerNext]_ledgerVars
      => [\A w \in Workers :
              req[w].op = "ECONOMICS" /\ req[w].at = "receipts" /\ req'[w] # req[w]
              => \A i \in Invoices :
                    req'[w].invoiced[i] - req'[w].receipts[i] <= Due(i) - received[i]]_ledgerVars
    BY ReportStep
<1>2. QED
    BY LedgerInvInit, LedgerInvNext, <1>1, PTL DEF LedgerSpec, ReportIsCautious

\* Every invoice and every request of the ledger has its type.
THEOREM LedgerTypesAreKept == LedgerSpec => []LedgerTypeOK
<1>1. LedgerInv => LedgerTypeOK
    BY DEF LedgerInv
<1>2. QED
    BY LedgerInvInit, LedgerInvNext, <1>1, PTL DEF LedgerSpec

-----------------------------------------------------------------------------
(* Staff master.                                                           *)

\* The links of a row lead to designations that are there and fit.
Fits(row) ==
    row.designation # None =>
        /\ designation[row.designation] # NoRow
        /\ row.department # None => designation[row.designation].department \in {None, row.department}

\* An update writes links that fit and the next version of the row it loaded.
UpdateFits(r) ==
    r.op = "UPDATE_STAFF" => profile # NoRow /\ Fits(r.to) /\ r.to.version = r.row.version + 1

StaffInv ==
    /\ StaffTypeOK
    /\ \A w \in Workers : UpdateFits(req[w])
    /\ profile = NoRow => updates = 0
    /\ ~stale /\ profile # NoRow => Fits(profile) /\ profile.version = updates + 1

LEMMA StaffFields ==
    /\ \A row \in ProfileRow :
          /\ row # NoRow /\ row.version \in Nat
          /\ row.designation \in Designations \cup {None} /\ row.department \in Departments \cup {None}
          /\ DOMAIN row = {"department", "designation", "version"}
    /\ \A r \in {Idle} \cup StaffRequest :
          /\ r.op = "ADD_DESIGNATION" =>
                r.designation \in Designations /\ r.department \in Departments \cup {None}
          /\ r.op = "UPDATE_STAFF" => r.row \in ProfileRow /\ r.to \in ProfileRow
<1>1. \A row \in ProfileRow :
          /\ row # NoRow /\ row.version \in Nat
          /\ row.designation \in Designations \cup {None} /\ row.department \in Departments \cup {None}
          /\ DOMAIN row = {"department", "designation", "version"}
    BY DEF ProfileRow, NoRow
<1>2. QED
    BY <1>1 DEF StaffRequest, Idle

LEMMA StaffInvInit == StaffInit => StaffInv
<1> SUFFICES ASSUME StaffInit PROVE StaffInv
    OBVIOUS
<1>1. StaffTypeOK
    BY DEF StaffInit, StaffTypeOK
<1>2. \A w \in Workers : UpdateFits(req[w])
    BY DEF StaffInit, UpdateFits, Idle
<1>3. QED
    BY <1>1, <1>2 DEF StaffInit, StaffInv

\* A step that changes no row and leaves worker w with request r.
LEMMA StaffRead ==
    ASSUME StaffInv, NEW w \in Workers, NEW r \in {Idle} \cup StaffRequest,
           req' = [req EXCEPT ![w] = r], UNCHANGED staffTables, UpdateFits(r)
    PROVE  StaffInv'
<1>1. StaffTypeOK' /\ designation' = designation /\ profile' = profile /\ stale' = stale /\ updates' = updates
    BY DEF StaffInv, StaffTypeOK, staffTables
<1>2. \A v \in Workers : req'[v] = IF v = w THEN r ELSE req[v]
    BY DEF StaffInv, StaffTypeOK
<1>3. \A v \in Workers : UpdateFits(req[v])'
    BY <1>1, <1>2 DEF StaffInv, UpdateFits, Fits
<1>4. QED
    BY <1>1, <1>3 DEF StaffInv, Fits

\* Designations are only added, so what fits goes on fitting.
LEMMA FitsStays ==
    ASSUME StaffInv,
           designation' \in [Designations -> [department : Departments \cup {None}] \cup {NoRow}],
           \A g \in Designations : designation[g] # NoRow => designation'[g] = designation[g],
           NEW row \in ProfileRow, Fits(row)
    PROVE  Fits(row)'
    BY StaffFields DEF Fits

LEMMA StaffInvNext == StaffInv /\ [StaffNext]_staffVars => StaffInv'
<1> SUFFICES ASSUME StaffInv, [StaffNext]_staffVars PROVE StaffInv'
    OBVIOUS
<1>0. /\ departments \subseteq Departments
      /\ designation \in [Designations -> [department : Departments \cup {None}] \cup {NoRow}]
      /\ profile \in ProfileRow \cup {NoRow} /\ updates \in Nat
      /\ req \in [Workers -> {Idle} \cup StaffRequest] /\ stale \in BOOLEAN
    BY DEF StaffInv, StaffTypeOK
<1>1. ASSUME NEW w \in Workers, NEW d \in Departments, CreateDepartment(w, d)
      PROVE  StaffInv'
    BY <1>0, <1>1 DEF CreateDepartment, StaffInv, StaffTypeOK, UpdateFits, Fits
<1>2. ASSUME NEW w \in Workers, NEW d \in Departments \cup {None}, NEW g \in Designations,
             CreateDesignation(w, g, d)
      PROVE  StaffInv'
  <2> DEFINE r == [op |-> "ADD_DESIGNATION", designation |-> g, department |-> d]
  <2>1. r \in StaffRequest /\ UpdateFits(r)
      BY DEF StaffRequest, UpdateFits
  <2>2. QED
      BY <1>2, <2>1, StaffRead DEF CreateDesignation, Begin
<1>3. ASSUME NEW w \in Workers, CommitDesignation(w)
      PROVE  StaffInv'
  <2> DEFINE r == req[w]
  <2>1. r.designation \in Designations /\ r.department \in Departments \cup {None}
      BY <1>0, <1>3, StaffFields DEF CommitDesignation
  <2>2. [department |-> r.department] \in [department : Departments \cup {None}]
      BY <2>1
  <2>3. /\ designation' \in [Designations -> [department : Departments \cup {None}] \cup {NoRow}]
        /\ \A g \in Designations : designation[g] # NoRow => designation'[g] = designation[g]
      BY <1>0, <1>3, <2>1, <2>2 DEF CommitDesignation
  <2>4. StaffTypeOK'
      BY <1>0, <1>3, <2>3 DEF CommitDesignation, Finish, StaffTypeOK
  <2>5. profile' = profile /\ updates' = updates /\ stale' = stale
      BY <1>3 DEF CommitDesignation
  <2>6. \A v \in Workers : UpdateFits(req[v])'
    <3> SUFFICES ASSUME NEW v \in Workers, req'[v].op = "UPDATE_STAFF" PROVE UpdateFits(req[v])'
        BY DEF UpdateFits
    <3>1. req'[v] = req[v]
        BY <1>0, <1>3 DEF CommitDesignation, Finish, Idle
    <3>2. req[v].to \in ProfileRow /\ Fits(req[v].to)
        BY <1>0, <3>1, StaffFields DEF StaffInv, UpdateFits
    <3>3. designation \in [Designations -> [department : Departments \cup {None}] \cup {NoRow}] /\ StaffInv
        BY <1>0
    <3>4. PICK to \in ProfileRow : to = req[v].to
        BY <3>2
    <3>5. Fits(to)'
        BY <2>3, <3>2, <3>3, <3>4, FitsStays
    <3>6. QED
        BY <2>5, <3>1, <3>4, <3>5 DEF StaffInv, UpdateFits, Fits
  <2>7. ~stale' /\ profile' # NoRow => Fits(profile)' /\ profile'.version = updates' + 1
    <3> SUFFICES ASSUME ~stale', profile' # NoRow
                 PROVE  Fits(profile)' /\ profile'.version = updates' + 1
        OBVIOUS
    <3>1. PICK row \in ProfileRow : row = profile
        BY <1>0, <2>5
    <3>2. Fits(row)'
        BY <2>3, <2>5, <3>1, FitsStays DEF StaffInv
    <3>3. QED
        BY <2>5, <3>1, <3>2 DEF StaffInv, Fits
  <2>8. QED
      BY <2>4, <2>5, <2>6, <2>7 DEF StaffInv
<1>4. ASSUME NEW w \in Workers, NEW d \in Departments \cup {None}, NEW g \in Designations \cup {None},
             CreateStaff(w, d, g)
      PROVE  StaffInv'
  <2> DEFINE row == [department |-> d, designation |-> g, version |-> 1]
  <2>1. row \in ProfileRow /\ row.version = 1
      BY DEF ProfileRow
  <2>2. Fits(row)
      BY <1>4 DEF CreateStaff, LinksAreValid, Fits
  <2>3. profile' = row /\ designation' = designation /\ updates' = updates /\ stale' = stale
      BY <1>4 DEF CreateStaff
  <2>3a. req' = req /\ departments' = departments
      BY <1>4 DEF CreateStaff
  <2> HIDE DEF row
  <2>4. StaffTypeOK'
      BY <1>0, <2>1, <2>3, <2>3a DEF StaffTypeOK
  <2>5. \A v \in Workers : UpdateFits(req[v])'
      BY <1>4, <2>1, <2>3, <2>3a, StaffFields DEF StaffInv, UpdateFits, Fits
  <2>6. updates = 0 /\ row # NoRow
      BY <1>4, <2>1, StaffFields DEF CreateStaff, StaffInv
  <2>7. Fits(profile)'
      BY <2>2, <2>3 DEF Fits
  <2>8. QED
      BY <2>1, <2>3, <2>4, <2>5, <2>6, <2>7 DEF StaffInv
<1>5. ASSUME NEW w \in Workers, NEW d \in Departments \cup {None}, NEW g \in Designations \cup {None},
             UpdateStaff(w, d, g)
      PROVE  StaffInv'
  <2> DEFINE to == [department |-> d, designation |-> g, version |-> profile.version + 1]
             r == [op |-> "UPDATE_STAFF", row |-> profile, to |-> to]
  <2>1. profile \in ProfileRow /\ profile.version \in Nat
      BY <1>0, <1>5, StaffFields DEF UpdateStaff
  <2>2. to \in ProfileRow
      BY <2>1 DEF ProfileRow
  <2>3. r \in StaffRequest
      BY <2>1, <2>2 DEF StaffRequest
  <2>4. Fits(to)
      BY <1>5 DEF UpdateStaff, LinksAreValid, Fits
  <2>5. UpdateFits(r)
      BY <1>5, <2>4 DEF UpdateFits, UpdateStaff
  <2>6. QED
      BY <1>5, <2>3, <2>5, StaffRead DEF UpdateStaff, Begin
<1>6. ASSUME NEW w \in Workers, CommitStaff(w)
      PROVE  StaffInv'
  <2> DEFINE r == req[w]
  <2>1. /\ r.row \in ProfileRow /\ r.to \in ProfileRow /\ profile \in ProfileRow
        /\ Fits(r.to) /\ r.to.version = r.row.version + 1
      BY <1>0, <1>6, StaffFields DEF CommitStaff, StaffInv, UpdateFits
  <2> DEFINE next == [c \in DOMAIN profile |-> Column(profile[c], r.row[c], r.to[c])]
  <2>2. next \in ProfileRow
    <3>1. next = [department |-> Column(profile.department, r.row.department, r.to.department),
                  designation |-> Column(profile.designation, r.row.designation, r.to.designation),
                  version |-> Column(profile.version, r.row.version, r.to.version)]
        BY <2>1, StaffFields
    <3>2. QED
        BY <2>1, <3>1, StaffFields DEF Column, ProfileRow
  <2>3. ASSUME profile = r.row PROVE next = r.to
    <3>1. DOMAIN r.to = DOMAIN profile /\ \A c \in DOMAIN profile : next[c] = r.to[c]
        BY <2>1, <2>3, StaffFields DEF Column
    <3>2. r.to = [c \in DOMAIN profile |-> r.to[c]]
        BY <2>1, <3>1 DEF ProfileRow
    <3>3. QED
        BY <3>1, <3>2
  <2>4. /\ profile' = next /\ updates' = updates + 1 /\ stale' = (stale \/ profile # r.row)
        /\ req' = [req EXCEPT ![w] = Idle] /\ designation' = designation /\ departments' = departments
      BY <1>6 DEF CommitStaff, Finish
  <2> HIDE DEF next
  <2>5. StaffTypeOK'
      BY <1>0, <2>2, <2>4 DEF StaffTypeOK
  <2>6. \A v \in Workers : UpdateFits(req[v])'
      BY <1>0, <2>2, <2>4, StaffFields DEF StaffInv, UpdateFits, Fits, Idle
  <2>7. ~stale' => Fits(profile)' /\ profile'.version = updates' + 1
      BY <2>1, <2>3, <2>4, StaffFields DEF StaffInv, Fits
  <2>8. profile' # NoRow
      BY <2>2, <2>4, StaffFields
  <2>9. QED
      BY <2>5, <2>6, <2>7, <2>8 DEF StaffInv
<1>7. CASE UNCHANGED staffVars
    BY <1>7 DEF staffVars, StaffInv, StaffTypeOK, UpdateFits, Fits
<1>8. QED
    BY <1>1, <1>2, <1>3, <1>4, <1>5, <1>6, <1>7 DEF StaffNext

\* The rows of the staff master have their types.
THEOREM StaffTypesAreKept == StaffSpec => []StaffTypeOK
<1>1. StaffInv => StaffTypeOK
    BY DEF StaffInv
<1>2. QED
    BY StaffInvInit, StaffInvNext, <1>1, PTL DEF StaffSpec

\* _validate_links is enough although it runs before the commit: no two links
\* that do not fit are ever combined by updates that rest on the current row.
THEOREM LinksFitTogether == StaffSpec => []StaffFitsTogether
<1>1. StaffInv => StaffFitsTogether
    BY DEF StaffInv, StaffFitsTogether, Fits
<1>2. QED
    BY StaffInvInit, StaffInvNext, <1>1, PTL DEF StaffSpec


-----------------------------------------------------------------------------
(* Operations.                                                             *)

\* A delivery has found its notification pending, and no notification is ever
\* removed.
DeliveryIsPending(r) ==
    r.op = "DELIVER" => r.row = "PENDING" /\ notification[r.notification] # "NONE"

OperationsInv ==
    /\ OperationsTypeOK
    /\ \A w \in Workers : DeliveryIsPending(req[w])
    /\ EventsTellTheRows

LEMMA OperationsFields ==
    \A r \in {Idle} \cup OperationsRequest :
        /\ r.op = "DELIVER" => r.notification \in Notifications
        /\ r.op = "CHECK" => r.key \in CheckKeys /\ r.row \in Verdict \cup {"NONE"} /\ r.to \in Verdict
        /\ r.op = "VERIFY" => r.reference \in References
    BY DEF OperationsRequest, Idle

LEMMA OperationsInvInit == OperationsInit => OperationsInv
<1> SUFFICES ASSUME OperationsInit PROVE OperationsInv
    OBVIOUS
<1>1. OperationsTypeOK
  <2>1. verified \in Seq(References) /\ req \in [Workers -> {Idle} \cup OperationsRequest]
      BY DEF OperationsInit
  <2>2. QED
      BY <2>1 DEF OperationsInit, OperationsTypeOK
<1>2. \A w \in Workers : DeliveryIsPending(req[w])
    BY DEF OperationsInit, DeliveryIsPending, Idle
<1>3. EventsTellTheRows
    BY DEF OperationsInit, EventsTellTheRows
<1>4. QED
    BY <1>1, <1>2, <1>3 DEF OperationsInv

\* A step that changes no row and leaves worker w with request r.
LEMMA OperationsRead ==
    ASSUME OperationsInv, NEW w \in Workers, NEW r \in {Idle} \cup OperationsRequest,
           req' = [req EXCEPT ![w] = r], UNCHANGED operationsTables, DeliveryIsPending(r)
    PROVE  OperationsInv'
<1>0. UNCHANGED <<notification, deliveries, check, verdict, verified, stale>>
    BY DEF operationsTables
<1>1. OperationsTypeOK'
    BY <1>0 DEF OperationsInv, OperationsTypeOK
<1>2. EventsTellTheRows'
    BY <1>0 DEF OperationsInv, EventsTellTheRows
<1>3. \A v \in Workers : req'[v] = IF v = w THEN r ELSE req[v]
    BY DEF OperationsInv, OperationsTypeOK
<1>4. \A v \in Workers : DeliveryIsPending(req[v])'
    BY <1>0, <1>3 DEF OperationsInv, DeliveryIsPending
<1>5. QED
    BY <1>1, <1>2, <1>4 DEF OperationsInv

LEMMA OperationsInvNext == OperationsInv /\ [OperationsNext]_operationsVars => OperationsInv'
<1> SUFFICES ASSUME OperationsInv, [OperationsNext]_operationsVars PROVE OperationsInv'
    OBVIOUS
<1>0. /\ notification \in [Notifications -> {"NONE", "PENDING", "DELIVERED"}]
      /\ deliveries \in [Notifications -> Nat]
      /\ check \in [CheckKeys -> Verdict \cup {"NONE"}] /\ verdict \in [CheckKeys -> Verdict \cup {"NONE"}]
      /\ verified \in Seq(References)
      /\ req \in [Workers -> {Idle} \cup OperationsRequest] /\ stale \in BOOLEAN
    BY DEF OperationsInv, OperationsTypeOK
<1>1. ASSUME NEW w \in Workers, NEW n \in Notifications, CreateNotification(w, n)
      PROVE  OperationsInv'
  <2>1. OperationsTypeOK' /\ EventsTellTheRows'
      BY <1>0, <1>1 DEF CreateNotification, OperationsInv, OperationsTypeOK, EventsTellTheRows
  <2>2. \A v \in Workers : DeliveryIsPending(req[v])'
      BY <1>0, <1>1, OperationsFields DEF CreateNotification, OperationsInv, DeliveryIsPending
  <2>3. QED
      BY <2>1, <2>2 DEF OperationsInv
<1>2. ASSUME NEW w \in Workers, NEW n \in Notifications, DeliverNotification(w, n)
      PROVE  OperationsInv'
  <2> DEFINE r == [op |-> "DELIVER", notification |-> n, row |-> notification[n]]
  <2>1. r \in OperationsRequest /\ DeliveryIsPending(r)
      BY <1>2 DEF DeliverNotification, OperationsRequest, DeliveryIsPending
  <2>2. QED
      BY <1>2, <2>1, OperationsRead DEF DeliverNotification, Begin
<1>3. ASSUME NEW w \in Workers, CommitDelivery(w)
      PROVE  OperationsInv'
  <2> DEFINE n == req[w].notification
  <2>1. n \in Notifications /\ req[w].row = "PENDING"
      BY <1>0, <1>3, OperationsFields DEF CommitDelivery, OperationsInv, DeliveryIsPending
  <2>2. /\ notification' = [notification EXCEPT ![n] = "DELIVERED"]
        /\ deliveries' = [deliveries EXCEPT ![n] = @ + 1]
        /\ stale' = (stale \/ notification[n] # req[w].row)
        /\ req' = [req EXCEPT ![w] = Idle] /\ UNCHANGED <<check, verdict, verified>>
      BY <1>3 DEF CommitDelivery, Finish
  <2>3. OperationsTypeOK'
      BY <1>0, <2>1, <2>2 DEF OperationsTypeOK
  <2>4. EventsTellTheRows'
    <3> SUFFICES ASSUME ~stale' PROVE EventsTellTheRows'
        BY DEF EventsTellTheRows
    <3>1. notification[n] = "PENDING" /\ ~stale
        BY <2>1, <2>2
    <3>2. \A m \in Notifications : /\ notification'[m] = IF m = n THEN "DELIVERED" ELSE notification[m]
                                   /\ deliveries'[m] = IF m = n THEN deliveries[m] + 1 ELSE deliveries[m]
        BY <1>0, <2>1, <2>2
    <3>3. QED
        BY <1>0, <2>1, <2>2, <3>1, <3>2 DEF OperationsInv, EventsTellTheRows
  <2>5. \A v \in Workers : DeliveryIsPending(req[v])'
      BY <1>0, <2>1, <2>2, OperationsFields DEF OperationsInv, DeliveryIsPending, Idle
  <2>6. QED
      BY <2>3, <2>4, <2>5 DEF OperationsInv
<1>4. ASSUME NEW w \in Workers, NEW k \in CheckKeys, NEW to \in Verdict, UpsertCheck(w, k, to)
      PROVE  OperationsInv'
  <2> DEFINE r == [op |-> "CHECK", key |-> k, row |-> check[k], to |-> to]
  <2>1. r \in OperationsRequest /\ DeliveryIsPending(r)
      BY <1>0 DEF OperationsRequest, DeliveryIsPending
  <2>2. QED
      BY <1>4, <2>1, OperationsRead DEF UpsertCheck, Begin
<1>5. ASSUME NEW w \in Workers, CommitCheck(w)
      PROVE  OperationsInv'
  <2> DEFINE r == req[w]
  <2>1. r.key \in CheckKeys /\ r.row \in Verdict \cup {"NONE"} /\ r.to \in Verdict
      BY <1>0, <1>5, OperationsFields DEF CommitCheck
  <2>2. req' = [req EXCEPT ![w] = Idle] /\ DeliveryIsPending(Idle)
      BY <1>5 DEF CommitCheck, Finish, DeliveryIsPending, Idle
  <2>3. CASE UNCHANGED operationsTables
      BY <2>2, <2>3, OperationsRead
  <2>4. CASE /\ check' = [check EXCEPT ![r.key] = Column(@, r.row, r.to)]
             /\ verdict' = [verdict EXCEPT ![r.key] = r.to]
             /\ stale' = (stale \/ check[r.key] # r.row)
             /\ UNCHANGED <<notification, deliveries, verified>>
    <3>1. OperationsTypeOK'
        BY <1>0, <2>1, <2>2, <2>4 DEF OperationsTypeOK, Column
    <3>2. EventsTellTheRows'
        BY <1>0, <2>1, <2>4 DEF OperationsInv, EventsTellTheRows, Column
    <3>3. \A v \in Workers : DeliveryIsPending(req[v])'
        BY <1>0, <2>2, <2>4 DEF OperationsInv, DeliveryIsPending
    <3>4. QED
        BY <3>1, <3>2, <3>3 DEF OperationsInv
  <2>5. QED
      BY <1>5, <2>3, <2>4 DEF CommitCheck
<1>6. ASSUME NEW w \in Workers, NEW ref \in References, VerifyBackup(w, ref)
      PROVE  OperationsInv'
  <2> DEFINE r == [op |-> "VERIFY", reference |-> ref]
  <2>1. r \in OperationsRequest /\ DeliveryIsPending(r)
      BY DEF OperationsRequest, DeliveryIsPending
  <2>2. QED
      BY <1>6, <2>1, OperationsRead DEF VerifyBackup, Begin
<1>7. ASSUME NEW w \in Workers, CommitVerification(w)
      PROVE  OperationsInv'
  <2>1. req[w].reference \in References
      BY <1>0, <1>7, OperationsFields DEF CommitVerification
  <2>2. req' = [req EXCEPT ![w] = Idle] /\ verified' \in Seq(References)
      BY <1>0, <1>7, <2>1 DEF CommitVerification, Finish
  <2>3. UNCHANGED <<notification, deliveries, check, verdict, stale>>
      BY <1>7 DEF CommitVerification
  <2>4. OperationsTypeOK' /\ EventsTellTheRows'
      BY <1>0, <2>2, <2>3 DEF OperationsInv, OperationsTypeOK, EventsTellTheRows
  <2>5. \A v \in Workers : DeliveryIsPending(req[v])'
      BY <1>0, <2>2, <2>3 DEF OperationsInv, DeliveryIsPending, Idle
  <2>6. QED
      BY <2>4, <2>5 DEF OperationsInv
<1>8. CASE UNCHANGED operationsVars
    BY <1>8 DEF operationsVars, OperationsInv, OperationsTypeOK, DeliveryIsPending, EventsTellTheRows
<1>9. QED
    BY <1>1, <1>2, <1>3, <1>4, <1>5, <1>6, <1>7, <1>8 DEF OperationsNext

\* The events of the operations router tell what its rows show: a second
\* delivery of a notification, or a second insert of a check, rests on a row
\* that another request has replaced.
THEOREM OperationsEventsAgree == OperationsSpec => []EventsTellTheRows
<1>1. OperationsInv => EventsTellTheRows
    BY DEF OperationsInv
<1>2. QED
    BY OperationsInvInit, OperationsInvNext, <1>1, PTL DEF OperationsSpec

\* The rows of the operations tables have their types.
THEOREM OperationsTypesAreKept == OperationsSpec => []OperationsTypeOK
<1>1. OperationsInv => OperationsTypeOK
    BY DEF OperationsInv
<1>2. QED
    BY OperationsInvInit, OperationsInvNext, <1>1, PTL DEF OperationsSpec


-----------------------------------------------------------------------------
(* Workforce.                                                              *)

Life == <<"DRAFT", "SUBMITTED", "APPROVED", "LOCKED">>

\* A move is an allowed one from the row it loaded, which is still there.
MoveIsAllowed(r) ==
    /\ "op" \in DOMAIN r
    /\ r.op = "MOVE_WORKLOG" => /\ r \in MoveRequest
                                /\ worklog[r.worklog] # NoRow
                                /\ r.target \in Allowed[r.row.status]

\* The worklog with its events has come as far as the n-th step of its life.
AtStep(row, told, n) ==
    /\ told = [k \in 1 .. n |-> Life[k + 1]]
    /\ row.status = Life[n + 1] /\ row.version = n + 1

WorklogsInv ==
    /\ worklog \in [Worklogs -> WorklogRow \cup {NoRow}]
    /\ moves \in [Worklogs -> Seq(WorklogStatus)]
    /\ req = [w \in Workers |-> req[w]]
    /\ stale \in BOOLEAN
    /\ \A w \in Workers : MoveIsAllowed(req[w])
    /\ \A l \in Worklogs : worklog[l] = NoRow => moves[l] = <<>>
    /\ ~stale => \A l \in Worklogs :
                    worklog[l] # NoRow => \E n \in 0 .. 3 : AtStep(worklog[l], moves[l], n)

LEMMA WorklogFields ==
    /\ \A row \in WorklogRow :
          row # NoRow /\ row.minutes \in Minutes /\ row.status \in WorklogStatus /\ row.version \in Nat
    /\ \A r \in MoveRequest :
          /\ r.op = "MOVE_WORKLOG" /\ r # Idle
          /\ r.worklog \in Worklogs /\ r.row \in WorklogRow /\ r.target \in WorklogStatus
    BY DEF WorklogRow, NoRow, MoveRequest, Idle

LEMMA StatusesOfWorklogs == WorklogStatus = {"DRAFT", "SUBMITTED", "APPROVED", "LOCKED"}
    BY DEF WorklogStatus, Allowed

\* The table of transitions allows the next step of the life and no other.
LEMMA OneStepForward ==
    ASSUME NEW n \in 0 .. 3, NEW target \in Allowed[Life[n + 1]]
    PROVE  n + 1 \in 0 .. 3 /\ target = Life[n + 2]
<1>1. n = 0 \/ n = 1 \/ n = 2 \/ n = 3
    OBVIOUS
<1>2. /\ Life[1] = "DRAFT" /\ Life[2] = "SUBMITTED" /\ Life[3] = "APPROVED" /\ Life[4] = "LOCKED"
      /\ Allowed["DRAFT"] = {"SUBMITTED"} /\ Allowed["SUBMITTED"] = {"APPROVED"}
      /\ Allowed["APPROVED"] = {"LOCKED"} /\ Allowed["LOCKED"] = {}
    BY DEF Life, Allowed
<1>3. CASE n = 0
    BY <1>2, <1>3
<1>4. CASE n = 1
    BY <1>2, <1>4
<1>5. CASE n = 2
    BY <1>2, <1>5
<1>6. CASE n = 3
    BY <1>2, <1>6
<1>7. QED
    BY <1>1, <1>3, <1>4, <1>5, <1>6

LEMMA WorklogsInvInit == WorkforceInit => WorklogsInv
<1> SUFFICES ASSUME WorkforceInit PROVE WorklogsInv
    OBVIOUS
<1>1. \A w \in Workers : MoveIsAllowed(req[w])
    BY DEF WorkforceInit, MoveIsAllowed, Idle
<1>2. moves \in [Worklogs -> Seq(WorklogStatus)]
    BY DEF WorkforceInit
<1>3. QED
    BY <1>1, <1>2 DEF WorkforceInit, WorklogsInv

\* A step that leaves the worklogs alone and worker w with request r.
LEMMA WorklogsRead ==
    ASSUME WorklogsInv, NEW w \in Workers, NEW r, req' = [req EXCEPT ![w] = r],
           UNCHANGED <<worklog, moves, stale>>, MoveIsAllowed(r)
    PROVE  WorklogsInv'
<1>1. \A v \in Workers : req'[v] = IF v = w THEN r ELSE req[v]
    BY DEF WorklogsInv
<1>2. req' = [v \in Workers |-> req'[v]]
    BY DEF WorklogsInv
<1>3. \A v \in Workers : MoveIsAllowed(req[v])'
    BY <1>1 DEF WorklogsInv, MoveIsAllowed
<1>4. QED
    BY <1>2, <1>3 DEF WorklogsInv, AtStep

LEMMA WorklogsInvNext == WorklogsInv /\ [WorkforceNext]_workforceVars => WorklogsInv'
<1> SUFFICES ASSUME WorklogsInv, [WorkforceNext]_workforceVars PROVE WorklogsInv'
    OBVIOUS
<1>0. /\ worklog \in [Worklogs -> WorklogRow \cup {NoRow}]
      /\ moves \in [Worklogs -> Seq(WorklogStatus)]
      /\ req = [w \in Workers |-> req[w]] /\ stale \in BOOLEAN
    BY DEF WorklogsInv
<1>a. ASSUME UNCHANGED <<worklog, moves, req, stale>> PROVE WorklogsInv'
    BY <1>a DEF WorklogsInv, MoveIsAllowed, AtStep
<1>b. MoveIsAllowed(Idle)
    BY DEF MoveIsAllowed, Idle
<1>1. ASSUME NEW w \in Workers, CreateAttendance(w)
      PROVE  WorklogsInv'
    BY <1>1, <1>a DEF CreateAttendance
<1>2. ASSUME NEW w \in Workers, NEW t \in LeaveTypes, NEW row \in LeaveRow, CreateLeave(w, t, row)
      PROVE  WorklogsInv'
    BY <1>2, <1>a DEF CreateLeave
<1>3. ASSUME NEW w \in Workers, NEW s \in Sources, NEW minutes \in Minutes, CreateAssignment(w, s, minutes)
      PROVE  WorklogsInv'
    BY <1>3, <1>a DEF CreateAssignment
<1>4. ASSUME NEW w \in Workers, NEW l \in Worklogs, NEW minutes \in Minutes, CreateWorklog(w, l, minutes)
      PROVE  WorklogsInv'
  <2> DEFINE row == [minutes |-> minutes, status |-> "DRAFT", version |-> 1]
  <2>1. row \in WorklogRow /\ row # NoRow
      BY StatusesOfWorklogs, WorklogFields DEF WorklogRow
  <2>2. worklog' = [worklog EXCEPT ![l] = row] /\ worklog[l] = NoRow /\ UNCHANGED <<moves, req, stale>>
      BY <1>4 DEF CreateWorklog
  <2>3. moves[l] = <<>>
      BY <2>2 DEF WorklogsInv
  <2>4. AtStep(row, moves[l], 0)
    <3>1. <<>> = [k \in 1 .. 0 |-> Life[k + 1]]
        OBVIOUS
    <3>2. QED
        BY <2>3, <3>1 DEF AtStep, Life
  <2> HIDE DEF row
  <2>5. \A m \in Worklogs : worklog'[m] = IF m = l THEN row ELSE worklog[m]
      BY <1>0, <2>2
  <2>6. \A v \in Workers : MoveIsAllowed(req[v])'
      BY <2>1, <2>2, <2>5, WorklogFields DEF WorklogsInv, MoveIsAllowed
  <2>7. worklog' \in [Worklogs -> WorklogRow \cup {NoRow}]
      BY <1>0, <2>1, <2>2
  <2>8. \A m \in Worklogs : worklog'[m] = NoRow => moves'[m] = <<>>
      BY <2>1, <2>2, <2>5 DEF WorklogsInv
  <2>9. ASSUME ~stale', NEW m \in Worklogs, worklog'[m] # NoRow
        PROVE  \E n \in 0 .. 3 : AtStep(worklog[m], moves[m], n)'
    <3>1. CASE m = l
        BY <2>2, <2>4, <2>5, <3>1 DEF AtStep
    <3>2. CASE m # l
        BY <2>2, <2>5, <2>9, <3>2 DEF WorklogsInv, AtStep
    <3>3. QED
        BY <3>1, <3>2
  <2>10. QED
      BY <1>0, <2>2, <2>6, <2>7, <2>8, <2>9 DEF WorklogsInv
<1>5. ASSUME NEW w \in Workers, NEW l \in Worklogs, NEW target \in WorklogStatus, MoveWorklog(w, l, target)
      PROVE  WorklogsInv'
  <2> DEFINE r == [op |-> "MOVE_WORKLOG", worklog |-> l, row |-> worklog[l], target |-> target]
  <2>1. r \in MoveRequest
      BY <1>0, <1>5 DEF MoveWorklog, MoveRequest
  <2>2. MoveIsAllowed(r)
      BY <1>5, <2>1 DEF MoveWorklog, MoveIsAllowed
  <2>3. QED
      BY <1>5, <2>2, WorklogsRead DEF MoveWorklog, Begin, workforceTables
<1>6. ASSUME NEW w \in Workers, ViewCapacity(w)
      PROVE  WorklogsInv'
  <2> DEFINE r == [op |-> "CAPACITY", at |-> "leave", leave |-> 0, assigned |-> 0]
  <2>1. MoveIsAllowed(r)
      BY DEF MoveIsAllowed
  <2>2. QED
      BY <1>6, <2>1, WorklogsRead DEF ViewCapacity, Begin, workforceTables
<1>7. ASSUME NEW w \in Workers, SumLeave(w)
      PROVE  WorklogsInv'
  <2> DEFINE r == [req[w] EXCEPT !.at = "assigned", !.leave = ApprovedLeave]
  <2>1. "op" \in DOMAIN r /\ r.op = "CAPACITY"
      BY <1>7 DEF SumLeave, WorklogsInv, MoveIsAllowed
  <2>2. MoveIsAllowed(r)
      BY <2>1 DEF MoveIsAllowed
  <2>3. req' = [req EXCEPT ![w] = r]
      BY <1>0, <1>7 DEF SumLeave
  <2>4. QED
      BY <1>7, <2>2, <2>3, WorklogsRead DEF SumLeave, workforceTables
<1>8. ASSUME NEW w \in Workers, SumAssigned(w)
      PROVE  WorklogsInv'
  <2> DEFINE r == [req[w] EXCEPT !.at = "logged", !.assigned = Assigned]
  <2>1. "op" \in DOMAIN r /\ r.op = "CAPACITY"
      BY <1>8 DEF SumAssigned, WorklogsInv, MoveIsAllowed
  <2>2. MoveIsAllowed(r)
      BY <2>1 DEF MoveIsAllowed
  <2>3. req' = [req EXCEPT ![w] = r]
      BY <1>0, <1>8 DEF SumAssigned
  <2>4. QED
      BY <1>8, <2>2, <2>3, WorklogsRead DEF SumAssigned, workforceTables
<1>9. ASSUME NEW w \in Workers, SumLogged(w)
      PROVE  WorklogsInv'
    BY <1>9, <1>b, WorklogsRead DEF SumLogged, Finish, workforceTables
<1>10. ASSUME NEW w \in Workers, CommitWorklog(w)
      PROVE  WorklogsInv'
  <2> DEFINE r == req[w]
             l == r.worklog
             row == [worklog[l] EXCEPT !.status = r.target, !.version = r.row.version + 1]
             told == Append(moves[l], r.target)
  <2>1. r \in MoveRequest /\ worklog[l] # NoRow /\ r.target \in Allowed[r.row.status]
      BY <1>10 DEF CommitWorklog, WorklogsInv, MoveIsAllowed
  <2>2. l \in Worklogs /\ worklog[l] \in WorklogRow /\ r.row \in WorklogRow /\ r.target \in WorklogStatus
      BY <1>0, <2>1, WorklogFields
  <2>3. row \in WorklogRow /\ row.status = r.target /\ row.version = r.row.version + 1
    <3>1. r.row.version + 1 \in Nat
        BY <2>2, WorklogFields
    <3>2. QED
        BY <2>2, <3>1 DEF WorklogRow
  <2>4. /\ worklog' = [worklog EXCEPT ![l] = row] /\ moves' = [moves EXCEPT ![l] = told]
        /\ stale' = (stale \/ worklog[l] # r.row)
        /\ req' = [req EXCEPT ![w] = Idle]
      BY <1>0, <1>10, <2>2 DEF CommitWorklog, Finish
  <2>5. told \in Seq(WorklogStatus)
      BY <1>0, <2>2
  <2>6. ASSUME ~stale' PROVE \E n \in 0 .. 3 : AtStep(row, told, n)
    <3>1. PICK n \in 0 .. 3 : AtStep(worklog[l], moves[l], n)
        BY <1>0, <2>1, <2>2, <2>4, <2>6 DEF WorklogsInv
    <3>2. worklog[l] = r.row
        BY <2>4, <2>6
    <3>3. r.target \in Allowed[Life[n + 1]]
        BY <2>1, <3>1, <3>2 DEF AtStep
    <3>4. n + 1 \in 0 .. 3 /\ r.target = Life[n + 2]
        BY <3>3, OneStepForward
    <3>5. told = [k \in 1 .. n + 1 |-> Life[k + 1]]
      <4>1. Len(moves[l]) = n /\ moves[l] \in Seq(WorklogStatus)
          BY <1>0, <2>2, <3>1 DEF AtStep
      <4>2. QED
          BY <3>1, <3>4, <4>1 DEF AtStep
    <3>6. row.version = n + 2
        BY <2>3, <3>1, <3>2 DEF AtStep
    <3>7. AtStep(row, told, n + 1)
        BY <2>3, <3>4, <3>5, <3>6 DEF AtStep
    <3>8. QED
        BY <3>4, <3>7
  <2> HIDE DEF row, told
  <2>7. /\ \A m \in Worklogs : worklog'[m] = IF m = l THEN row ELSE worklog[m]
        /\ \A m \in Worklogs : moves'[m] = IF m = l THEN told ELSE moves[m]
        /\ \A v \in Workers : req'[v] = IF v = w THEN Idle ELSE req[v]
      BY <1>0, <2>2, <2>4
  <2>8. row # NoRow /\ (~stale' => ~stale)
      BY <2>3, <2>4, WorklogFields
  <2>9. \A v \in Workers : MoveIsAllowed(req[v])'
      BY <1>b, <2>7, <2>8, WorklogFields DEF WorklogsInv, MoveIsAllowed
  <2>10. ASSUME ~stale', NEW m \in Worklogs, worklog'[m] # NoRow
        PROVE  \E n \in 0 .. 3 : AtStep(worklog[m], moves[m], n)'
    <3>1. CASE m = l
        BY <2>6, <2>7, <2>10, <3>1 DEF AtStep
    <3>2. CASE m # l
        BY <2>7, <2>8, <2>10, <3>2 DEF WorklogsInv, AtStep
    <3>3. QED
        BY <3>1, <3>2
  <2>11. /\ worklog' \in [Worklogs -> WorklogRow \cup {NoRow}]
         /\ moves' \in [Worklogs -> Seq(WorklogStatus)]
         /\ req' = [v \in Workers |-> req'[v]] /\ stale' \in BOOLEAN
      BY <1>0, <2>2, <2>3, <2>4, <2>5
  <2>12. \A m \in Worklogs : worklog'[m] = NoRow => moves'[m] = <<>>
      BY <2>7, <2>8 DEF WorklogsInv
  <2>13. QED
      BY <2>9, <2>10, <2>11, <2>12 DEF WorklogsInv
<1>11. CASE UNCHANGED workforceVars
    BY <1>11, <1>a DEF workforceVars
<1>12. QED
    BY <1>1, <1>2, <1>3, <1>4, <1>5, <1>6, <1>7, <1>8, <1>9, <1>10, <1>11
    DEF WorkforceNext, WorkforceRequestArrives, WorkforceRequestStep

\* A worklog goes through its life once and in order, and its events and its
\* version tell so: the loaded row is checked against the table of
\* transitions, and a second move from the same row is stale.
THEOREM WorklogsAreLivedOnce == WorkforceSpec => []WorklogsGoForward
<1>1. WorklogsInv => WorklogsGoForward
  <2> SUFFICES ASSUME WorklogsInv, ~stale, NEW l \in Worklogs
               PROVE  IF worklog[l] = NoRow
                      THEN Len(moves[l]) = 0
                      ELSE /\ Len(moves[l]) < Len(Life)
                           /\ moves[l] = SubSeq(Life, 2, Len(moves[l]) + 1)
                           /\ worklog[l].status = Life[Len(moves[l]) + 1]
                           /\ worklog[l].version = Len(moves[l]) + 1
      BY DEF WorklogsGoForward, Life
  <2>1. CASE worklog[l] = NoRow
      BY <2>1 DEF WorklogsInv
  <2>2. CASE worklog[l] # NoRow
    <3>1. PICK n \in 0 .. 3 : AtStep(worklog[l], moves[l], n)
        BY <2>2 DEF WorklogsInv
    <3>2. Len(moves[l]) = n /\ Len(Life) = 4
        BY <3>1 DEF AtStep, Life
    <3>3. SubSeq(Life, 2, n + 1) = [k \in 1 .. n |-> Life[k + 1]]
        BY <3>2 DEF Life
    <3>4. QED
        BY <2>2, <3>1, <3>2, <3>3 DEF AtStep
  <2>3. QED
      BY <2>1, <2>2
<1>2. QED
    BY WorklogsInvInit, WorklogsInvNext, <1>1, PTL DEF WorkforceSpec

\* A set of naturals that is not empty has a least element: what the proofs
\* by induction below rest on.
LEMMA Least ==
    ASSUME NEW T \in SUBSET Nat, T # {}
    PROVE  \E n \in T : \A m \in T : n <= m
<1> DEFINE R == OpToRel(<, Nat)
<1>1. IsWellFoundedOn(R, Nat)
    BY NatLessThanWellFounded
<1>2. \A x, y \in Nat : <<y, x>> \in R <=> y < x
    BY DEF OpToRel
<1> HIDE DEF R
<1>3. PICK n \in T : \A m \in T : <<m, n>> \notin R
    BY <1>1, WFMin
<1>4. \A m \in T : n \in Nat /\ m \in Nat /\ ~(m < n)
    BY <1>2, <1>3
<1>5. QED
    BY <1>4

\* The element at which the library's fold takes a set apart.
Pick(s) == CHOOSE x \in s : TRUE

Recurs(W, g, s) == g[s] = IF s = {} THEN 0 ELSE W[Pick(s)] + g[s \ {Pick(s)}]

\* The sums of weights W over the parts of S.
PartSums(W, S) == {g \in [SUBSET S -> Nat] : \A s \in SUBSET S : Recurs(W, g, s)}

LEMMA PickIn ==
    ASSUME NEW s, s # {}
    PROVE  Pick(s) \in s
    BY DEF Pick

LEMMA PickedApart ==
    ASSUME NEW s, s # {}, IsFiniteSet(s)
    PROVE  /\ IsFiniteSet(s \ {Pick(s)}) /\ Cardinality(s) \in Nat \ {0}
           /\ Cardinality(s \ {Pick(s)}) = Cardinality(s) - 1
<1>1. Cardinality(s) \in Nat /\ Cardinality(s) # 0
    BY FS_CardinalityType, FS_EmptySet
<1>2. /\ IsFiniteSet(s \ {Pick(s)})
      /\ Cardinality(s \ {Pick(s)}) = Cardinality(s) - 1
    BY PickIn, FS_RemoveElement
<1>3. QED
    BY <1>1, <1>2

\* Two totals agree where their weights do, by induction over the sets.
LEMMA SumsAgree ==
    ASSUME NEW S, IsFiniteSet(S), NEW W, NEW V, \A x \in S : W[x] = V[x],
           NEW g, NEW h, \A s \in SUBSET S : Recurs(W, g, s) /\ Recurs(V, h, s)
    PROVE  \A s \in SUBSET S : g[s] = h[s]
<1> DEFINE Wrong == {Cardinality(s) : s \in {u \in SUBSET S : g[u] # h[u]}}
<1>1. \A s \in SUBSET S : IsFiniteSet(s) /\ Cardinality(s) \in Nat
    BY FS_Subset, FS_CardinalityType
<1>2. SUFFICES ASSUME Wrong # {} PROVE FALSE
    OBVIOUS
<1>3. Wrong \in SUBSET Nat
    BY <1>1
<1>4. PICK n \in Wrong : \A m \in Wrong : n <= m
    BY <1>2, <1>3, Least
<1>5. PICK s \in SUBSET S : g[s] # h[s] /\ Cardinality(s) = n
    BY <1>4
<1>6. Recurs(W, g, s) /\ Recurs(V, h, s) /\ IsFiniteSet(s)
    BY <1>1, <1>5
<1>7. CASE s = {}
    BY <1>5, <1>6, <1>7 DEF Recurs
<1>8. CASE s # {}
  <2> DEFINE u == s \ {Pick(s)}
  <2>1. u \in SUBSET S /\ Pick(s) \in S
      BY <1>8, PickIn
  <2>2. Cardinality(u) = n - 1 /\ n \in Nat /\ Cardinality(u) \in Nat
      BY <1>1, <1>5, <1>6, <1>8, PickedApart, <2>1
  <2>3. Cardinality(u) \notin Wrong
      BY <1>4, <2>2
  <2>4. g[u] = h[u]
      BY <2>1, <2>3
  <2>5. QED
      BY <1>5, <1>6, <1>8, <2>1, <2>4 DEF Recurs
<1>9. QED
    BY <1>7, <1>8

\* There are totals, by induction over the size of the sets added up so far.
LEMMA SumsExist ==
    ASSUME NEW S, IsFiniteSet(S), NEW W, \A x \in S : W[x] \in Nat
    PROVE  \E g : g \in PartSums(W, S)
<1> DEFINE Small(n) == {s \in SUBSET S : Cardinality(s) <= n}
           Some(n) == \E g \in [Small(n) -> Nat] : \A s \in Small(n) : Recurs(W, g, s)
           Wrong == {n \in Nat : ~Some(n)}
<1>1. \A s \in SUBSET S : IsFiniteSet(s) /\ Cardinality(s) \in Nat
    BY FS_Subset, FS_CardinalityType
<1>2. Cardinality(S) \in Nat /\ \A s \in SUBSET S : Cardinality(s) <= Cardinality(S)
    BY FS_CardinalityType, FS_Subset
<1>3. ASSUME NEW n \in Nat, n = 0 \/ Some(n - 1)
      PROVE  Some(n)
  <2>1. CASE n = 0
    <3>1. Small(n) = {{}}
      <4>1. \A s \in SUBSET S : Cardinality(s) <= 0 <=> s = {}
          BY <1>1, FS_EmptySet
      <4>2. QED
          BY <2>1, <4>1
    <3>2. [s \in Small(n) |-> 0] \in [Small(n) -> Nat]
        OBVIOUS
    <3>3. \A s \in Small(n) : Recurs(W, [u \in Small(n) |-> 0], s)
        BY <3>1 DEF Recurs
    <3>4. QED
        BY <3>2, <3>3
  <2>2. CASE n # 0
    <3>1. PICK g \in [Small(n - 1) -> Nat] : \A s \in Small(n - 1) : Recurs(W, g, s)
        BY <1>3, <2>2
    <3> DEFINE Next(s) == IF s = {} THEN 0 ELSE W[Pick(s)] + g[s \ {Pick(s)}]
               h == [s \in Small(n) |-> Next(s)]
    <3>2. ASSUME NEW s \in Small(n), s # {}
          PROVE  s \ {Pick(s)} \in Small(n - 1) /\ W[Pick(s)] \in Nat /\ Pick(s) \in S
        BY <1>1, <3>2, PickedApart, PickIn, <2>2
    <3>3. h \in [Small(n) -> Nat]
        BY <3>2
    <3>4. \A s \in Small(n - 1) : s \in Small(n) /\ h[s] = g[s]
        BY <1>1, <3>1, <2>2 DEF Recurs
    <3>5. ASSUME NEW s \in Small(n)
          PROVE  Recurs(W, h, s)
      <4>1. CASE s = {}
          BY <4>1 DEF Recurs
      <4>2. CASE s # {}
        <5>1. h[s \ {Pick(s)}] = g[s \ {Pick(s)}]
            BY <3>2, <3>4, <4>2
        <5>2. h[s] = W[Pick(s)] + g[s \ {Pick(s)}]
            BY <4>2
        <5>3. QED
            BY <4>2, <5>1, <5>2 DEF Recurs
      <4>3. QED
          BY <4>1, <4>2
    <3>6. QED
        BY <3>3, <3>5
  <2>3. QED
      BY <2>1, <2>2
<1>4. ASSUME Wrong # {}
      PROVE  FALSE
  <2>1. PICK n \in Wrong : \A m \in Wrong : n <= m
      BY <1>4, Least
  <2>2. n \in Nat /\ ~Some(n)
      BY <2>1
  <2>3. n # 0 /\ ~Some(n - 1)
      BY <1>3, <2>2
  <2> HIDE DEF Some
  <2>4. n - 1 \in Nat /\ n - 1 < n
      BY <2>2, <2>3
  <2>5. n - 1 \in Wrong
      BY <2>3, <2>4
  <2>6. n <= n - 1
      BY <2>1, <2>5
  <2>7. QED
      BY <2>2, <2>4, <2>6
<1>5. Some(Cardinality(S))
    BY <1>2, <1>4
<1>6. Small(Cardinality(S)) = SUBSET S
    BY <1>2
<1>7. QED
    BY <1>5, <1>6 DEF PartSums

\* A total is the weight of any of its elements and the total of the others,
\* by induction: the order in which Pick takes them does not matter.
LEMMA TakeOut ==
    ASSUME NEW S, IsFiniteSet(S), NEW W, \A x \in S : W[x] \in Nat, NEW g \in PartSums(W, S)
    PROVE  \A s \in SUBSET S : \A x \in s : g[s] = W[x] + g[s \ {x}]
<1> DEFINE Right(s) == \A x \in s : g[s] = W[x] + g[s \ {x}]
           Wrong == {Cardinality(s) : s \in {u \in SUBSET S : ~Right(u)}}
<1>1. \A s \in SUBSET S : IsFiniteSet(s) /\ Cardinality(s) \in Nat /\ g[s] \in Nat /\ Recurs(W, g, s)
    BY FS_Subset, FS_CardinalityType DEF PartSums
<1>2. SUFFICES ASSUME Wrong # {} PROVE FALSE
    OBVIOUS
<1>3. Wrong \in SUBSET Nat
    BY <1>1
<1>4. PICK n \in Wrong : \A m \in Wrong : n <= m
    BY <1>2, <1>3, Least
<1>5. PICK s \in SUBSET S : ~Right(s) /\ Cardinality(s) = n
    BY <1>4
<1>6. PICK x \in s : g[s] # W[x] + g[s \ {x}]
    BY <1>5
<1> DEFINE c == Pick(s)
<1>7. c \in s /\ g[s] = W[c] + g[s \ {c}] /\ c # x
    BY <1>1, <1>6, PickIn DEF Recurs
<1>8. ASSUME NEW y \in s
      PROVE  s \ {y} \in SUBSET S /\ Right(s \ {y})
  <2>1. s \ {y} \in SUBSET S /\ Cardinality(s \ {y}) = n - 1 /\ n \in Nat
      BY <1>1, <1>5, FS_RemoveElement
  <2>2. Cardinality(s \ {y}) \notin Wrong
      BY <1>1, <1>4, <2>1
  <2>3. QED
      BY <2>1, <2>2
<1>9. g[s \ {c}] = W[x] + g[(s \ {c}) \ {x}]
    BY <1>6, <1>7, <1>8
<1>10. g[s \ {x}] = W[c] + g[(s \ {x}) \ {c}]
    BY <1>6, <1>7, <1>8
<1>11. (s \ {c}) \ {x} = (s \ {x}) \ {c}
    OBVIOUS
<1>12. W[c] \in Nat /\ W[x] \in Nat /\ g[(s \ {x}) \ {c}] \in Nat
    BY <1>1, <1>6, <1>7
<1>13. \A a, b, k \in Nat : a + (b + k) = b + (a + k)
    OBVIOUS
<1>14. g[s] = W[c] + (W[x] + g[(s \ {x}) \ {c}])
    BY <1>7, <1>9, <1>11
<1>15. W[x] + g[s \ {x}] = W[x] + (W[c] + g[(s \ {x}) \ {c}])
    BY <1>10
<1> HIDE DEF c
<1>16. QED
    BY <1>6, <1>12, <1>13, <1>14, <1>15

\* The sums of capacity_summary are totals.
LeaveOf(rows) ==
    MapThenSumSet(LAMBDA t : rows[t].minutes,
                  {t \in LeaveTypes : rows[t] # NoRow /\ rows[t].status = "APPROVED"})

ApprovedIn(rows) == {t \in LeaveTypes : rows[t] # NoRow /\ rows[t].status = "APPROVED"}

MinutesOf(rows) == [t \in LeaveTypes |-> rows[t].minutes]

LEMMA LeaveIsSum ==
    ASSUME NEW rows \in [LeaveTypes -> LeaveRow \cup {NoRow}]
    PROVE  /\ IsFiniteSet(ApprovedIn(rows)) /\ \A t \in ApprovedIn(rows) : MinutesOf(rows)[t] \in Nat
           /\ \A g \in PartSums(MinutesOf(rows), ApprovedIn(rows)) : LeaveOf(rows) = g[ApprovedIn(rows)]
<1> DEFINE T == ApprovedIn(rows)
           W == MinutesOf(rows)
           F(f) == [s \in SUBSET T |->
                       IF s = {} THEN 0
                       ELSE rows[CHOOSE x \in s : TRUE].minutes + f[s \ {CHOOSE x \in s : TRUE}]]
           iter == CHOOSE f : f = F(f)
<1>1. IsFiniteSet(T) /\ \A t \in T : W[t] = rows[t].minutes /\ W[t] \in Nat
  <2>1. IsFiniteSet(T)
      BY WorkforceAssumption, FS_Subset DEF ApprovedIn
  <2>2. QED
      BY <2>1, WorkforceAssumption DEF ApprovedIn, MinutesOf, LeaveRow
<1>2. ASSUME NEW g \in PartSums(W, T)
      PROVE  LeaveOf(rows) = g[T]
  <2>1. LeaveOf(rows) = iter[T]
      BY DEF LeaveOf, ApprovedIn, MapThenSumSet, MapThenFoldSet
  <2>2. g = F(g)
      BY <1>1, PickIn DEF PartSums, Recurs, Pick
  <2>3. iter = F(iter)
      BY <2>2
  <2> HIDE DEF iter
  <2>4. \A s \in SUBSET T : Recurs(W, iter, s)
      BY <1>1, <2>3, PickIn DEF Recurs, Pick
  <2>5. QED
      BY <1>1, <2>1, <2>4, SumsAgree DEF PartSums
<1>3. QED
    BY <1>1, <1>2

LEMMA LeaveIsNat ==
    ASSUME NEW rows \in [LeaveTypes -> LeaveRow \cup {NoRow}]
    PROVE  LeaveOf(rows) \in Nat
<1>1. PICK g : g \in PartSums(MinutesOf(rows), ApprovedIn(rows))
    BY LeaveIsSum, SumsExist
<1>2. ApprovedIn(rows) \in SUBSET ApprovedIn(rows)
    OBVIOUS
<1>3. g[ApprovedIn(rows)] \in Nat
    BY <1>1, <1>2 DEF PartSums
<1>4. QED
    BY <1>1, <1>3, LeaveIsSum

\* One more leave makes it no less.
LEMMA LeaveGrows ==
    ASSUME NEW rows \in [LeaveTypes -> LeaveRow \cup {NoRow}], NEW t \in LeaveTypes, rows[t] = NoRow,
           NEW row \in LeaveRow
    PROVE  LeaveOf(rows) <= LeaveOf([rows EXCEPT ![t] = row])
<1> DEFINE more == [rows EXCEPT ![t] = row]
           S == ApprovedIn(rows)
           T == ApprovedIn(more)
<1>1. more \in [LeaveTypes -> LeaveRow \cup {NoRow}] /\ row # NoRow
    BY DEF LeaveRow, NoRow
<1>2. PICK g : g \in PartSums(MinutesOf(rows), S)
    BY LeaveIsSum, SumsExist
<1>3. PICK h : h \in PartSums(MinutesOf(more), T)
    BY <1>1, LeaveIsSum, SumsExist
<1>4. /\ LeaveOf(rows) = g[S] /\ LeaveOf(more) = h[T]
      /\ IsFiniteSet(S) /\ IsFiniteSet(T) /\ \A u \in T : MinutesOf(more)[u] \in Nat
    BY <1>1, <1>2, <1>3, LeaveIsSum
<1>5. /\ t \notin S /\ (T = S \/ (T = S \cup {t} /\ t \in T /\ T \ {t} = S))
      /\ \A u \in S : MinutesOf(rows)[u] = MinutesOf(more)[u]
    BY <1>1 DEF ApprovedIn, MinutesOf
<1> HIDE DEF more, S, T
<1>6. g[S] = h[S]
  <2>1. \A s \in SUBSET S : Recurs(MinutesOf(rows), g, s) /\ Recurs(MinutesOf(more), h, s)
      BY <1>2, <1>3, <1>5 DEF PartSums
  <2>2. QED
      BY <1>4, <1>5, <2>1, SumsAgree
<1>7. h[S] \in Nat /\ h[T] \in Nat
    BY <1>3, <1>5 DEF PartSums
<1>8. CASE T = S
  <2>1. LeaveOf(rows) <= LeaveOf(more)
      BY <1>4, <1>6, <1>7, <1>8
  <2>2. QED
      BY <2>1 DEF more
<1>9. CASE t \in T /\ T \ {t} = S
  <2>1. h[T] = MinutesOf(more)[t] + h[S]
      BY <1>3, <1>4, <1>9, TakeOut
  <2>2. MinutesOf(more)[t] \in Nat
      BY <1>4, <1>9
  <2>3. LeaveOf(rows) <= LeaveOf(more)
      BY <1>4, <1>6, <1>7, <2>1, <2>2
  <2>4. QED
      BY <2>3 DEF more
<1>10. QED
    BY <1>5, <1>8, <1>9

\* The same for the minutes assigned.
AssignedOf(rows) == MapThenSumSet(LAMBDA s : rows[s], Sources)

LEMMA AssignedIsNat ==
    ASSUME NEW rows \in [Sources -> Minutes \cup {0}]
    PROVE  AssignedOf(rows) \in Nat
<1> DEFINE F(f) == [s \in SUBSET Sources |->
                       IF s = {} THEN 0 ELSE rows[CHOOSE x \in s : TRUE] + f[s \ {CHOOSE x \in s : TRUE}]]
           iter == CHOOSE f : f = F(f)
<1>1. IsFiniteSet(Sources) /\ \A s \in Sources : rows[s] \in Nat
  <2>1. Minutes \cup {0} \subseteq Nat /\ IsFiniteSet(Sources)
      BY WorkforceAssumption
  <2>2. QED
      BY <2>1
<1>2. PICK g : g \in PartSums(rows, Sources)
    BY <1>1, SumsExist
<1>3. AssignedOf(rows) = iter[Sources]
    BY DEF AssignedOf, MapThenSumSet, MapThenFoldSet
<1>4. g = F(g)
    BY <1>2, PickIn DEF PartSums, Recurs, Pick
<1>5. iter = F(iter)
    BY <1>4
<1> HIDE DEF iter
<1>6. \A s \in SUBSET Sources : Recurs(rows, iter, s)
    BY <1>5, PickIn DEF Recurs, Pick
<1>7. iter[Sources] = g[Sources]
    BY <1>1, <1>2, <1>6, SumsAgree DEF PartSums
<1>8. Sources \in SUBSET Sources
    OBVIOUS
<1>9. g[Sources] \in Nat
    BY <1>2, <1>8 DEF PartSums
<1>10. QED
    BY <1>3, <1>7, <1>9

\* The rows have their types, and the leave a summary has added up is no more
\* than the leave that is approved now.
SummaryIsBehind(r) == r.op = "CAPACITY" /\ r.at = "assigned" => r.leave <= ApprovedLeave

CapacityInv == WorklogsInv /\ WorkforceTypeOK /\ \A w \in Workers : SummaryIsBehind(req[w])

LEMMA LeaveOfNow == ApprovedLeave = LeaveOf(leave)
    BY DEF ApprovedLeave, LeaveOf

LEMMA LeaveOfThen == ApprovedLeave' = LeaveOf(leave')
<1>1. (ApprovedLeave = LeaveOf(leave))'
    BY LeaveOfNow, PTL
<1>2. QED
    BY <1>1

LEMMA SumsOfRows ==
    ASSUME WorkforceTypeOK
    PROVE  /\ ApprovedLeave = LeaveOf(leave) /\ ApprovedLeave \in Nat
           /\ Assigned = AssignedOf(assigned) /\ Assigned \in Nat
<1>1. ApprovedLeave = LeaveOf(leave) /\ Assigned = AssignedOf(assigned)
    BY LeaveOfNow DEF Assigned, AssignedOf
<1>2. leave \in [LeaveTypes -> LeaveRow \cup {NoRow}] /\ assigned \in [Sources -> Minutes \cup {0}]
    BY DEF WorkforceTypeOK
<1>3. QED
    BY <1>1, <1>2, LeaveIsNat, AssignedIsNat

LEMMA CapacityFields ==
    \A r \in CapacityRequest :
        /\ r.op = "CAPACITY" /\ r.leave \in Nat /\ r.assigned \in Nat
        /\ r.at \in {"leave", "assigned", "logged"}
        /\ DOMAIN r = {"op", "at", "leave", "assigned"}
    BY DEF CapacityRequest

LEMMA CapacityInvInit == WorkforceInit => CapacityInv
<1> SUFFICES ASSUME WorkforceInit PROVE CapacityInv
    OBVIOUS
<1>1. WorkforceTypeOK
  <2>1. moves \in [Worklogs -> Seq(WorklogStatus)]
      BY DEF WorkforceInit
  <2>2. QED
      BY <2>1 DEF WorkforceInit, WorkforceTypeOK
<1>2. \A w \in Workers : SummaryIsBehind(req[w])
    BY DEF WorkforceInit, SummaryIsBehind, Idle
<1>3. QED
    BY <1>1, <1>2, WorklogsInvInit DEF CapacityInv

\* A step that changes no row and leaves worker w with request r.
LEMMA CapacityRead ==
    ASSUME CapacityInv, WorklogsInv', NEW w \in Workers, NEW r \in {Idle} \cup WorkforceRequest,
           req' = [req EXCEPT ![w] = r], UNCHANGED workforceTables, SummaryIsBehind(r)
    PROVE  CapacityInv'
<1>1. \A v \in Workers : req'[v] = IF v = w THEN r ELSE req[v]
    BY DEF CapacityInv, WorkforceTypeOK
<1>2. ApprovedLeave' = ApprovedLeave
    BY LeaveOfNow, LeaveOfThen DEF workforceTables
<1>3. WorkforceTypeOK'
    BY DEF CapacityInv, WorkforceTypeOK, workforceTables
<1>4. \A v \in Workers : SummaryIsBehind(req[v])'
    BY <1>1, <1>2 DEF CapacityInv, SummaryIsBehind
<1>5. QED
    BY <1>3, <1>4 DEF CapacityInv

LEMMA CapacityInvNext == CapacityInv /\ [WorkforceNext]_workforceVars => CapacityInv'
<1> SUFFICES ASSUME CapacityInv, [WorkforceNext]_workforceVars PROVE CapacityInv'
    OBVIOUS
<1>0. /\ WorklogsInv /\ WorkforceTypeOK /\ WorklogsInv'
      /\ leave \in [LeaveTypes -> LeaveRow \cup {NoRow}]
      /\ assigned \in [Sources -> Minutes \cup {0}]
      /\ req \in [Workers -> {Idle} \cup WorkforceRequest]
    BY WorklogsInvNext DEF CapacityInv, WorkforceTypeOK
<1>a. \A v \in Workers : SummaryIsBehind(req[v])
    BY DEF CapacityInv
<1>b. /\ ApprovedLeave = LeaveOf(leave) /\ ApprovedLeave \in Nat /\ Assigned \in Nat
    BY <1>0, SumsOfRows
\* A step of the worklogs or of what no sum reads.
<1>c. ASSUME WorkforceTypeOK', UNCHANGED <<leave, req>> PROVE CapacityInv'
  <2>1. ApprovedLeave' = ApprovedLeave
      BY <1>c, LeaveOfNow, LeaveOfThen
  <2>2. \A v \in Workers : SummaryIsBehind(req[v])'
      BY <1>a, <1>c, <2>1 DEF SummaryIsBehind
  <2>3. QED
      BY <1>0, <1>c, <2>2 DEF CapacityInv
<1>1. ASSUME NEW w \in Workers, CreateAttendance(w)
      PROVE  CapacityInv'
    BY <1>0, <1>1, <1>c DEF CreateAttendance, WorkforceTypeOK
<1>2. ASSUME NEW w \in Workers, NEW t \in LeaveTypes, NEW row \in LeaveRow, CreateLeave(w, t, row)
      PROVE  CapacityInv'
  <2>1. LeaveOf(leave) <= LeaveOf([leave EXCEPT ![t] = row])
      BY <1>0, <1>2, LeaveGrows DEF CreateLeave
  <2>2. leave' = [leave EXCEPT ![t] = row] /\ req' = req
      BY <1>2 DEF CreateLeave
  <2>3. WorkforceTypeOK'
      BY <1>0, <1>2 DEF CreateLeave, WorkforceTypeOK
  <2>4. ApprovedLeave' = LeaveOf([leave EXCEPT ![t] = row]) /\ ApprovedLeave' \in Nat
    <3>1. ApprovedLeave' = LeaveOf(leave')
        BY LeaveOfThen
    <3>2. leave' \in [LeaveTypes -> LeaveRow \cup {NoRow}]
        BY <2>3 DEF WorkforceTypeOK
    <3>3. QED
        BY <2>2, <3>1, <3>2, LeaveIsNat
  <2>5. ASSUME NEW v \in Workers, req[v].op = "CAPACITY", req[v].at = "assigned"
        PROVE  req[v].leave <= ApprovedLeave'
    <3>1. req[v] \in CapacityRequest
        BY <1>0, <2>5 DEF WorkforceRequest, MoveRequest, Idle
    <3>2. req[v].leave \in Nat /\ req[v].leave <= ApprovedLeave
        BY <1>a, <2>5, <3>1, CapacityFields DEF SummaryIsBehind
    <3>3. QED
        BY <1>b, <2>1, <2>4, <3>2
  <2>6. QED
      BY <1>0, <2>2, <2>3, <2>5 DEF CapacityInv, SummaryIsBehind
<1>3. ASSUME NEW w \in Workers, NEW s \in Sources, NEW minutes \in Minutes, CreateAssignment(w, s, minutes)
      PROVE  CapacityInv'
    BY <1>0, <1>3, <1>c DEF CreateAssignment, WorkforceTypeOK
<1>4. ASSUME NEW w \in Workers, NEW l \in Worklogs, NEW minutes \in Minutes, CreateWorklog(w, l, minutes)
      PROVE  CapacityInv'
  <2>1. WorkforceTypeOK'
      BY <1>0, <1>4 DEF CreateWorklog, WorkforceTypeOK, WorklogsInv
  <2>2. QED
      BY <1>4, <1>c, <2>1 DEF CreateWorklog
<1>5. ASSUME NEW w \in Workers, NEW l \in Worklogs, NEW target \in WorklogStatus, MoveWorklog(w, l, target)
      PROVE  CapacityInv'
  <2> DEFINE r == [op |-> "MOVE_WORKLOG", worklog |-> l, row |-> worklog[l], target |-> target]
  <2>1. r \in MoveRequest
      BY <1>0, <1>5 DEF MoveWorklog, MoveRequest, WorklogsInv
  <2>2. r \in {Idle} \cup WorkforceRequest /\ SummaryIsBehind(r)
      BY <2>1 DEF WorkforceRequest, SummaryIsBehind
  <2>3. req' = [req EXCEPT ![w] = r] /\ UNCHANGED workforceTables
      BY <1>5 DEF MoveWorklog, Begin
  <2> HIDE DEF r
  <2>4. QED
      BY <1>0, <2>2, <2>3, CapacityRead
<1>6. ASSUME NEW w \in Workers, ViewCapacity(w)
      PROVE  CapacityInv'
  <2> DEFINE r == [op |-> "CAPACITY", at |-> "leave", leave |-> 0, assigned |-> 0]
  <2>1. r \in {Idle} \cup WorkforceRequest /\ SummaryIsBehind(r)
      BY DEF WorkforceRequest, CapacityRequest, SummaryIsBehind
  <2>2. req' = [req EXCEPT ![w] = r] /\ UNCHANGED workforceTables
      BY <1>6 DEF ViewCapacity, Begin
  <2> HIDE DEF r
  <2>3. QED
      BY <1>0, <2>1, <2>2, CapacityRead
<1>7. ASSUME NEW w \in Workers, SumLeave(w)
      PROVE  CapacityInv'
  <2> DEFINE r == [req[w] EXCEPT !.at = "assigned", !.leave = ApprovedLeave]
  <2>1. req[w] \in CapacityRequest
      BY <1>0, <1>7 DEF SumLeave, WorkforceRequest, MoveRequest, Idle
  <2>2. r \in CapacityRequest /\ r.leave = ApprovedLeave
      BY <1>b, <2>1 DEF CapacityRequest
  <2>3. req' = [req EXCEPT ![w] = r] /\ UNCHANGED workforceTables
      BY <1>0, <1>7 DEF SumLeave
  <2> HIDE DEF r
  <2>4. r \in {Idle} \cup WorkforceRequest /\ SummaryIsBehind(r)
      BY <1>b, <2>2 DEF WorkforceRequest, SummaryIsBehind
  <2>5. QED
      BY <1>0, <2>3, <2>4, CapacityRead
<1>8. ASSUME NEW w \in Workers, SumAssigned(w)
      PROVE  CapacityInv'
  <2> DEFINE r == [req[w] EXCEPT !.at = "logged", !.assigned = Assigned]
  <2>1. req[w] \in CapacityRequest
      BY <1>0, <1>8 DEF SumAssigned, WorkforceRequest, MoveRequest, Idle
  <2>2. r \in CapacityRequest /\ r.at = "logged"
      BY <1>b, <2>1 DEF CapacityRequest
  <2>3. req' = [req EXCEPT ![w] = r] /\ UNCHANGED workforceTables
      BY <1>0, <1>8 DEF SumAssigned
  <2> HIDE DEF r
  <2>4. r \in {Idle} \cup WorkforceRequest /\ SummaryIsBehind(r)
      BY <2>2 DEF WorkforceRequest, SummaryIsBehind
  <2>5. QED
      BY <1>0, <2>3, <2>4, CapacityRead
<1>9. ASSUME NEW w \in Workers, SumLogged(w)
      PROVE  CapacityInv'
  <2>1. Idle \in {Idle} \cup WorkforceRequest /\ SummaryIsBehind(Idle)
      BY DEF SummaryIsBehind, Idle
  <2>2. QED
      BY <1>0, <1>9, <2>1, CapacityRead DEF SumLogged, Finish
<1>10. ASSUME NEW w \in Workers, CommitWorklog(w)
      PROVE  CapacityInv'
  <2>1. UNCHANGED <<attended, leave, assigned>> /\ req' = [req EXCEPT ![w] = Idle]
      BY <1>10 DEF CommitWorklog, Finish
  <2>2. ApprovedLeave' = ApprovedLeave
      BY <2>1, LeaveOfNow, LeaveOfThen
  <2>3. \A v \in Workers : SummaryIsBehind(req[v])'
      BY <1>0, <1>a, <2>1, <2>2 DEF SummaryIsBehind, Idle
  <2>4. WorkforceTypeOK'
    <3>1. req' \in [Workers -> {Idle} \cup WorkforceRequest]
        BY <1>0, <2>1
    <3>2. QED
        BY <1>0, <2>1, <3>1 DEF WorkforceTypeOK, WorklogsInv
  <2>5. QED
      BY <1>0, <2>3, <2>4 DEF CapacityInv
<1>11. CASE UNCHANGED workforceVars
    BY <1>0, <1>11, <1>c DEF workforceVars, WorkforceTypeOK
<1>12. QED
    BY <1>1, <1>2, <1>3, <1>4, <1>5, <1>6, <1>7, <1>8, <1>9, <1>10, <1>11
    DEF WorkforceNext, WorkforceRequestArrives, WorkforceRequestStep

\* Every row and every running request of the workforce has its type, the sums
\* of the capacity summary among them: they are naturals for any finite sets of
\* leave types and of sources.
THEOREM WorkforceTypesAreKept == WorkforceSpec => []WorkforceTypeOK
<1>1. CapacityInv => WorkforceTypeOK
    BY DEF CapacityInv
<1>2. QED
    BY CapacityInvInit, CapacityInvNext, <1>1, PTL DEF WorkforceSpec

\* The capacity summary never shows less than what remains at its second
\* select: leave is added up first and approved leave only grows.
THEOREM CapacityIsSafe == WorkforceSpec => CapacityIsNotUnderstated
<1> DEFINE Answer == \A w \in Workers :
                        req[w].op = "CAPACITY" /\ req[w].at = "assigned" /\ req'[w] # req[w]
                        => Remaining(req'[w].leave, req'[w].assigned) >= Remaining(ApprovedLeave, Assigned)
<1>1. CapacityInv /\ [WorkforceNext]_workforceVars => [Answer]_workforceVars
  <2> SUFFICES ASSUME CapacityInv, WorkforceNext, NEW w \in Workers,
                      req[w].op = "CAPACITY", req[w].at = "assigned", req'[w] # req[w]
               PROVE  Remaining(req'[w].leave, req'[w].assigned) >= Remaining(ApprovedLeave, Assigned)
      OBVIOUS
  <2>0. req \in [Workers -> {Idle} \cup WorkforceRequest] /\ WorkforceTypeOK
      BY DEF CapacityInv, WorkforceTypeOK
  <2>1. req[w] # Idle
      BY DEF Idle
  <2>2. ASSUME NEW v \in Workers, NEW r, req' = [req EXCEPT ![v] = r]
        PROVE  v = w
      BY <2>0, <2>2
  <2>3. SumAssigned(w)
    <3>1. PICK v \in Workers : WorkforceRequestArrives(v) \/ WorkforceRequestStep(v)
        BY DEF WorkforceNext
    <3>2. ~(req' = req)
        OBVIOUS
    <3>3. ~WorkforceRequestArrives(v)
        BY <2>0, <2>1, <2>2, <3>2
        DEF WorkforceRequestArrives, CreateAttendance, CreateLeave, CreateAssignment, CreateWorklog,
            MoveWorklog, ViewCapacity, Begin
    <3>4. CASE CommitWorklog(v)
        BY <2>0, <2>2, <3>4 DEF CommitWorklog, Finish
    <3>5. CASE SumLeave(v)
      <4>1. v = w
          BY <2>0, <3>5 DEF SumLeave
      <4>2. QED
          BY <3>5, <4>1 DEF SumLeave
    <3>6. CASE SumAssigned(v)
      <4>1. v = w
          BY <2>0, <3>6 DEF SumAssigned
      <4>2. QED
          BY <3>6, <4>1
    <3>7. CASE SumLogged(v)
        BY <2>0, <2>2, <3>7 DEF SumLogged, Finish
    <3>8. QED
        BY <3>1, <3>3, <3>4, <3>5, <3>6, <3>7 DEF WorkforceRequestStep
  <2>4. req[w] \in CapacityRequest
      BY <2>0 DEF WorkforceRequest, MoveRequest, Idle
  <2>5. req'[w].leave = req[w].leave /\ req'[w].assigned = Assigned
      BY <2>0, <2>3, <2>4 DEF SumAssigned, CapacityRequest
  <2>6. req[w].leave \in Nat /\ req[w].leave <= ApprovedLeave
      BY <2>4, CapacityFields DEF CapacityInv, SummaryIsBehind
  <2>7. ApprovedLeave \in Nat /\ Assigned \in Nat /\ Standard \in Nat
      BY <2>0, SumsOfRows, WorkforceAssumption
  <2>8. QED
      BY <2>5, <2>6, <2>7 DEF Remaining
<1>2. QED
    BY CapacityInvInit, CapacityInvNext, <1>1, PTL DEF WorkforceSpec, CapacityIsNotUnderstated

-----------------------------------------------------------------------------
(* The access decision.                                                    *)

\* What the chain of refusals and sources comes to.
Passes(c, t) ==
    /\ c.active /\ c.member
    /\ c.permitted \/ DelegationIsEffective(c, t)
    /\ c.level = "PARTNER_ONLY" => c.role \in {"SUPER_ADMIN", "PARTNER"}
    /\ c.level = "RESTRICTED" => c.role = "SUPER_ADMIN" \/ c.confidential
    /\ \/ c.role = "SUPER_ADMIN" \/ ~c.scoped
       \/ c.portfolio \/ c.engagement \/ c.confidential
       \/ DelegationIsEffective(c, t)

LEMMA DecisionPasses ==
    ASSUME NEW c, NEW t
    PROVE  MayAccess(c, t) <=> Passes(c, t)
<1>1. Granting = {"ROLE", "PORTFOLIO", "ENGAGEMENT", "CONFIDENTIALITY_GRANT", "DELEGATION"}
    BY DEF Granting
<1>2. QED
    BY <1>1 DEF MayAccess, Decision, Passes

Attributes == {"active", "member", "portfolio", "engagement", "confidential", "delegated"}

LEMMA ContextFields ==
    ASSUME NEW c \in Context
    PROVE  /\ c.role \in Roles /\ c.level \in Levels /\ c.starts \in Optional /\ c.ends \in Optional
           /\ c.permitted \in BOOLEAN /\ c.scoped \in BOOLEAN /\ c.listed \in BOOLEAN
           /\ \A g \in Attributes : c[g] \in BOOLEAN
    BY DEF Context, Attributes

\* The instants of a context are numbers.
LEMMA InstantsAreNumbers ==
    ASSUME NEW c \in Context
    PROVE  \A t \in c.starts \cup c.ends : t \in Int
    BY ContextFields, AccessAssumption DEF Optional

LEMMA ChangedContext ==
    ASSUME NEW c \in Context, NEW g \in Attributes, NEW b \in BOOLEAN
    PROVE  [c EXCEPT ![g] = b] \in Context
    BY DEF Context, Attributes

LEMMA AccessTypeInit == AccessInit => AccessTypeOK
    BY DEF AccessInit, AccessTypeOK

LEMMA AccessTypeNext == AccessTypeOK /\ [AccessNext]_accessVars => AccessTypeOK'
<1> SUFFICES ASSUME AccessTypeOK, [AccessNext]_accessVars PROVE AccessTypeOK'
    OBVIOUS
<1>1. CASE Change
  <2>1. PICK g \in Attributes : context' = [context EXCEPT ![g] = ~@] /\ now' = now
      BY <1>1 DEF Change, Attributes
  <2>2. (~context[g]) \in BOOLEAN
      OBVIOUS
  <2>3. context' \in Context
      BY <2>1, <2>2, ChangedContext DEF AccessTypeOK
  <2>4. QED
      BY <2>1, <2>3 DEF AccessTypeOK
<1>2. CASE TimePasses
    BY <1>2 DEF TimePasses, AccessTypeOK
<1>3. CASE UNCHANGED accessVars
    BY <1>3 DEF accessVars, AccessTypeOK
<1>4. QED
    BY <1>1, <1>2, <1>3 DEF AccessNext

\* No change of a grant and no passing of time leaves the context without type.
THEOREM AccessTypesAreKept == AccessSpec => []AccessTypeOK
    BY AccessTypeInit, AccessTypeNext, PTL DEF AccessSpec

\* What a delegation adds is bounded, for every context: the docstring of the
\* access module.
THEOREM DelegationGrantsLittle == AccessSpec => []DelegationIsBounded
<1>1. AccessTypeOK => DelegationIsBounded
  <2> SUFFICES ASSUME AccessTypeOK, MayAccess(context, now),
                      ~MayAccess([context EXCEPT !.delegated = FALSE], now)
               PROVE  DelegationIsBounded
      BY DEF DelegationIsBounded
  <2> DEFINE c == [context EXCEPT !.delegated = FALSE]
  <2>0. context \in Context /\ now \in Int
      BY AccessAssumption DEF AccessTypeOK
  <2>1. /\ c.role = context.role /\ c.level = context.level
        /\ c.permitted = context.permitted /\ c.scoped = context.scoped /\ c.active = context.active
        /\ c.member = context.member /\ c.portfolio = context.portfolio
        /\ c.engagement = context.engagement /\ c.confidential = context.confidential
      BY <2>0 DEF Context
  <2>2. Passes(context, now) /\ ~Passes(c, now)
      BY DecisionPasses
  <2> HIDE DEF c
  <2>3. DelegationIsEffective(context, now)
      BY <2>1, <2>2 DEF Passes
  <2>4. context.listed /\ (\A s \in context.starts : s <= now) /\ \A e \in context.ends : now < e
      BY <2>3 DEF DelegationIsEffective
  <2>5. \A s \in context.starts : now >= s
      BY <2>0, <2>4, InstantsAreNumbers
  <2>6. context.level \in {"INTERNAL", "RESTRICTED", "PARTNER_ONLY"}
      BY <2>0, ContextFields DEF Levels
  <2>7. QED
      BY <2>2, <2>4, <2>5, <2>6 DEF DelegationIsBounded, Passes
<1>2. QED
    BY AccessTypeInit, AccessTypeNext, <1>1, PTL DEF AccessSpec

\* Access that a grant gives is not lost by another grant, and a clock that
\* moves on changes it only at the ends of a delegation.
LEMMA MoreGrantsMoreAccess ==
    ASSUME NEW c \in Context, NEW d \in Context, NEW t \in Times,
           /\ d.role = c.role /\ d.level = c.level /\ d.permitted = c.permitted /\ d.scoped = c.scoped
           /\ d.listed = c.listed /\ d.starts = c.starts /\ d.ends = c.ends,
           \A g \in Attributes : c[g] => d[g], MayAccess(c, t)
    PROVE  MayAccess(d, t)
<1>1. DelegationIsEffective(c, t) => DelegationIsEffective(d, t)
    BY DEF DelegationIsEffective, Attributes
<1>2. /\ c.active => d.active
      /\ c.member => d.member
      /\ c.portfolio => d.portfolio
      /\ c.engagement => d.engagement
      /\ c.confidential => d.confidential
    BY DEF Attributes
<1>3. Passes(c, t)
    BY DecisionPasses
<1>4. Passes(d, t)
    BY <1>1, <1>2, <1>3 DEF Passes
<1>5. QED
    BY <1>4, DecisionPasses

\* The ends of a delegation are the only instants at which time alone matters.
LEMMA OnlyTheEndsMatter ==
    ASSUME NEW c \in Context, NEW t \in Times, NEW u \in Times, u > t
    PROVE  /\ MayAccess(c, t) /\ ~MayAccess(c, u) => \E e \in c.ends : t < e /\ e <= u
           /\ ~MayAccess(c, t) /\ MayAccess(c, u) => \E s \in c.starts : t < s /\ s <= u
<1>0. t \in Int /\ u \in Int /\ \A i \in c.starts \cup c.ends : i \in Int
    BY AccessAssumption, InstantsAreNumbers
<1>1. (DelegationIsEffective(c, t) => DelegationIsEffective(c, u)) => (Passes(c, t) => Passes(c, u))
    BY DEF Passes
<1>2. (DelegationIsEffective(c, u) => DelegationIsEffective(c, t)) => (Passes(c, u) => Passes(c, t))
    BY DEF Passes
<1>3. DelegationIsEffective(c, t) /\ ~DelegationIsEffective(c, u)
      => \E e \in c.ends : t < e /\ e <= u
    BY <1>0 DEF DelegationIsEffective
<1>4. DelegationIsEffective(c, u) /\ ~DelegationIsEffective(c, t)
      => \E s \in c.starts : t < s /\ s <= u
    BY <1>0 DEF DelegationIsEffective
<1>5. QED
    BY <1>1, <1>2, <1>3, <1>4, DecisionPasses

\* Access moves one way, for every context and any set of instants.
THEOREM AccessMovesOneWay == AccessSpec => AccessIsMonotone
<1>1. AccessTypeOK /\ [AccessNext]_accessVars
      => [/\ (\A g \in {"active", "member", "portfolio", "engagement", "confidential", "delegated"} :
                  context[g] => context'[g]) /\ now' = now
                => (MayAccess(context, now) => MayAccess(context, now)')
          /\ now' > now /\ MayAccess(context, now) /\ ~MayAccess(context, now)'
                => \E e \in context.ends : now < e /\ e <= now'
          /\ now' > now /\ ~MayAccess(context, now) /\ MayAccess(context, now)'
                => \E s \in context.starts : now < s /\ s <= now']_accessVars
  <2> SUFFICES ASSUME AccessTypeOK, AccessNext
      PROVE  /\ (\A g \in {"active", "member", "portfolio", "engagement", "confidential", "delegated"} :
                  context[g] => context'[g]) /\ now' = now
                => (MayAccess(context, now) => MayAccess(context, now)')
             /\ now' > now /\ MayAccess(context, now) /\ ~MayAccess(context, now)'
                => \E e \in context.ends : now < e /\ e <= now'
             /\ now' > now /\ ~MayAccess(context, now) /\ MayAccess(context, now)'
                => \E s \in context.starts : now < s /\ s <= now'
      OBVIOUS
  <2>0. context \in Context /\ now \in Times /\ AccessTypeOK'
      BY AccessTypeNext DEF AccessTypeOK
  <2>1. PICK c \in Context, t \in Times : c = context' /\ t = now'
      BY <2>0 DEF AccessTypeOK
  <2>2. PICK b \in Context, u \in Times : b = context /\ u = now
      BY <2>0
  <2>3. MayAccess(context, now) <=> MayAccess(b, u)
      BY <2>2
  <2>4. MayAccess(context, now)' <=> MayAccess(c, t)
      BY <2>1 DEF MayAccess, Decision, DelegationIsEffective
  <2>5. /\ c.role = b.role /\ c.level = b.level /\ c.permitted = b.permitted /\ c.scoped = b.scoped
        /\ c.listed = b.listed /\ c.starts = b.starts /\ c.ends = b.ends
      BY <2>0, <2>1, <2>2 DEF AccessNext, Change, TimePasses, Context
  <2>6. ASSUME \A g \in Attributes : context[g] => context'[g], now' = now, MayAccess(context, now)
        PROVE  MayAccess(context, now)'
    <3>1. MayAccess(c, u)
        BY <2>1, <2>2, <2>3, <2>5, <2>6, MoreGrantsMoreAccess
    <3>2. QED
        BY <2>1, <2>2, <2>4, <2>6, <3>1
  <2>7. now' > now => c = b
      BY <2>0, <2>1, <2>2, AccessAssumption DEF AccessNext, Change, TimePasses
  <2>8. ASSUME now' > now, MayAccess(context, now), ~MayAccess(context, now)'
        PROVE  \E e \in context.ends : now < e /\ e <= now'
      BY <2>1, <2>2, <2>3, <2>4, <2>7, <2>8, OnlyTheEndsMatter
  <2>9. ASSUME now' > now, ~MayAccess(context, now), MayAccess(context, now)'
        PROVE  \E s \in context.starts : now < s /\ s <= now'
      BY <2>1, <2>2, <2>3, <2>4, <2>7, <2>9, OnlyTheEndsMatter
  <2>10. QED
      BY <2>6, <2>8, <2>9 DEF Attributes
<1>2. QED
    BY AccessTypeInit, AccessTypeNext, <1>1, PTL DEF AccessSpec, AccessIsMonotone


-----------------------------------------------------------------------------
(* Accounts.                                                               *)

Updates == {"SIGN_IN", "MISS", "CHANGE_PASSWORD", "SET_STATUS", "SYNC", "RECOVER"}

\* What each column of the row can hold.
Values ==
    [status |-> Statuses, hash |-> [secret : Secrets, aged : BOOLEAN], failed |-> Nat,
     lock |-> {"NONE", "RUNNING", "EXPIRED"}, version |-> 0 .. MaxTokenVersion]

\* What is known of the columns a request writes, D, from what they were when
\* it loaded the row: a new version is the next one, a status comes without
\* one only from the list of the start-up, a renewed hash keeps the password,
\* and a wrong answer counts one up or locks.
WritesInPart(r, D) ==
    /\ D \subseteq Columns /\ DOMAIN r.to = D /\ DOMAIN r.was = D
    /\ \A c \in D : r.to[c] \in Values[c] /\ r.was[c] \in Values[c]
    /\ "version" \in D => r.to.version = r.was.version + 1
    /\ "status" \in D /\ "version" \notin D => r.to.status = listed /\ r.was.status # listed
    /\ r.op \in {"CHANGE_PASSWORD", "RECOVER"} => "hash" \in D
    /\ r.op \notin {"CHANGE_PASSWORD", "RECOVER"} /\ "hash" \in D =>
          r.to.hash.secret = r.was.hash.secret
    /\ r.op = "MISS" /\ "lock" \notin D =>
          "failed" \in D /\ r.to.failed = r.was.failed + 1 /\ r.to.failed < MaxFailures
    /\ "failed" \in D /\ (r.op # "MISS" \/ "lock" \in D) => r.to.failed = 0
    /\ "failed" \in D => r.op \in {"MISS", "SIGN_IN", "RECOVER"}
    /\ r.tokens \subseteq 0 .. MaxTokenVersion

AccountRequest(r) ==
    \/ r = Idle
    \/ /\ r.op = "CREATE" /\ r.to \in AccountRow
       /\ r.to.status \in {listed, "ACTIVE"} /\ r.to.failed = 0
    \/ r.op \in Updates /\ account # NoRow /\ WritesInPart(r, DOMAIN r.to)

\* No token is ahead of the row; and where the list says ACTIVE, none has the
\* version of a row with another status, which the start-up would put back.
NotAhead(v) ==
    /\ v <= account.version
    /\ listed = "ACTIVE" /\ account.status # "ACTIVE" => v < account.version

AccountsInv ==
    /\ account \in AccountRow \cup {NoRow} /\ listed \in Statuses
    /\ handedOut \subseteq 0 .. MaxTokenVersion /\ revoked \subseteq handedOut
    /\ misses \in Nat /\ chosen \in Secrets \cup {NoRow} /\ stale \in BOOLEAN
    /\ req = [w \in Workers |-> req[w]]
    /\ \A w \in Workers : AccountRequest(req[w])
    /\ account = NoRow => handedOut = {} /\ misses = 0
    /\ ~stale /\ account # NoRow =>
          /\ \A v \in handedOut : NotAhead(v)
          /\ \A w \in Workers : req[w].op \in Updates => \A v \in req[w].tokens : NotAhead(v)
          /\ account.status = "ACTIVE" => account.version \notin revoked
          /\ account.hash.secret = chosen
          /\ misses <= account.failed /\ account.failed < MaxFailures

LEMMA AccountFields ==
    \A row \in AccountRow :
        /\ row # NoRow /\ DOMAIN row = Columns /\ \A c \in Columns : row[c] \in Values[c]
        /\ row.status \in Statuses /\ row.hash \in [secret : Secrets, aged : BOOLEAN]
        /\ row.hash.secret \in Secrets
        /\ row.failed \in Nat /\ row.lock \in {"NONE", "RUNNING", "EXPIRED"}
        /\ row.version \in 0 .. MaxTokenVersion
    BY DEF AccountRow, NoRow, Columns, Values

LEMMA NewAccountFields ==
    ASSUME NEW status \in Statuses, NEW secret \in Secrets
    PROVE  LET row == NewAccount(status, secret)
           IN  /\ row \in AccountRow /\ [row EXCEPT !.hash.aged = TRUE] \in AccountRow
               /\ row.status = status /\ row.failed = 0 /\ row.version = 0 /\ row.hash.secret = secret
<1>1. 0 \in 0 .. MaxTokenVersion
    BY AccountsAssumption
<1>2. QED
    BY <1>1 DEF NewAccount, HashOf, AccountRow

\* The row with some columns written is a row.
LEMMA OverIsRow ==
    ASSUME NEW row \in AccountRow, NEW f, NEW D \in SUBSET Columns, DOMAIN f = D,
           \A c \in D : f[c] \in Values[c]
    PROVE  /\ Over(row, f) \in AccountRow
           /\ \A c \in Columns : Over(row, f)[c] = IF c \in D THEN f[c] ELSE row[c]
<1>1. \A c \in Columns : Over(row, f)[c] = IF c \in D THEN f[c] ELSE row[c]
    BY DEF Over
<1>2. \A c \in Columns : Over(row, f)[c] \in Values[c]
    BY <1>1, AccountFields
<1>3. Over(row, f) = [status |-> Over(row, f).status, hash |-> Over(row, f).hash,
                      failed |-> Over(row, f).failed, lock |-> Over(row, f).lock,
                      version |-> Over(row, f).version]
    BY DEF Over, Columns
<1>4. PICK a, b, c, d, e : /\ a = Over(row, f).status /\ b = Over(row, f).hash
                           /\ c = Over(row, f).failed /\ d = Over(row, f).lock /\ e = Over(row, f).version
    OBVIOUS
<1>5. /\ a \in Statuses /\ b \in [secret : Secrets, aged : BOOLEAN] /\ c \in Nat
      /\ d \in {"NONE", "RUNNING", "EXPIRED"} /\ e \in 0 .. MaxTokenVersion
    BY <1>2, <1>4 DEF Values, Columns
<1>6. Over(row, f) \in AccountRow
    BY <1>3, <1>4, <1>5 DEF AccountRow
<1>7. QED
    BY <1>1, <1>6

LEMMA AccountsInvInit == AccountsInit => AccountsInv
<1> SUFFICES ASSUME AccountsInit PROVE AccountsInv
    OBVIOUS
<1>1. CASE account = NoRow
    BY <1>1 DEF AccountsInit, AccountsInv, Statuses, AccountRequest
<1>2. CASE account # NoRow
  <2>1. PICK s \in Secrets : account = [NewAccount("ACTIVE", s) EXCEPT !.hash.aged = TRUE]
      BY <1>2 DEF AccountsInit
  <2>2. account \in AccountRow
      BY <2>1, NewAccountFields DEF Statuses
  <2>3. account.failed = 0
      BY <2>1 DEF NewAccount
  <2>4. account.hash.secret \in Secrets
      BY <2>2, AccountFields
  <2>5. \A w \in Workers : AccountRequest(req[w]) /\ req[w].op \notin Updates
      BY DEF AccountsInit, AccountRequest, Idle, Updates
  <2>6. /\ listed \in Statuses /\ handedOut = {} /\ revoked = {} /\ misses = 0
        /\ chosen = account.hash.secret /\ stale = FALSE /\ req = [w \in Workers |-> req[w]]
      BY <1>2 DEF AccountsInit, Statuses
  <2>7. 0 < MaxFailures
      BY AccountsAssumption
  <2>8. /\ handedOut \subseteq 0 .. MaxTokenVersion /\ revoked \subseteq handedOut
        /\ misses \in Nat /\ chosen \in Secrets \cup {NoRow} /\ stale \in BOOLEAN
      BY <2>4, <2>6
  <2>9. /\ \A v \in handedOut : NotAhead(v)
        /\ account.status = "ACTIVE" => account.version \notin revoked
        /\ misses <= account.failed /\ account.failed < MaxFailures
      BY <2>3, <2>6, <2>7
  <2>10. QED
      BY <1>2, <2>2, <2>5, <2>6, <2>8, <2>9 DEF AccountsInv
<1>3. QED
    BY <1>1, <1>2

\* A step that changes neither row nor tokens, with a request whose tokens are
\* not ahead.
LEMMA AccountsRead ==
    ASSUME AccountsInv, NEW w \in Workers, NEW r, req' = [req EXCEPT ![w] = r],
           UNCHANGED accountTables, AccountRequest(r),
           ~stale /\ account # NoRow /\ r.op \in Updates => \A v \in r.tokens : NotAhead(v)
    PROVE  AccountsInv'
<1>0. UNCHANGED <<account, listed, handedOut, revoked, misses, chosen, stale>>
    BY DEF accountTables
<1>1. /\ \A v \in Workers : req'[v] = IF v = w THEN r ELSE req[v]
      /\ req' = [v \in Workers |-> req'[v]]
    BY DEF AccountsInv
<1>2. \A v \in Workers : AccountRequest(req[v])'
    BY <1>0, <1>1 DEF AccountsInv, AccountRequest, WritesInPart
<1>3. ASSUME ~stale', account' # NoRow
      PROVE  /\ \A v \in handedOut' : NotAhead(v)'
             /\ \A u \in Workers : req'[u].op \in Updates => \A v \in req'[u].tokens : NotAhead(v)'
  <2>1. \A v : NotAhead(v) => NotAhead(v)'
      BY <1>0 DEF NotAhead
  <2>2. QED
      BY <1>0, <1>1, <1>3, <2>1 DEF AccountsInv
<1>4. QED
    BY <1>0, <1>1, <1>2, <1>3 DEF AccountsInv


\* A request that has loaded the row a and will write to.
LEMMA LoadsKnows ==
    ASSUME AccountsInv, NEW w \in Workers, NEW op \in Updates, NEW to, Loads(w, op, to),
           NEW a \in AccountRow, a = account,
           to.status \in Statuses, to.hash \in [secret : Secrets, aged : BOOLEAN], to.failed \in Nat,
           to.lock \in {"NONE", "RUNNING", "EXPIRED"},
           to.version \in {a.version, a.version + 1},
           to.status # a.status /\ to.version = a.version => to.status = listed,
           to.hash # a.hash /\ op \notin {"CHANGE_PASSWORD", "RECOVER"} =>
              to.hash.secret = a.hash.secret,
           op = "MISS" /\ to.lock = a.lock => to.failed = a.failed + 1 /\ to.failed < MaxFailures,
           (op # "MISS" \/ to.lock # a.lock) /\ to.failed # a.failed => to.failed = 0,
           to.failed # a.failed => op \in {"MISS", "SIGN_IN", "RECOVER"},
           op = "SIGN_IN" => a.status = "ACTIVE"
    PROVE  AccountsInv'
<1> DEFINE D == {c \in Columns : to[c] # a[c]}
                \cup (IF op \in {"CHANGE_PASSWORD", "RECOVER"} THEN {"hash"} ELSE {})
           tokens == IF op = "SIGN_IN" THEN {a.version} ELSE {}
           r == [op |-> op, was |-> Restrict(a, D), to |-> Restrict(to, D), tokens |-> tokens]
<1>1. req' = [req EXCEPT ![w] = r] /\ UNCHANGED accountTables /\ account # NoRow
    BY DEF Loads, Begin
<1>2. to.version <= MaxTokenVersion /\ a.version \in 0 .. MaxTokenVersion
    BY AccountFields DEF Loads
<1>3. \A c \in Columns : to[c] \in Values[c] /\ a[c] \in Values[c]
  <2>1. to.version \in 0 .. MaxTokenVersion
      BY <1>2, AccountsAssumption
  <2>2. /\ Values["status"] = Statuses /\ Values["hash"] = [secret : Secrets, aged : BOOLEAN]
        /\ Values["failed"] = Nat /\ Values["lock"] = {"NONE", "RUNNING", "EXPIRED"}
        /\ Values["version"] = 0 .. MaxTokenVersion
      BY DEF Values
  <2>3. \A c \in Columns : to[c] \in Values[c]
      BY <2>1, <2>2 DEF Columns
  <2>4. QED
      BY <2>3, AccountFields
<1>4. D \subseteq Columns
    BY DEF Columns
<1>5. /\ DOMAIN r.to = D /\ DOMAIN r.was = D
      /\ \A c \in D : r.to[c] = to[c] /\ r.was[c] = a[c]
    BY DEF Restrict
<1>6. \A c \in Columns : c \in D <=> to[c] # a[c] \/ (c = "hash" /\ op \in {"CHANGE_PASSWORD", "RECOVER"})
    BY DEF Columns
<1>7. tokens \subseteq 0 .. MaxTokenVersion /\ r.tokens = tokens /\ r.op = op
    BY <1>2
<1> HIDE DEF D, r, tokens
<1>8. WritesInPart(r, D)
  <2>1. \A c \in D : r.to[c] \in Values[c] /\ r.was[c] \in Values[c]
      BY <1>3, <1>4, <1>5
  <2>2. "version" \in D => r.to.version = r.was.version + 1
      BY <1>5, <1>6 DEF Columns
  <2>3. "status" \in D /\ "version" \notin D => r.to.status = listed /\ r.was.status # listed
      BY <1>5, <1>6 DEF Columns
  <2>4. /\ r.op \in {"CHANGE_PASSWORD", "RECOVER"} => "hash" \in D
        /\ r.op \notin {"CHANGE_PASSWORD", "RECOVER"} /\ "hash" \in D =>
              r.to.hash.secret = r.was.hash.secret
      BY <1>5, <1>6, <1>7 DEF Columns
  <2>5. r.op = "MISS" /\ "lock" \notin D =>
          "failed" \in D /\ r.to.failed = r.was.failed + 1 /\ r.to.failed < MaxFailures
    <3>1. a.failed \in Nat
        BY AccountFields
    <3>2. QED
        BY <3>1, <1>5, <1>6, <1>7 DEF Columns
  <2>6. "failed" \in D /\ (r.op # "MISS" \/ "lock" \in D) => r.to.failed = 0
      BY <1>5, <1>6, <1>7 DEF Columns
  <2>7. "failed" \in D => r.op \in {"MISS", "SIGN_IN", "RECOVER"}
      BY <1>5, <1>6, <1>7 DEF Columns
  <2>8. QED
      BY <1>4, <1>5, <1>7, <2>1, <2>2, <2>3, <2>4, <2>5, <2>6, <2>7 DEF WritesInPart
<1>9. AccountRequest(r)
    BY <1>1, <1>5, <1>7, <1>8 DEF AccountRequest
<1>10. ASSUME NEW v \in r.tokens PROVE NotAhead(v)
  <2>1. op = "SIGN_IN" /\ v = a.version
      BY <1>7, <1>10 DEF tokens
  <2>2. a.version <= a.version
      BY <1>2
  <2>3. QED
      BY <2>1, <2>2 DEF NotAhead
<1>11. QED
    BY <1>1, <1>9, <1>10, AccountsRead

\* A commit of some columns.
LEMMA AccountCommits ==
    ASSUME AccountsInv, NEW w \in Workers, CommitAccount(w)
    PROVE  AccountsInv'
<1>0. /\ account \in AccountRow \cup {NoRow} /\ listed \in Statuses
      /\ handedOut \subseteq 0 .. MaxTokenVersion /\ revoked \subseteq handedOut
      /\ misses \in Nat /\ chosen \in Secrets \cup {NoRow} /\ stale \in BOOLEAN
      /\ req = [v \in Workers |-> req[v]]
    BY DEF AccountsInv
<1>1. PICK r : r = req[w]
    OBVIOUS
<1>2. PICK D : D = DOMAIN r.to
    OBVIOUS
<1>3. r.op \in Updates /\ account # NoRow /\ WritesInPart(r, D)
    BY <1>1, <1>2 DEF CommitAccount, AccountsInv, AccountRequest, Idle
<1>4. PICK a \in AccountRow : a = account
    BY <1>0, <1>3
<1>5. PICK b : b = Over(a, r.to)
    OBVIOUS
<1>6. b \in AccountRow /\ \A c \in Columns : b[c] = IF c \in D THEN r.to[c] ELSE a[c]
    BY <1>3, <1>5, OverIsRow DEF WritesInPart
<1> DEFINE counted == r.op = "MISS" /\ "lock" \notin D
<1>7. /\ account' = b /\ handedOut' = handedOut \cup r.tokens /\ listed' = listed
      /\ revoked' = IF "version" \in D \/ "status" \in D THEN handedOut ELSE revoked
      /\ misses' = IF counted THEN misses + 1
                   ELSE IF r.op \in {"MISS", "SIGN_IN", "RECOVER"} THEN 0 ELSE misses
      /\ chosen' = IF r.op \in {"CHANGE_PASSWORD", "RECOVER"} THEN r.to.hash.secret ELSE chosen
      /\ stale' = (stale \/ \E c \in D : a[c] # r.was[c])
      /\ req' = [req EXCEPT ![w] = Idle]
    BY <1>1, <1>2, <1>4, <1>5 DEF CommitAccount, Finish
<1>8. /\ req' = [v \in Workers |-> req'[v]]
      /\ \A v \in Workers : req'[v] = IF v = w THEN Idle ELSE req[v]
    BY <1>0, <1>7
<1>9. b # NoRow
    BY <1>6, AccountFields
<1>10. ASSUME NEW v \in Workers PROVE AccountRequest(req[v])'
  <2>1. CASE v = w
      BY <1>8, <2>1 DEF AccountRequest
  <2>2. CASE v # w
    <3>1. PICK s : s = req[v]
        OBVIOUS
    <3>2. AccountRequest(s) /\ req'[v] = s
        BY <1>8, <2>2, <3>1 DEF AccountsInv
    <3>3. AccountRequest(s)'
        BY <1>7, <1>9, <3>2 DEF AccountRequest, WritesInPart
    <3>4. QED
        BY <3>2, <3>3 DEF AccountRequest, WritesInPart
  <2>3. QED
      BY <2>1, <2>2
<1>11. /\ account' \in AccountRow \cup {NoRow} /\ listed' \in Statuses
       /\ handedOut' \subseteq 0 .. MaxTokenVersion /\ revoked' \subseteq handedOut'
       /\ misses' \in Nat /\ stale' \in BOOLEAN
    BY <1>0, <1>3, <1>6, <1>7 DEF WritesInPart
<1>12. chosen' \in Secrets \cup {NoRow}
  <2>1. CASE r.op \in {"CHANGE_PASSWORD", "RECOVER"}
    <3>1. r.to.hash = b.hash
        BY <1>3, <1>6, <2>1 DEF WritesInPart, Columns
    <3>2. QED
        BY <1>6, <1>7, <2>1, <3>1, AccountFields
  <2>2. CASE r.op \notin {"CHANGE_PASSWORD", "RECOVER"}
      BY <1>0, <1>7, <2>2
  <2>3. QED
      BY <2>1, <2>2
<1>13. ASSUME ~stale'
       PROVE  /\ \A v \in handedOut' : NotAhead(v)'
              /\ \A u \in Workers : req'[u].op \in Updates => \A v \in req'[u].tokens : NotAhead(v)'
              /\ b.status = "ACTIVE" => b.version \notin revoked'
              /\ b.hash.secret = chosen'
              /\ misses' <= b.failed /\ b.failed < MaxFailures
  <2>1. ~stale /\ \A c \in D : a[c] = r.was[c]
      BY <1>0, <1>7, <1>13
  <2>2. /\ \A v \in handedOut : NotAhead(v)
        /\ \A u \in Workers : req[u].op \in Updates => \A v \in req[u].tokens : NotAhead(v)
        /\ a.status = "ACTIVE" => a.version \notin revoked
        /\ a.hash.secret = chosen
        /\ misses <= a.failed /\ a.failed < MaxFailures
      BY <1>3, <1>4, <2>1 DEF AccountsInv
  <2>3. /\ a.version \in Int /\ b.version \in Int /\ a.failed \in Nat /\ b.failed \in Nat
        /\ a.status \in Statuses /\ b.status \in Statuses
      BY <1>6, AccountFields
  <2>4. /\ "version" \in D => b.version = a.version + 1
        /\ "version" \notin D => b.version = a.version
        /\ "status" \notin D => b.status = a.status
        /\ "status" \in D /\ "version" \notin D => b.status = listed /\ a.status # listed
      BY <1>3, <1>6, <2>1 DEF WritesInPart, Columns
  <2>5. ASSUME NEW v \in Int, NotAhead(v) PROVE NotAhead(v)'
    <3>1. v <= a.version /\ (listed = "ACTIVE" /\ a.status # "ACTIVE" => v < a.version)
        BY <1>4, <2>5 DEF NotAhead
    <3>2. v <= b.version /\ (listed = "ACTIVE" /\ b.status # "ACTIVE" => v < b.version)
        BY <2>3, <2>4, <3>1
    <3>3. QED
        BY <1>7, <3>2 DEF NotAhead
  <2>6. \A v \in handedOut' : NotAhead(v)'
    <3>1. \A v \in r.tokens : NotAhead(v) /\ v \in Int
        BY <1>1, <1>3, <2>2 DEF WritesInPart
    <3>2. QED
        BY <1>0, <1>7, <2>2, <2>5, <3>1
  <2>7. ASSUME NEW u \in Workers, req'[u].op \in Updates, NEW v \in req'[u].tokens
        PROVE  NotAhead(v)'
    <3>1. req'[u] = req[u]
        BY <1>8, <2>7 DEF Idle, Updates
    <3>2. AccountRequest(req[u]) /\ req[u].op \in Updates
        BY <2>7, <3>1 DEF AccountsInv
    <3>3. req[u].tokens \subseteq 0 .. MaxTokenVersion
        BY <3>2 DEF AccountRequest, WritesInPart, Idle, Updates
    <3>4. QED
        BY <2>2, <2>5, <2>7, <3>1, <3>2, <3>3
  <2>8. b.status = "ACTIVE" => b.version \notin revoked'
    <3>1. ASSUME NEW v \in handedOut PROVE v \in Int /\ v <= a.version
              /\ (listed = "ACTIVE" /\ a.status # "ACTIVE" => v < a.version)
        BY <1>0, <1>4, <2>2 DEF NotAhead
    <3>2. CASE "version" \in D
        BY <1>7, <2>3, <2>4, <3>1, <3>2
    <3>3. CASE "version" \notin D /\ "status" \in D
        BY <1>7, <2>3, <2>4, <3>1, <3>3
    <3>4. CASE "version" \notin D /\ "status" \notin D
        BY <1>7, <2>2, <2>4, <3>4
    <3>5. QED
        BY <3>2, <3>3, <3>4
  <2>9. b.hash.secret = chosen'
    <3>1. CASE r.op \in {"CHANGE_PASSWORD", "RECOVER"}
        BY <1>3, <1>6, <1>7, <3>1 DEF WritesInPart, Columns
    <3>2. CASE r.op \notin {"CHANGE_PASSWORD", "RECOVER"} /\ "hash" \in D
      <4>1. b.hash.secret = r.to.hash.secret /\ r.to.hash.secret = r.was.hash.secret /\ r.was.hash = a.hash
          BY <1>3, <1>6, <2>1, <3>2 DEF WritesInPart, Columns
      <4>2. QED
          BY <1>7, <2>2, <3>2, <4>1
    <3>3. CASE r.op \notin {"CHANGE_PASSWORD", "RECOVER"} /\ "hash" \notin D
        BY <1>6, <1>7, <2>2, <3>3 DEF Columns
    <3>4. QED
        BY <3>1, <3>2, <3>3
  <2>10. misses' <= b.failed /\ b.failed < MaxFailures
    <3>0. MaxFailures \in Nat /\ 0 < MaxFailures
        BY AccountsAssumption
    <3>1. b.failed = IF "failed" \in D THEN r.to.failed ELSE a.failed
        BY <1>6 DEF Columns
    <3>2. CASE counted
      <4>1. "failed" \in D /\ r.to.failed = r.was.failed + 1 /\ r.to.failed < MaxFailures
          BY <1>3, <3>2 DEF WritesInPart
      <4>2. b.failed = a.failed + 1 /\ b.failed < MaxFailures
          BY <2>1, <3>1, <4>1
      <4>3. QED
          BY <1>0, <1>7, <2>2, <2>3, <3>2, <4>2
    <3>3. CASE ~counted
      <4>1. "failed" \in D => r.to.failed = 0
          BY <1>3, <3>3 DEF WritesInPart
      <4>2. b.failed < MaxFailures
          BY <2>2, <3>0, <3>1, <4>1
      <4>3. misses' = 0 => misses' <= b.failed
          BY <2>3
      <4>4. CASE r.op \in {"MISS", "SIGN_IN", "RECOVER"}
          BY <1>7, <3>3, <4>2, <4>3, <4>4
      <4>5. CASE r.op \notin {"MISS", "SIGN_IN", "RECOVER"}
        <5>1. "failed" \notin D
            BY <1>3, <4>5 DEF WritesInPart
        <5>2. QED
            BY <1>7, <2>2, <3>1, <3>3, <4>5, <5>1
      <4>6. QED
          BY <4>4, <4>5
    <3>4. QED
        BY <3>2, <3>3
  <2>11. QED
      BY <2>6, <2>7, <2>8, <2>9, <2>10
<1>14. QED
    BY <1>7, <1>8, <1>9, <1>10, <1>11, <1>12, <1>13 DEF AccountsInv


\* What the handlers make of a row: each keeps to the shape LoadsKnows asks for.
LEMMA HandledRows ==
    ASSUME NEW a \in AccountRow, NEW secret \in Secrets, NEW status \in Statuses
    PROVE  /\ LET b == SignedIn(a)
              IN  /\ b.status = a.status /\ b.hash = HashOf(a.hash.secret) /\ b.failed = 0
                  /\ b.lock = "NONE" /\ b.version = a.version
           /\ LET b == Missed(a)
              IN  /\ b.status = a.status /\ b.hash = a.hash /\ b.version = a.version
                  /\ \/ b.failed = 0 /\ b.lock = "RUNNING"
                     \/ b.failed = a.failed + 1 /\ b.lock = a.lock /\ b.failed < MaxFailures
           /\ LET b == PasswordSet(a, secret)
              IN  /\ b.status = a.status /\ b.hash = HashOf(secret) /\ b.failed = a.failed
                  /\ b.lock = a.lock /\ b.version = a.version + 1
           /\ LET b == StatusSet(a, status)
              IN  /\ b.hash = a.hash /\ b.failed = a.failed /\ b.lock = a.lock
                  /\ b.status = status /\ b.version = IF a.status = status THEN a.version ELSE a.version + 1
           /\ LET b == Recovered(a, status, secret)
              IN  /\ b.status = status /\ b.hash = HashOf(secret) /\ b.failed = 0
                  /\ b.lock = "NONE" /\ b.version = a.version + 1
<1>0. a.failed \in Nat /\ MaxFailures \in Nat
    BY AccountFields, AccountsAssumption
<1>1. LET b == SignedIn(a)
      IN  /\ b.status = a.status /\ b.hash = HashOf(a.hash.secret) /\ b.failed = 0
          /\ b.lock = "NONE" /\ b.version = a.version
    BY DEF SignedIn, AccountRow
<1>2. LET b == Missed(a)
      IN  /\ b.status = a.status /\ b.hash = a.hash /\ b.version = a.version
          /\ \/ b.failed = 0 /\ b.lock = "RUNNING"
             \/ b.failed = a.failed + 1 /\ b.lock = a.lock /\ b.failed < MaxFailures
  <2>1. CASE a.failed + 1 >= MaxFailures
      BY <2>1 DEF Missed, AccountRow
  <2>2. CASE ~(a.failed + 1 >= MaxFailures)
    <3>1. Missed(a) = [a EXCEPT !.failed = a.failed + 1]
        BY <2>2 DEF Missed
    <3>2. a.failed + 1 < MaxFailures
        BY <1>0, <2>2
    <3>3. QED
        BY <3>1, <3>2 DEF AccountRow
  <2>3. QED
      BY <2>1, <2>2
<1>3. LET b == PasswordSet(a, secret)
      IN  /\ b.status = a.status /\ b.hash = HashOf(secret) /\ b.failed = a.failed
          /\ b.lock = a.lock /\ b.version = a.version + 1
    BY DEF PasswordSet, AccountRow
<1>4. LET b == StatusSet(a, status)
      IN  /\ b.hash = a.hash /\ b.failed = a.failed /\ b.lock = a.lock
          /\ b.status = status /\ b.version = IF a.status = status THEN a.version ELSE a.version + 1
    BY DEF StatusSet, AccountRow
<1>5. LET b == Recovered(a, status, secret)
      IN  /\ b.status = status /\ b.hash = HashOf(secret) /\ b.failed = 0
          /\ b.lock = "NONE" /\ b.version = a.version + 1
    BY DEF Recovered, PasswordSet, AccountRow
<1>6. QED
    BY <1>1, <1>2, <1>3, <1>4, <1>5

LEMMA HashesAreHashes ==
    ASSUME NEW secret \in Secrets
    PROVE  HashOf(secret) \in [secret : Secrets, aged : BOOLEAN] /\ HashOf(secret).secret = secret
    BY DEF HashOf

LEMMA AccountsInvNext == AccountsInv /\ [AccountsNext]_accountsVars => AccountsInv'
<1> SUFFICES ASSUME AccountsInv, [AccountsNext]_accountsVars PROVE AccountsInv'
    OBVIOUS
<1>0. /\ account \in AccountRow \cup {NoRow} /\ listed \in Statuses
      /\ handedOut \subseteq 0 .. MaxTokenVersion /\ revoked \subseteq handedOut
      /\ misses \in Nat /\ chosen \in Secrets \cup {NoRow} /\ stale \in BOOLEAN
      /\ req = [v \in Workers |-> req[v]] /\ "ACTIVE" \in Statuses
    BY DEF AccountsInv, Statuses
<1>1. ASSUME NEW w \in Workers, NEW secret \in Secrets, Login(w, secret)
      PROVE  AccountsInv'
  <2>1. PICK a \in AccountRow : a = account
      BY <1>0, <1>1 DEF Login
  <2>2. a.status = "ACTIVE" /\ a.lock # "RUNNING"
      BY <1>1, <2>1 DEF Login
  <2>3. /\ a.status \in Statuses /\ a.hash \in [secret : Secrets, aged : BOOLEAN] /\ a.failed \in Nat
        /\ a.lock \in {"NONE", "RUNNING", "EXPIRED"} /\ a.hash.secret \in Secrets
        /\ a.version \in 0 .. MaxTokenVersion
      BY AccountFields
  <2>4. CASE Loads(w, "SIGN_IN", SignedIn(account))
    <3>1. PICK b : b = SignedIn(a)
        OBVIOUS
    <3>2. /\ b.status = a.status /\ b.hash = HashOf(a.hash.secret) /\ b.failed = 0
          /\ b.lock = "NONE" /\ b.version = a.version
        BY <3>1, HandledRows, <1>0, <1>1
    <3>3. b.hash \in [secret : Secrets, aged : BOOLEAN] /\ b.hash.secret = a.hash.secret
        BY <2>3, <3>2, HashesAreHashes
    <3>4. Loads(w, "SIGN_IN", b) /\ "SIGN_IN" \in Updates
        BY <2>1, <2>4, <3>1 DEF Updates
    <3>5. QED
        BY <2>1, <2>2, <2>3, <3>2, <3>3, <3>4, LoadsKnows
  <2>5. CASE Loads(w, "MISS", Missed(account))
    <3>1. PICK b : b = Missed(a)
        OBVIOUS
    <3>2. /\ b.status = a.status /\ b.hash = a.hash /\ b.version = a.version
          /\ \/ b.failed = 0 /\ b.lock = "RUNNING"
             \/ b.failed = a.failed + 1 /\ b.lock = a.lock /\ b.failed < MaxFailures
        BY <3>1, HandledRows, <1>0, <1>1
    <3>3. b.failed \in Nat /\ b.lock \in {"NONE", "RUNNING", "EXPIRED"}
        BY <2>3, <3>2
    <3>4. Loads(w, "MISS", b) /\ "MISS" \in Updates
        BY <2>1, <2>5, <3>1 DEF Updates
    <3>5. /\ b.lock = a.lock => b.failed = a.failed + 1 /\ b.failed < MaxFailures
          /\ b.lock # a.lock => b.failed = 0
        BY <2>2, <3>2
    <3>6. QED
        BY <2>1, <2>2, <2>3, <3>2, <3>3, <3>4, <3>5, LoadsKnows
  <2>6. QED
      BY <1>1, <2>4, <2>5 DEF Login
<1>2. ASSUME NEW w \in Workers, NEW secret \in Secrets, Bootstrap(w, secret)
      PROVE  AccountsInv'
  <2>1. PICK a \in AccountRow : a = account
      BY <1>0, <1>2 DEF Bootstrap
  <2>2. /\ a.status \in Statuses /\ a.hash \in [secret : Secrets, aged : BOOLEAN] /\ a.failed \in Nat
        /\ a.lock \in {"NONE", "RUNNING", "EXPIRED"} /\ a.version \in 0 .. MaxTokenVersion
      BY AccountFields
  <2>3. CASE Loads(w, "SYNC", Synchronized(account))
    <3>1. PICK b : b = Synchronized(a)
        OBVIOUS
    <3>2. /\ b.status = listed /\ b.hash = a.hash /\ b.failed = a.failed
          /\ b.lock = a.lock /\ b.version = a.version
        BY <3>1 DEF Synchronized, AccountRow
    <3>3. Loads(w, "SYNC", b) /\ "SYNC" \in Updates
        BY <2>1, <2>3, <3>1 DEF Updates
    <3>4. QED
        BY <1>0, <2>1, <2>2, <3>2, <3>3, LoadsKnows
  <2>4. ASSUME NEW status \in {listed, "ACTIVE"}, Loads(w, "RECOVER", Recovered(account, status, secret))
        PROVE  AccountsInv'
    <3>1. PICK b : b = Recovered(a, status, secret)
        OBVIOUS
    <3>2. /\ b.status = status /\ b.hash = HashOf(secret) /\ b.failed = 0
          /\ b.lock = "NONE" /\ b.version = a.version + 1 /\ status \in Statuses
        BY <1>0, <1>2, <2>4, <3>1, HandledRows
    <3>3. b.hash \in [secret : Secrets, aged : BOOLEAN]
        BY <1>2, <3>2, HashesAreHashes
    <3>4. Loads(w, "RECOVER", b) /\ "RECOVER" \in Updates
        BY <2>1, <2>4, <3>1 DEF Updates
    <3>5. b.version # a.version
        BY <2>2, <3>2
    <3>6. QED
        BY <2>1, <2>2, <3>2, <3>3, <3>4, <3>5, LoadsKnows
  <2>5. QED
      BY <1>2, <2>3, <2>4 DEF Bootstrap
<1>3. ASSUME NEW w \in Workers, NEW v \in handedOut, NEW current \in Secrets, NEW new \in Secrets,
             ChangePassword(w, v, current, new)
      PROVE  AccountsInv'
  <2>1. PICK a \in AccountRow : a = account
      BY <1>0, <1>3 DEF ChangePassword
  <2>2. /\ a.status \in Statuses /\ a.failed \in Nat
        /\ a.lock \in {"NONE", "RUNNING", "EXPIRED"} /\ a.version \in 0 .. MaxTokenVersion
      BY AccountFields
  <2>3. PICK b : b = PasswordSet(a, new)
      OBVIOUS
  <2>4. /\ b.status = a.status /\ b.hash = HashOf(new) /\ b.failed = a.failed
        /\ b.lock = a.lock /\ b.version = a.version + 1
      BY <1>0, <1>3, <2>3, HandledRows
  <2>5. b.hash \in [secret : Secrets, aged : BOOLEAN]
      BY <1>3, <2>4, HashesAreHashes
  <2>6. Loads(w, "CHANGE_PASSWORD", b) /\ "CHANGE_PASSWORD" \in Updates
      BY <1>3, <2>1, <2>3 DEF ChangePassword, Updates
  <2>7. QED
      BY <2>1, <2>2, <2>4, <2>5, <2>6, LoadsKnows
<1>4. ASSUME NEW w \in Workers, NEW status \in Statuses, SetUserStatus(w, status)
      PROVE  AccountsInv'
  <2>1. PICK a \in AccountRow : a = account
      BY <1>0, <1>4 DEF SetUserStatus
  <2>2. /\ a.status \in Statuses /\ a.hash \in [secret : Secrets, aged : BOOLEAN] /\ a.failed \in Nat
        /\ a.hash.secret \in Secrets
        /\ a.lock \in {"NONE", "RUNNING", "EXPIRED"} /\ a.version \in 0 .. MaxTokenVersion
      BY AccountFields
  <2>3. PICK b : b = StatusSet(a, status)
      OBVIOUS
  <2>4. /\ b.hash = a.hash /\ b.failed = a.failed /\ b.lock = a.lock
        /\ b.status = status /\ b.version = IF a.status = status THEN a.version ELSE a.version + 1
      BY <1>4, <2>2, <2>3, HandledRows
  <2>5. Loads(w, "SET_STATUS", b) /\ "SET_STATUS" \in Updates
      BY <1>4, <2>1, <2>3 DEF SetUserStatus, Updates
  <2>6. b.version \in {a.version, a.version + 1} /\ (b.status # a.status => b.version # a.version)
      BY <2>2, <2>4
  <2>7. QED
      BY <1>4, <2>1, <2>2, <2>4, <2>5, <2>6, LoadsKnows
<1>5. ASSUME NEW w \in Workers, NEW status \in {listed, "ACTIVE"}, NEW secret \in Secrets,
             CreateAccount(w, status, secret)
      PROVE  AccountsInv'
  <2>1. PICK row : row = NewAccount(status, secret)
      OBVIOUS
  <2>2. row \in AccountRow /\ row.status \in {listed, "ACTIVE"} /\ row.failed = 0
      BY <1>0, <1>5, <2>1, NewAccountFields
  <2> DEFINE r == [op |-> "CREATE", to |-> row]
  <2>3. AccountRequest(r) /\ r.op \notin Updates
      BY <2>2 DEF AccountRequest, Updates
  <2>4. req' = [req EXCEPT ![w] = r] /\ UNCHANGED accountTables
      BY <1>5, <2>1 DEF CreateAccount, Begin
  <2>5. QED
      BY <2>3, <2>4, AccountsRead
<1>6. ASSUME NEW w \in Workers, CommitCreate(w)
      PROVE  AccountsInv'
  <2>1. AccountRequest(Idle) /\ Idle.op \notin Updates /\ req' = [req EXCEPT ![w] = Idle]
      BY <1>6 DEF AccountRequest, Idle, Updates, CommitCreate, Finish
  <2>2. CASE UNCHANGED accountTables
      BY <2>1, <2>2, AccountsRead
  <2>3. CASE /\ account = NoRow /\ account' = req[w].to /\ chosen' = req[w].to.hash.secret
             /\ UNCHANGED <<listed, handedOut, revoked, misses, stale>>
    <3>1. PICK to : to = req[w].to
        OBVIOUS
    <3>2. to \in AccountRow /\ to.failed = 0
        BY <1>6, <2>3, <3>1 DEF CommitCreate, AccountsInv, AccountRequest, Idle
    <3>3. handedOut = {} /\ revoked = {} /\ misses = 0
        BY <1>0, <2>3 DEF AccountsInv
    <3>4. \A v \in Workers : req'[v] = IF v = w THEN Idle ELSE req[v]
        BY <1>0, <2>1
    <3>5. \A v \in Workers : AccountRequest(req[v])' /\ req'[v].op \notin Updates
      <4> SUFFICES ASSUME NEW v \in Workers PROVE AccountRequest(req[v])' /\ req'[v].op \notin Updates
          OBVIOUS
      <4>1. AccountRequest(req'[v])
          BY <2>1, <3>4 DEF AccountsInv
      <4>2. req'[v] = Idle \/ (/\ req'[v].op = "CREATE" /\ req'[v].to \in AccountRow
                               /\ req'[v].to.status \in {listed, "ACTIVE"} /\ req'[v].to.failed = 0)
          BY <2>3, <4>1 DEF AccountRequest
      <4>3. QED
          BY <2>3, <4>2 DEF AccountRequest, Updates, Idle
    <3>6. to # NoRow /\ to.hash.secret \in Secrets /\ 0 < MaxFailures
        BY <3>2, AccountFields, AccountsAssumption
    <3>7. req' = [v \in Workers |-> req'[v]]
        BY <1>0, <2>1
    <3>8. account' = to /\ chosen' = to.hash.secret /\ UNCHANGED <<listed, handedOut, revoked, misses, stale>>
        BY <2>3, <3>1
    <3>9. /\ misses' <= account'.failed /\ account'.failed < MaxFailures
          /\ account'.status = "ACTIVE" => account'.version \notin revoked'
          /\ \A v \in handedOut' : NotAhead(v)'
        BY <3>2, <3>3, <3>6, <3>8
    <3>10. QED
        BY <1>0, <3>2, <3>3, <3>5, <3>6, <3>7, <3>8, <3>9 DEF AccountsInv
  <2>4. QED
      BY <1>6, <2>2, <2>3 DEF CommitCreate
<1>7. CASE LockExpires
  <2>1. PICK a \in AccountRow : a = account
      BY <1>0, <1>7 DEF LockExpires
  <2>2. PICK b : b = [a EXCEPT !.lock = "EXPIRED"]
      OBVIOUS
  <2>3. /\ b \in AccountRow /\ b.status = a.status /\ b.version = a.version /\ b.failed = a.failed
        /\ b.hash = a.hash
      BY <2>2 DEF AccountRow
  <2>4. account' = b /\ b # NoRow /\ UNCHANGED <<listed, handedOut, revoked, misses, chosen, req, stale>>
      BY <1>7, <2>1, <2>2, <2>3, AccountFields DEF LockExpires
  <2>5. \A v \in Workers : AccountRequest(req[v])'
      BY <2>4 DEF AccountsInv, AccountRequest, WritesInPart
  <2>6. \A v : NotAhead(v) => NotAhead(v)'
      BY <2>1, <2>3, <2>4 DEF NotAhead
  <2>7. a # NoRow
      BY AccountFields
  <2>8. QED
      BY <1>0, <2>1, <2>3, <2>4, <2>5, <2>6, <2>7 DEF AccountsInv
<1>8. CASE UNCHANGED accountsVars
  <2>1. UNCHANGED <<account, listed, handedOut, revoked, misses, chosen, req, stale>>
      BY <1>8 DEF accountsVars
  <2>2. \A v \in Workers : AccountRequest(req[v])'
      BY <2>1 DEF AccountsInv, AccountRequest, WritesInPart
  <2>3. \A v : NotAhead(v) => NotAhead(v)'
      BY <2>1 DEF NotAhead
  <2>4. QED
      BY <2>1, <2>2, <2>3 DEF AccountsInv
<1>9. QED
    BY <1>1, <1>2, <1>3, <1>4, <1>5, <1>6, <1>7, <1>8, AccountCommits DEF AccountsNext

\* The row of the account and what requests will write to it have their types.
THEOREM AccountTypesAreKept == AccountsSpec => []AccountsTypeOK
<1>1. ASSUME AccountsInv PROVE AccountsTypeOK
  <2>1. ASSUME NEW w \in Workers
        PROVE  \/ req[w] = Idle
               \/ req[w].op = "CREATE" /\ req[w].to \in AccountRow
               \/ req[w].op \in Updates
                  /\ Over(account, req[w].was) \in AccountRow /\ Over(account, req[w].to) \in AccountRow
    <3>1. AccountRequest(req[w])
        BY <1>1 DEF AccountsInv
    <3>2. ASSUME req[w].op \in Updates, account # NoRow, WritesInPart(req[w], DOMAIN req[w].to)
          PROVE  Over(account, req[w].was) \in AccountRow /\ Over(account, req[w].to) \in AccountRow
      <4>1. account \in AccountRow
          BY <1>1, <3>2 DEF AccountsInv
      <4>2. PICK D : D = DOMAIN req[w].to
          OBVIOUS
      <4>3. /\ D \subseteq Columns /\ DOMAIN req[w].to = D /\ DOMAIN req[w].was = D
            /\ \A c \in D : req[w].to[c] \in Values[c] /\ req[w].was[c] \in Values[c]
          BY <3>2, <4>2 DEF WritesInPart
      <4>4. QED
          BY <4>1, <4>3, OverIsRow
    <3>3. QED
        BY <3>1, <3>2 DEF AccountRequest
  <2>2. QED
      BY <1>1, <2>1 DEF AccountsInv, AccountsTypeOK, Updates
<1>2. QED
    BY AccountsInvInit, AccountsInvNext, <1>1, PTL DEF AccountsSpec

\* No token from before a change of credentials is accepted again, although
\* the start-up script writes a status without a new version, and a login that
\* renews the hash never brings an old password back.
THEOREM CredentialChangesHold == AccountsSpec => []CredentialChangesTakeHold
<1>1. AccountsInv => CredentialChangesTakeHold
  <2> SUFFICES ASSUME AccountsInv, ~stale, account # NoRow
               PROVE  (\A v \in revoked : ~Accepted(v)) /\ account.hash.secret = chosen
      BY DEF CredentialChangesTakeHold
  <2>1. QED
      BY DEF AccountsInv, Accepted
<1>2. QED
    BY AccountsInvInit, AccountsInvNext, <1>1, PTL DEF AccountsSpec

\* The failure counter loses no wrong answer but by a stale commit, and never
\* stands at the limit: the lock comes with the answer that reaches it.
THEOREM NoWrongAnswerIsLost == AccountsSpec => []WrongAnswersCount
<1>1. AccountsInv => WrongAnswersCount
    BY DEF AccountsInv, WrongAnswersCount
<1>2. QED
    BY AccountsInvInit, AccountsInvNext, <1>1, PTL DEF AccountsSpec
=============================================================================
