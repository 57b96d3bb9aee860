------------------------------- MODULE Ledger -------------------------------
(***************************************************************************)
(* The finance of one engagement: its invoices, what was received against  *)
(* each, its expenses, and the economics report, which adds them up in     *)
(* three selects (app/routers/finance.py).  A sum the report takes over    *)
(* the invoices is kept as what each of them adds to it.                   *)
(***************************************************************************)
EXTENDS Requests

CONSTANTS
    Invoices,       \* ids of the invoices that can exist
    Currencies,
    Totals,         \* total_minor of an invoice: subtotal, VAT and tax together
    Amounts,        \* amount_minor of a receipt or an expense
    MaxExpenses     \* bound: no expense is recorded beyond this sum

ASSUME LedgerAssumption ==
    /\ Totals \subseteq Nat \ {0}    \* InvoiceCreateRequest: subtotal_minor > 0
    /\ Amounts \subseteq Nat \ {0}   \* ReceiptCreateRequest: amount_minor > 0
    /\ MaxExpenses \in Nat

VARIABLES
    currency,   \* fee_currency of the engagement
    invoice,    \* the committed invoices, NoRow for an id without one
    received,   \* for each invoice, the sum of its receipts
    approvals,  \* for each invoice, how many INVOICE_APPROVED rows the trail has
    expenses    \* the sum of the recorded expenses

ledgerTables == <<currency, invoice, received, approvals, expenses, stale>>

ledgerVars == <<currency, invoice, received, approvals, expenses, req, stale>>

InvoiceRow == [currency : Currencies, total : Totals, status : {"DRAFT", "APPROVED"}, version : Nat]

\* Mutant: the status of a new invoice is not one the other handlers know.
NewInvoiceOpen(c, total) == [currency |-> c, total |-> total, status |-> "OPEN", version |-> 1]

NewInvoice(c, total) == [currency |-> c, total |-> total, status |-> "DRAFT", version |-> 1]

InvoiceRequest == [op : {"INVOICE"}, invoice : Invoices, row : InvoiceRow]

ApprovalRequest == [op : {"APPROVE_INVOICE"}, invoice : Invoices, row : InvoiceRow]

ReceiptRequest == [op : {"RECEIPT"}, at : {"sum", "commit"}, invoice : Invoices, row : InvoiceRow,
                   amount : Amounts, sum : Nat]

ReportRequest == [op : {"ECONOMICS"}, at : {"invoiced", "receipts", "expenses"},
                  invoiced : [Invoices -> Nat], receipts : [Invoices -> Nat]]

LedgerRequest == InvoiceRequest \cup ApprovalRequest \cup ReceiptRequest \cup ReportRequest

Issued == {i \in Invoices : invoice[i] # NoRow}

Approved(i) == invoice[i] # NoRow /\ invoice[i].status = "APPROVED"

Nothing == [i \in Invoices |-> 0]

\* Mutant: the report counts drafts as well.
InvoicedInAnyStatus == [i \in Invoices |-> IF i \in Issued THEN invoice[i].total ELSE 0]

\* The addends of the first select of the report.
Invoiced == [i \in Invoices |-> IF Approved(i) THEN invoice[i].total ELSE 0]

-----------------------------------------------------------------------------
LedgerInit ==
    /\ currency \in Currencies
    /\ invoice = [i \in Invoices |-> NoRow]
    /\ received = Nothing
    /\ approvals = Nothing
    /\ expenses = 0
    /\ req = [w \in Workers |-> Idle]
    /\ stale = FALSE

\* update_engagement gives another fee currency; invoices are not looked at.
ChangeCurrency(w, c) ==
    /\ req[w] = Idle
    /\ currency' = c
    /\ UNCHANGED <<invoice, received, approvals, expenses, req, stale>>

\* create_invoice: the currency of the request is the one of the engagement,
\* or it is refused.  An id is given once.
CreateInvoice(w, i, total) ==
    /\ i \notin Issued
    /\ \A v \in Workers : req[v].op = "INVOICE" => req[v].invoice # i
    /\ Begin(w, [op |-> "INVOICE", invoice |-> i, row |-> NewInvoice(currency, total)])
    /\ UNCHANGED ledgerTables

CommitInvoice(w) ==
    LET r == req[w]
    IN  /\ r.op = "INVOICE"
        /\ invoice' = [invoice EXCEPT ![r.invoice] = r.row]
        /\ stale' = (stale \/ currency # r.row.currency)
        /\ Finish(w)
        /\ UNCHANGED <<currency, received, approvals, expenses>>

\* approve_invoice: version and status are those of the loaded row.
ApproveInvoice(w, i) ==
    /\ i \in Issued /\ invoice[i].status = "DRAFT"
    /\ Begin(w, [op |-> "APPROVE_INVOICE", invoice |-> i, row |-> invoice[i]])
    /\ UNCHANGED ledgerTables

CommitApproval(w) ==
    LET r == req[w]
    IN  /\ r.op = "APPROVE_INVOICE"
        /\ invoice' = [invoice EXCEPT ![r.invoice].status = "APPROVED",
                                      ![r.invoice].version = r.row.version + 1]
        /\ approvals' = [approvals EXCEPT ![r.invoice] = @ + 1]
        /\ stale' = (stale \/ invoice[r.invoice] # r.row)
        /\ Finish(w)
        /\ UNCHANGED <<currency, received, expenses>>

\* record_receipt: load the invoice, which must be approved ...
RecordReceipt(w, i, amount) ==
    /\ Approved(i)
    /\ Begin(w, [op |-> "RECEIPT", at |-> "sum", invoice |-> i, row |-> invoice[i],
                 amount |-> amount, sum |-> 0])
    /\ UNCHANGED ledgerTables

\* Mutant: the new amount is not counted.
SumReceiptsSoFar(w) ==
    LET r == req[w]
    IN  /\ r.op = "RECEIPT" /\ r.at = "sum"
        /\ IF received[r.invoice] >= r.row.total
           THEN Finish(w)
           ELSE req' = [req EXCEPT ![w].at = "commit", ![w].sum = received[r.invoice]]
        /\ UNCHANGED ledgerTables

\* ... add up its receipts, and refuse what would exceed the balance ...
SumReceipts(w) ==
    LET r == req[w]
    IN  /\ r.op = "RECEIPT" /\ r.at = "sum"
        /\ IF received[r.invoice] + r.amount > r.row.total
           THEN Finish(w)
           ELSE req' = [req EXCEPT ![w].at = "commit", ![w].sum = received[r.invoice]]
        /\ UNCHANGED ledgerTables

\* ... then insert the receipt.
CommitReceipt(w) ==
    LET r == req[w]
    IN  /\ r.op = "RECEIPT" /\ r.at = "commit"
        /\ received' = [received EXCEPT ![r.invoice] = @ + r.amount]
        /\ stale' = (stale \/ received[r.invoice] # r.sum \/ invoice[r.invoice] # r.row)
        /\ Finish(w)
        /\ UNCHANGED <<currency, invoice, approvals, expenses>>

\* record_expense: one insert that depends on nothing.
RecordExpense(w, amount) ==
    /\ req[w] = Idle
    /\ expenses + amount <= MaxExpenses
    /\ expenses' = expenses + amount
    /\ UNCHANGED <<currency, invoice, received, approvals, req, stale>>

\* engagement_economics: three sums, each of its own moment.  The second joins
\* the receipts to their invoices and does not ask for the invoice's status;
\* the third is followed by the answer.
ViewEconomics(w) ==
    /\ Begin(w, [op |-> "ECONOMICS", at |-> "invoiced", invoiced |-> Nothing, receipts |-> Nothing])
    /\ UNCHANGED ledgerTables

SumInvoices(w) ==
    /\ req[w].op = "ECONOMICS" /\ req[w].at = "invoiced"
    /\ req' = [req EXCEPT ![w].at = "receipts", ![w].invoiced = Invoiced]
    /\ UNCHANGED ledgerTables

SumReceived(w) ==
    /\ req[w].op = "ECONOMICS" /\ req[w].at = "receipts"
    /\ req' = [req EXCEPT ![w].at = "expenses", ![w].receipts = received]
    /\ UNCHANGED ledgerTables

SumExpenses(w) ==
    /\ req[w].op = "ECONOMICS" /\ req[w].at = "expenses"
    /\ Finish(w)
    /\ UNCHANGED ledgerTables

LedgerRequestArrives(w) ==
    \/ \E c \in Currencies : ChangeCurrency(w, c)
    \/ \E i \in Invoices, total \in Totals : CreateInvoice(w, i, total)
    \/ \E i \in Invoices : ApproveInvoice(w, i)
    \/ \E i \in Invoices, amount \in Amounts : RecordReceipt(w, i, amount)
    \/ \E amount \in Amounts : RecordExpense(w, amount)
    \/ ViewEconomics(w)

LedgerRequestStep(w) ==
    \/ CommitInvoice(w)
    \/ CommitApproval(w)
    \/ SumReceipts(w)
    \/ CommitReceipt(w)
    \/ SumInvoices(w)
    \/ SumReceived(w)
    \/ SumExpenses(w)

LedgerNext == \E w \in Workers : LedgerRequestArrives(w) \/ LedgerRequestStep(w)

LedgerSpec == LedgerInit /\ [][LedgerNext]_ledgerVars
-----------------------------------------------------------------------------
(* Properties.                                                             *)

LedgerTypeOK ==
    /\ currency \in Currencies
    /\ invoice \in [Invoices -> InvoiceRow \cup {NoRow}]
    /\ received \in [Invoices -> Nat]
    /\ approvals \in [Invoices -> Nat]
    /\ expenses \in Nat
    /\ req \in [Workers -> {Idle} \cup LedgerRequest]
    /\ stale \in BOOLEAN

\* What may be received against an invoice: nothing before its approval.
Due(i) == IF Approved(i) THEN invoice[i].total ELSE 0

\* Unless stale, no invoice has received more than its total, nor anything
\* before its approval: the two checks of record_receipt, made on a row and a
\* sum that other requests may have outdated by the time of the insert; and
\* the trail tells of one approval for each approved invoice and of none for a
\* draft, however approvals overlap.
LedgerBalances ==
    ~stale => \A i \in Invoices :
        /\ received[i] <= Due(i)
        /\ approvals[i] = IF Approved(i) THEN 1 ELSE 0

\* Whatever commits between the selects of the report, it never shows more
\* outstanding on an invoice than is outstanding when the receipts are read:
\* the invoices are added up first, and what they claim only grows.
ReportIsCautious ==
    [][\A w \in Workers :
          req[w].op = "ECONOMICS" /\ req[w].at = "receipts" /\ req'[w] # req[w]
          => \A i \in Invoices :
                req'[w].invoiced[i] - req'[w].receipts[i] <= Due(i) - received[i]]_ledgerVars

\* What README.md promises without a condition ("Invoice, receipt and
\* outstanding balances reconcile") and two overlapping receipts break.
NeverOverpaid == \A i \in Invoices : received[i] <= Due(i)
=============================================================================
