----------------------------- MODULE Operations -----------------------------
(***************************************************************************)
(* Notifications, readiness checks and backup verifications               *)
(* (app/routers/operations.py).  Each change of a row is told by an event; *)
(* the reports, which change nothing, are left out.                        *)
(***************************************************************************)
EXTENDS Requests

CONSTANTS
    Notifications,
    CheckKeys,      \* what check_key can be
    References      \* what backup_reference can be

VARIABLES
    notification,   \* the status of each notification, NONE for no row
    deliveries,     \* how many NOTIFICATION_DELIVERED events it has
    check,          \* the verdict each readiness check shows, NONE for no row
    verdict,        \* the verdict of its last event
    verified        \* the references of the backup verifications, in commit order

operationsTables == <<notification, deliveries, check, verdict, verified, stale>>

operationsVars == <<notification, deliveries, check, verdict, verified, req, stale>>

Verdict == {"PASSED", "FAILED"}

OperationsRequest ==
    [op : {"DELIVER"}, notification : Notifications, row : {"PENDING", "DELIVERED"}]
    \cup [op : {"CHECK"}, key : CheckKeys, row : Verdict \cup {"NONE"}, to : Verdict]
    \cup [op : {"VERIFY"}, reference : References]

-----------------------------------------------------------------------------
OperationsInit ==
    /\ notification = [n \in Notifications |-> "NONE"]
    /\ deliveries = [n \in Notifications |-> 0]
    /\ check = [k \in CheckKeys |-> "NONE"] /\ verdict = [k \in CheckKeys |-> "NONE"]
    /\ verified = <<>>
    /\ req = [w \in Workers |-> Idle]
    /\ stale = FALSE

CreateNotification(w, n) ==
    /\ req[w] = Idle /\ notification[n] = "NONE"
    /\ notification' = [notification EXCEPT ![n] = "PENDING"]
    /\ UNCHANGED <<deliveries, check, verdict, verified, req, stale>>

\* Mutant: what is delivered is delivered again.
DeliverAgain(w, n) ==
    /\ notification[n] # "NONE"
    /\ Begin(w, [op |-> "DELIVER", notification |-> n, row |-> notification[n]])
    /\ UNCHANGED operationsTables

\* deliver_notification, up to the commit; a delivered one is only shown.
DeliverNotification(w, n) ==
    /\ notification[n] = "PENDING"
    /\ Begin(w, [op |-> "DELIVER", notification |-> n, row |-> notification[n]])
    /\ UNCHANGED operationsTables

CommitDelivery(w) ==
    LET n == req[w].notification
    IN  /\ req[w].op = "DELIVER"
        /\ notification' = [notification EXCEPT ![n] = "DELIVERED"]
        /\ deliveries' = [deliveries EXCEPT ![n] = @ + 1]
        /\ stale' = (stale \/ notification[n] # req[w].row)
        /\ Finish(w)
        /\ UNCHANGED <<check, verdict, verified>>

UpsertCheck(w, k, to) ==
    /\ Begin(w, [op |-> "CHECK", key |-> k, row |-> check[k], to |-> to])
    /\ UNCHANGED operationsTables

\* An insert that comes second is refused; an update writes the verdict only
\* where it differs from the one loaded.
CommitCheck(w) ==
    LET r == req[w]
    IN  /\ r.op = "CHECK"
        /\ Finish(w)
        /\ IF r.row = "NONE" /\ check[r.key] # "NONE"
           THEN UNCHANGED operationsTables
           ELSE /\ check' = [check EXCEPT ![r.key] = Column(@, r.row, r.to)]
                /\ verdict' = [verdict EXCEPT ![r.key] = r.to]
                /\ stale' = (stale \/ check[r.key] # r.row)
                /\ UNCHANGED <<notification, deliveries, verified>>

\* record_backup_verification: the reference is looked up, and inserted if no
\* other request has done so in between.
VerifyBackup(w, ref) ==
    /\ ref \notin {verified[n] : n \in DOMAIN verified}
    /\ Begin(w, [op |-> "VERIFY", reference |-> ref])
    /\ UNCHANGED operationsTables

CommitVerification(w) ==
    LET ref == req[w].reference
    IN  /\ req[w].op = "VERIFY"
        /\ verified' = IF ref \in {verified[n] : n \in DOMAIN verified} THEN verified
                       ELSE Append(verified, ref)
        /\ Finish(w)
        /\ UNCHANGED <<notification, deliveries, check, verdict, stale>>

OperationsNext == \E w \in Workers :
    \/ \E n \in Notifications : CreateNotification(w, n) \/ DeliverNotification(w, n)
    \/ \E k \in CheckKeys, to \in Verdict : UpsertCheck(w, k, to)
    \/ \E ref \in References : VerifyBackup(w, ref)
    \/ CommitDelivery(w)
    \/ CommitCheck(w)
    \/ CommitVerification(w)

OperationsSpec == OperationsInit /\ [][OperationsNext]_operationsVars
-----------------------------------------------------------------------------
(* Properties.                                                             *)

OperationsTypeOK ==
    /\ notification \in [Notifications -> {"NONE", "PENDING", "DELIVERED"}]
    /\ deliveries \in [Notifications -> Nat]
    /\ check \in [CheckKeys -> Verdict \cup {"NONE"}] /\ verdict \in [CheckKeys -> Verdict \cup {"NONE"}]
    /\ verified \in Seq(References)
    /\ req \in [Workers -> {Idle} \cup OperationsRequest]
    /\ stale \in BOOLEAN

\* Unless stale, the events tell what the rows show: one delivery of each
\* delivered notification, and the last verdict of each check, although two
\* requests may find a notification undelivered or a check not yet there.
EventsTellTheRows ==
    ~stale =>
        /\ \A n \in Notifications : deliveries[n] = IF notification[n] = "DELIVERED" THEN 1 ELSE 0
        /\ verdict = check
=============================================================================
