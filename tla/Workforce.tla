----------------------------- MODULE Workforce -----------------------------
(***************************************************************************)
(* One day of one staff member: attendance, leave, assignments and         *)
(* worklogs, and the capacity summary, which adds them up in three selects *)
(* (app/routers/workforce.py).                                             *)
(***************************************************************************)
EXTENDS Requests, FiniteSetsExt

CONSTANTS
    Worklogs,       \* ids of the worklogs of the day
    LeaveTypes,
    Sources,        \* what minutes of the day can be assigned to
    Minutes,        \* what a leave, an assignment or a worklog can take
    Standard        \* standard_minutes, a parameter of the summary

ASSUME WorkforceAssumption ==
    /\ IsFiniteSet(LeaveTypes) /\ IsFiniteSet(Sources)
    /\ Minutes \subseteq Nat \ {0}      \* ge=1 in every create request
    /\ Standard \in Nat \ {0}

VARIABLES
    attended,   \* an attendance record exists
    leave,      \* the leave of each type, NoRow if there is none
    assigned,   \* the minutes assigned to each source, 0 for no row
    worklog,    \* the committed worklogs
    moves       \* the WORKLOG_... events of each worklog after its creation, in commit order

workforceTables == <<attended, leave, assigned, worklog, moves, stale>>

workforceVars == <<attended, leave, assigned, worklog, moves, req, stale>>

\* Every status but APPROVED counts the same; PENDING stands for them.
LeaveRow == [minutes : Minutes, status : {"APPROVED", "PENDING"}]

\* Mutant: an approved worklog can be approved again.
AllowedAgain == [DRAFT |-> {"SUBMITTED"}, SUBMITTED |-> {"APPROVED"},
                 APPROVED |-> {"APPROVED", "LOCKED"}, LOCKED |-> {}]

\* The table in _transition_worklog.
Allowed == [DRAFT |-> {"SUBMITTED"}, SUBMITTED |-> {"APPROVED"}, APPROVED |-> {"LOCKED"}, LOCKED |-> {}]

WorklogStatus == DOMAIN Allowed

WorklogRow == [minutes : Minutes, status : WorklogStatus, version : Nat]

MoveRequest == [op : {"MOVE_WORKLOG"}, worklog : Worklogs, row : WorklogRow, target : WorklogStatus]

CapacityRequest == [op : {"CAPACITY"}, at : {"leave", "assigned", "logged"}, leave : Nat, assigned : Nat]

WorkforceRequest == MoveRequest \cup CapacityRequest

\* The first two sums of capacity_summary.
ApprovedLeave ==
    MapThenSumSet(LAMBDA t : leave[t].minutes,
                  {t \in LeaveTypes : leave[t] # NoRow /\ leave[t].status = "APPROVED"})

Assigned == MapThenSumSet(LAMBDA s : assigned[s], Sources)

\* remaining_minutes, from the two sums.
Remaining(onLeave, assignedMinutes) ==
    (IF onLeave < Standard THEN Standard - onLeave ELSE 0) - assignedMinutes

-----------------------------------------------------------------------------
WorkforceInit ==
    /\ attended = FALSE
    /\ leave = [t \in LeaveTypes |-> NoRow]
    /\ assigned = [s \in Sources |-> 0]
    /\ worklog = [l \in Worklogs |-> NoRow]
    /\ moves = [l \in Worklogs |-> <<>>]
    /\ req = [w \in Workers |-> Idle]
    /\ stale = FALSE

\* The creations are one insert each; a second row for the same unique key
\* waits for the first and is refused.
CreateAttendance(w) ==
    /\ req[w] = Idle /\ ~attended
    /\ attended' = TRUE
    /\ UNCHANGED <<leave, assigned, worklog, moves, req, stale>>

CreateLeave(w, t, row) ==
    /\ req[w] = Idle /\ leave[t] = NoRow
    /\ leave' = [leave EXCEPT ![t] = row]
    /\ UNCHANGED <<attended, assigned, worklog, moves, req, stale>>

CreateAssignment(w, s, minutes) ==
    /\ req[w] = Idle /\ assigned[s] = 0
    /\ assigned' = [assigned EXCEPT ![s] = minutes]
    /\ UNCHANGED <<attended, leave, worklog, moves, req, stale>>

CreateWorklog(w, l, minutes) ==
    /\ req[w] = Idle /\ worklog[l] = NoRow
    /\ worklog' = [worklog EXCEPT ![l] = [minutes |-> minutes, status |-> "DRAFT", version |-> 1]]
    /\ UNCHANGED <<attended, leave, assigned, moves, req, stale>>

\* submit_worklog, approve_worklog and lock_worklog, up to the commit.
MoveWorklog(w, l, target) ==
    /\ worklog[l] # NoRow /\ target \in Allowed[worklog[l].status]
    /\ Begin(w, [op |-> "MOVE_WORKLOG", worklog |-> l, row |-> worklog[l], target |-> target])
    /\ UNCHANGED workforceTables

CommitWorklog(w) ==
    LET r == req[w]
    IN  /\ r.op = "MOVE_WORKLOG"
        /\ worklog' = [worklog EXCEPT ![r.worklog].status = r.target,
                                      ![r.worklog].version = r.row.version + 1]
        /\ moves' = [moves EXCEPT ![r.worklog] = Append(@, r.target)]
        /\ stale' = (stale \/ worklog[r.worklog] # r.row)
        /\ Finish(w)
        /\ UNCHANGED <<attended, leave, assigned>>

\* capacity_summary: three sums, each of its own moment, and the answer.
ViewCapacity(w) ==
    /\ Begin(w, [op |-> "CAPACITY", at |-> "leave", leave |-> 0, assigned |-> 0])
    /\ UNCHANGED workforceTables

\* Mutant: leave that nobody has approved is counted.
SumAnyLeave(w) ==
    /\ req[w].op = "CAPACITY" /\ req[w].at = "leave"
    /\ req' = [req EXCEPT ![w].at = "assigned",
                          ![w].leave = MapThenSumSet(LAMBDA t : leave[t].minutes,
                                                     {t \in LeaveTypes : leave[t] # NoRow})]
    /\ UNCHANGED workforceTables

SumLeave(w) ==
    /\ req[w].op = "CAPACITY" /\ req[w].at = "leave"
    /\ req' = [req EXCEPT ![w].at = "assigned", ![w].leave = ApprovedLeave]
    /\ UNCHANGED workforceTables

SumAssigned(w) ==
    /\ req[w].op = "CAPACITY" /\ req[w].at = "assigned"
    /\ req' = [req EXCEPT ![w].at = "logged", ![w].assigned = Assigned]
    /\ UNCHANGED workforceTables

SumLogged(w) ==
    /\ req[w].op = "CAPACITY" /\ req[w].at = "logged"
    /\ Finish(w)
    /\ UNCHANGED workforceTables

WorkforceRequestArrives(w) ==
    \/ CreateAttendance(w)
    \/ \E t \in LeaveTypes, row \in LeaveRow : CreateLeave(w, t, row)
    \/ \E s \in Sources, minutes \in Minutes : CreateAssignment(w, s, minutes)
    \/ \E l \in Worklogs, minutes \in Minutes : CreateWorklog(w, l, minutes)
    \/ \E l \in Worklogs, target \in WorklogStatus : MoveWorklog(w, l, target)
    \/ ViewCapacity(w)

WorkforceRequestStep(w) ==
    \/ CommitWorklog(w)
    \/ SumLeave(w)
    \/ SumAssigned(w)
    \/ SumLogged(w)

WorkforceNext == \E w \in Workers : WorkforceRequestArrives(w) \/ WorkforceRequestStep(w)

WorkforceSpec == WorkforceInit /\ [][WorkforceNext]_workforceVars
-----------------------------------------------------------------------------
(* Properties.                                                             *)

WorkforceTypeOK ==
    /\ attended \in BOOLEAN
    /\ leave \in [LeaveTypes -> LeaveRow \cup {NoRow}]
    /\ assigned \in [Sources -> Minutes \cup {0}]
    /\ worklog \in [Worklogs -> WorklogRow \cup {NoRow}]
    /\ moves \in [Worklogs -> Seq(WorklogStatus)]
    /\ req \in [Workers -> {Idle} \cup WorkforceRequest]
    /\ stale \in BOOLEAN

\* Unless stale, the events of a worklog tell its whole life, each step once
\* and in order, and its status and version are where they left it.
WorklogsGoForward ==
    ~stale => \A l \in Worklogs :
        LET life == <<"DRAFT", "SUBMITTED", "APPROVED", "LOCKED">>
            n    == Len(moves[l])
        IN  IF worklog[l] = NoRow
            THEN n = 0
            ELSE /\ n < Len(life) /\ moves[l] = SubSeq(life, 2, n + 1)
                 /\ worklog[l].status = life[n + 1] /\ worklog[l].version = n + 1

\* Whatever is recorded between the selects of the summary, it never shows
\* less capacity than remains when the assignments are read: leave is added up
\* first, and approved leave only grows.
CapacityIsNotUnderstated ==
    [][\A w \in Workers :
          req[w].op = "CAPACITY" /\ req[w].at = "assigned" /\ req'[w] # req[w]
          => Remaining(req'[w].leave, req'[w].assigned) >= Remaining(ApprovedLeave, Assigned)]_workforceVars
=============================================================================
