-------------------------- MODULE ClosureProtocol --------------------------
(***************************************************************************)
(* What the review and closure workflow of an engagement promises, each    *)
(* request as one indivisible step: the file is submitted, approved and    *)
(* closed in that order, at moments when nothing is outstanding; closing   *)
(* locks it, and reopening unlocks it under the next revision number.      *)
(***************************************************************************)
EXTENDS Naturals

CONSTANT Items      \* required tasks and documents a file can have

VARIABLES
    status,         \* where the engagement stands
    locked,         \* is the file locked
    revision,       \* the revision being worked on, or closed
    outstanding     \* required items that are not done

protocolVars == <<status, locked, revision, outstanding>>

ProtocolTypeOK ==
    /\ status \in {"DRAFT", "UNDER_REVIEW", "READY_TO_CLOSE", "CLOSED", "REOPENED"}
    /\ locked \in BOOLEAN
    /\ revision \in Nat \ {0}
    /\ outstanding \subseteq Items

ProtocolInit ==
    /\ status = "DRAFT"
    /\ locked = FALSE
    /\ revision = 1
    /\ outstanding = {}

Advance(from, to) ==
    /\ status \in from /\ status' = to
    /\ UNCHANGED outstanding

Submit ==
    /\ outstanding = {}
    /\ Advance({"DRAFT", "REOPENED"}, "UNDER_REVIEW")
    /\ UNCHANGED <<locked, revision>>

Approve ==
    /\ outstanding = {}
    /\ Advance({"UNDER_REVIEW"}, "READY_TO_CLOSE")
    /\ UNCHANGED <<locked, revision>>

Close ==
    /\ outstanding = {}
    /\ Advance({"READY_TO_CLOSE"}, "CLOSED")
    /\ locked' = TRUE
    /\ UNCHANGED revision

Reopen ==
    /\ locked
    /\ Advance({"CLOSED"}, "REOPENED")
    /\ locked' = FALSE
    /\ revision' = revision + 1

\* Work on the board: items appear and get done.
Work ==
    /\ outstanding' \in SUBSET Items
    /\ UNCHANGED <<status, locked, revision>>

ProtocolNext == Submit \/ Approve \/ Close \/ Reopen \/ Work

ProtocolSpec == ProtocolInit /\ [][ProtocolNext]_protocolVars
=============================================================================
