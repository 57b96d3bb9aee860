---------------------------- MODULE FileProtocol ----------------------------
(***************************************************************************)
(* What the audit file of an engagement promises, each request as one      *)
(* indivisible step.  An approval is of what was assessed last.  A paper   *)
(* is signed off step by step, approved and locked at moments when no note *)
(* on it is open, and does not change once it is locked.  The file is      *)
(* finalized once, for somebody who asked for it: with a plan and a        *)
(* complete checklist, at a moment when all tests and severe issues and    *)
(* all papers that there were when it was asked for are done.              *)
(***************************************************************************)

CONSTANTS
    Clients,    \* who may ask for the finalization
    Papers, Notes, Files, Contents,
    Work        \* the tests and severe issues a file can have

VARIABLES
    met,        \* does the assessment of the engagement meet the preconditions
    approved,   \* has it been approved
    planned,    \* is there a materiality and a team
    status,     \* status[p]: where paper p stands
    text,       \* text[p]: what it says, nothing before it is written
    linked,     \* linked[p]: its evidence
    open,       \* open[p]: the open notes on it
    work,       \* work[i]: is work i unknown, open or done
    complete,   \* is the checklist complete
    asked,      \* asked[c]: what there was when client c asked, or NotAsked
    finalized   \* is the file finalized

planState == <<met, approved, planned>>
paperState == <<status, text, linked, open>>
fileState == <<work, complete, asked, finalized>>
protocolVars == <<met, approved, planned, status, text, linked, open, work, complete, asked, finalized>>

\* What a paper's status follows when it is signed off.
Before == [SUBMITTED |-> "DRAFT", REVIEWED |-> "SUBMITTED", APPROVED |-> "REVIEWED", LOCKED |-> "APPROVED"]

Written == {p \in Papers : status[p] # "NO_ROW"}
Known == {i \in Work : work[i] # "NONE"}
NotAsked == [work |-> {}, papers |-> {}, asked |-> FALSE]

ProtocolInit ==
    /\ met = FALSE /\ approved = FALSE /\ planned = FALSE
    /\ status = [p \in Papers |-> "NO_ROW"]
    /\ text = [p \in Papers |-> {}]
    /\ linked = [p \in Papers |-> {}]
    /\ open = [p \in Papers |-> {}]
    /\ work = [i \in Work |-> "NONE"]
    /\ complete = FALSE
    /\ asked = [c \in Clients |-> NotAsked]
    /\ finalized = FALSE

-----------------------------------------------------------------------------
(* The plan.                                                               *)

Assess ==
    /\ met' \in BOOLEAN /\ approved' = FALSE
    /\ UNCHANGED <<planned, paperState, fileState>>

Decide ==
    /\ approved' \in BOOLEAN /\ (approved' => met)
    /\ UNCHANGED <<met, planned, paperState, fileState>>

Plan ==
    /\ planned' = TRUE
    /\ UNCHANGED <<met, approved, paperState, fileState>>

-----------------------------------------------------------------------------
(* The papers.                                                             *)

Prepare(p, c) ==
    /\ p \notin Written
    /\ status' = [status EXCEPT ![p] = "DRAFT"]
    /\ text' = [text EXCEPT ![p] = {c}]
    /\ UNCHANGED <<planState, linked, open, fileState>>

\* Only a draft and a reviewed paper are rewritten.
Rewrite(p, c) ==
    /\ status[p] \in {"DRAFT", "REVIEWED"}
    /\ text' = [text EXCEPT ![p] = {c}]
    /\ UNCHANGED <<planState, status, linked, open, fileState>>

Unlocked(p) == status[p] \notin {"NO_ROW", "LOCKED"}

Link(p, f) ==
    /\ Unlocked(p)
    /\ linked' = [linked EXCEPT ![p] = @ \cup {f}]
    /\ UNCHANGED <<planState, status, text, open, fileState>>

Raise(p, n) ==
    /\ Unlocked(p)
    /\ open' = [open EXCEPT ![p] = @ \cup {n}]
    /\ UNCHANGED <<planState, status, text, linked, fileState>>

Resolve(p, n) ==
    /\ Unlocked(p)
    /\ open' = [open EXCEPT ![p] = @ \ {n}]
    /\ UNCHANGED <<planState, status, text, linked, fileState>>

SignOff(p, to) ==
    /\ status[p] = Before[to]
    /\ to \in {"APPROVED", "LOCKED"} => open[p] = {}
    /\ status' = [status EXCEPT ![p] = to]
    /\ UNCHANGED <<planState, text, linked, open, fileState>>

-----------------------------------------------------------------------------
(* The execution.                                                          *)

Register(i) ==
    /\ work[i] = "NONE"
    /\ work' = [work EXCEPT ![i] = "OPEN"]
    /\ UNCHANGED <<planState, paperState, complete, asked, finalized>>

Do(i) ==
    /\ work[i] = "OPEN"
    /\ work' = [work EXCEPT ![i] = "DONE"]
    /\ UNCHANGED <<planState, paperState, complete, asked, finalized>>

\* Boxes of the checklist are ticked, or unticked again.
Tick ==
    /\ ~finalized /\ complete' \in BOOLEAN
    /\ UNCHANGED <<planState, paperState, work, asked, finalized>>

Ask(c) ==
    /\ asked[c] = NotAsked /\ ~finalized
    /\ asked' = [asked EXCEPT ![c] = [work |-> Known, papers |-> Written, asked |-> TRUE]]
    /\ UNCHANGED <<planState, paperState, work, complete, finalized>>

Refuse(c) ==
    /\ asked' = [asked EXCEPT ![c] = NotAsked]
    /\ UNCHANGED <<planState, paperState, work, complete, finalized>>

Finalize(c) ==
    /\ asked[c].asked /\ ~finalized
    /\ planned /\ complete
    /\ \A i \in asked[c].work : work[i] = "DONE"
    /\ \A p \in asked[c].papers : status[p] = "LOCKED"
    /\ finalized' = TRUE
    /\ asked' = [asked EXCEPT ![c] = NotAsked]
    /\ UNCHANGED <<planState, paperState, work, complete>>

-----------------------------------------------------------------------------
PaperStep(p) ==
    \/ \E c \in Contents : Prepare(p, c) \/ Rewrite(p, c)
    \/ \E f \in Files : Link(p, f)
    \/ \E n \in Notes : Raise(p, n) \/ Resolve(p, n)
    \/ \E to \in DOMAIN Before : SignOff(p, to)

ProtocolNext ==
    \/ Assess \/ Decide \/ Plan
    \/ \E p \in Papers : PaperStep(p)
    \/ \E i \in Work : Register(i) \/ Do(i)
    \/ Tick
    \/ \E c \in Clients : Ask(c) \/ Refuse(c) \/ Finalize(c)

ProtocolSpec == ProtocolInit /\ [][ProtocolNext]_protocolVars
=============================================================================
