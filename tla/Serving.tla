------------------------------ MODULE Serving ------------------------------
(***************************************************************************)
(* What a request needs to be served at all: threads, connections of the   *)
(* pool, and the event loop (app/db.py, app/deps.py, and who uses them).   *)
(*                                                                         *)
(* FastAPI runs each dependency and a plain handler in a thread, and comes *)
(* back to the event loop in between; the session that get_db opened for   *)
(* all of them keeps its connection.  A commit gives the connection back and  *)
(* the refresh after it takes one again.  The two uploads are coroutines:  *)
(* their statements run on the event loop itself, and while one of them    *)
(* waits for a connection, nothing else is handed to a thread or taken     *)
(* back from one.  The pool gives a wait up after its timeout.             *)
(***************************************************************************)
EXTENDS Integers, FiniteSets

CONSTANTS
    Calls,          \* the requests there can be at a time
    Threads,        \* how many threads the framework has for them
    Connections     \* pool_size + max_overflow of the engine

ASSUME ServingAssumption == Threads \in Nat \ {0} /\ Connections \in Nat \ {0}

VARIABLES call, connected

servingVars == <<call, connected>>

\* WRITE stands for the plain handlers, the ones that only read included;
\* LOGIN for those that no dependency authenticates, the readiness probe too.
Kinds == {"WRITE", "UPLOAD", "LOGIN"}

Stages ==
    {"ARRIVED", "AUTHENTICATING", "AUTHENTICATED", "CHECKING_PASSWORD", "PASSWORD_CHECKED",
     "CHECKING_ROLE", "ROLE_CHECKED", "READING_FILE", "HANDLING", "COMMITTED", "ENDED"}

NoCall == [kind |-> "NONE", at |-> "IDLE"]

At(c, stage) == call' = [call EXCEPT ![c].at = stage]

InThread(c) ==
    \/ call[c].at \in {"AUTHENTICATING", "CHECKING_PASSWORD", "CHECKING_ROLE", "READING_FILE", "HANDLING"}
    \/ call[c].at = "COMMITTED" /\ call[c].kind # "UPLOAD"

ThreadIsFree == Cardinality({c \in Calls : InThread(c)}) < Threads

ConnectionIsFree == Cardinality(connected) < Connections

\* A statement of a session that has no connection.
WaitsForConnection(c) ==
    call[c].at \in {"AUTHENTICATING", "HANDLING", "COMMITTED"} /\ c \notin connected

\* An upload is between its commit and its answer.
LoopIsTaken == \E c \in Calls : call[c].kind = "UPLOAD" /\ call[c].at = "COMMITTED"

-----------------------------------------------------------------------------
ServingInit ==
    /\ call = [c \in Calls |-> NoCall]
    /\ connected = {}

Arrive(c, kind) ==
    /\ call[c] = NoCall /\ ~LoopIsTaken
    /\ call' = [call EXCEPT ![c] = [kind |-> kind, at |-> "ARRIVED"]]
    /\ UNCHANGED connected

\* get_current_user is given a thread; a login's handler is, at once.
Authenticate(c) ==
    /\ call[c].at = "ARRIVED" /\ ~LoopIsTaken /\ ThreadIsFree
    /\ At(c, IF call[c].kind = "LOGIN" THEN "HANDLING" ELSE "AUTHENTICATING")
    /\ UNCHANGED connected

\* The user is loaded, and accepted or not; the thread is given back, the
\* connection is not.
Authenticated(c) ==
    /\ call[c].at = "AUTHENTICATING" /\ c \in connected /\ ~LoopIsTaken
    /\ At(c, "AUTHENTICATED") \/ At(c, "ENDED")
    /\ UNCHANGED connected

\* require_password_changed is given a thread of its own, and after it, for
\* the administrator's handlers, require_super_admin: they read no table.
Check(c) ==
    /\ ~LoopIsTaken /\ ThreadIsFree
    /\ \/ call[c].at = "AUTHENTICATED" /\ At(c, "CHECKING_PASSWORD")
       \/ call[c].at = "PASSWORD_CHECKED" /\ call[c].kind = "WRITE" /\ At(c, "CHECKING_ROLE")
    /\ UNCHANGED connected

Checked(c) ==
    /\ ~LoopIsTaken
    /\ \/ call[c].at = "CHECKING_PASSWORD" /\ At(c, "PASSWORD_CHECKED")
       \/ call[c].at = "CHECKING_ROLE" /\ At(c, "ROLE_CHECKED")
       \/ call[c].at \in {"CHECKING_PASSWORD", "CHECKING_ROLE"} /\ At(c, "ENDED")
    /\ UNCHANGED connected

\* The last dependency of the handler has returned: me and change_password
\* want no other than get_current_user.
IsAccepted(c) ==
    call[c].at \in IF call[c].kind = "UPLOAD" THEN {"PASSWORD_CHECKED"}
                   ELSE {"AUTHENTICATED", "PASSWORD_CHECKED", "ROLE_CHECKED"}

\* The handler is given a thread, or the read that an upload awaits is.
Dispatch(c) ==
    /\ IsAccepted(c) /\ ~LoopIsTaken /\ ThreadIsFree
    /\ At(c, IF call[c].kind = "UPLOAD" THEN "READING_FILE" ELSE "HANDLING")
    /\ UNCHANGED connected

\* The rest of an upload, at once if the file is in memory: it is refused, or
\* it is committed and wants a connection for its refresh.
Resume(c) ==
    /\ call[c].kind = "UPLOAD" /\ call[c].at \in {"PASSWORD_CHECKED", "READING_FILE"} /\ ~LoopIsTaken
    /\ \/ At(c, "ENDED") /\ UNCHANGED connected
       \/ At(c, "COMMITTED") /\ connected' = connected \ {c}

\* What a statement of a session without a connection takes, from the pool.
Connect(c) ==
    /\ WaitsForConnection(c) /\ ConnectionIsFree
    /\ connected' = connected \cup {c}
    /\ UNCHANGED call

\* The pool has waited for pool_timeout: the request fails, which after a
\* commit undoes nothing.
TimeOut(c) ==
    /\ WaitsForConnection(c) /\ ~ConnectionIsFree
    /\ At(c, "ENDED")
    /\ UNCHANGED connected

\* db.commit of a plain handler, which goes on to db.refresh or ends.
Commit(c) ==
    /\ call[c].at = "HANDLING" /\ c \in connected
    /\ At(c, "COMMITTED") \/ At(c, "ENDED")
    /\ connected' = connected \ {c}

\* A handler returns, or refuses before its commit.
Return(c) ==
    /\ call[c].at \in {"HANDLING", "COMMITTED"} /\ c \in connected
    /\ call[c].kind = "UPLOAD" \/ ~LoopIsTaken
    /\ At(c, "ENDED")
    /\ UNCHANGED connected

\* The end of get_db; the framework has a thread of its own for it.
Close(c) ==
    /\ call[c].at = "ENDED" /\ ~LoopIsTaken
    /\ call' = [call EXCEPT ![c] = NoCall]
    /\ connected' = connected \ {c}

\* How a call goes on, but for its commit: a handler need not make one.
CallStep(c) ==
    \/ Authenticate(c) \/ Authenticated(c) \/ Check(c) \/ Checked(c) \/ Dispatch(c) \/ Resume(c)
    \/ Return(c) \/ Close(c) \/ Connect(c) \/ TimeOut(c)

ServingNext == \E c \in Calls :
    \/ \E kind \in Kinds : Arrive(c, kind)
    \/ CallStep(c) \/ Commit(c)

\* The event loop serves what is ready, and the threads, in the order they
\* came; a wait for a connection ends one way or the other.
ServingFairness == \A c \in Calls : SF_servingVars(CallStep(c))

ServingSpec == ServingInit /\ [][ServingNext]_servingVars
-----------------------------------------------------------------------------
(* Properties.                                                             *)

\* What is in use is no more than there is, the event loop included, and a
\* call without a request holds nothing.
ServingTypeOK ==
    /\ call \in [Calls -> [kind : Kinds, at : Stages] \cup {NoCall}]
    /\ connected \subseteq {c \in Calls : call[c] # NoCall}
    /\ Cardinality({c \in Calls : InThread(c)}) <= Threads
    /\ Cardinality(connected) <= Connections
    /\ Cardinality({c \in Calls : call[c].kind = "UPLOAD" /\ call[c].at = "COMMITTED"}) <= 1
=============================================================================
