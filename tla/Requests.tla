------------------------------ MODULE Requests ------------------------------
(***************************************************************************)
(* How the backend serves requests, for every module that models handlers. *)
(*                                                                         *)
(* A handler runs in a worker thread with a database session of its own.   *)
(* Every statement reads what is committed at that moment, a loaded row is *)
(* kept in the session unchanged, and the commit writes the columns whose  *)
(* value the handler changed, where the primary key matches and with no    *)
(* condition on the version.  So a request is a record in req[w]: what it  *)
(* has read so far and what it does next.  One step is one statement, the  *)
(* last one the commit; a refused request commits nothing.                 *)
(***************************************************************************)
EXTENDS Integers, Sequences

CONSTANT Workers    \* the threads that serve requests

VARIABLES
    req,        \* req[w]: the request worker w is serving
    stale       \* history variable: some commit rested on data that another
                \* commit had replaced since the request read it

Idle == [op |-> "IDLE"]

NoRow == [status |-> "NO_ROW"]

Begin(w, request) == req[w] = Idle /\ req' = [req EXCEPT ![w] = request]

Finish(w) == req' = [req EXCEPT ![w] = Idle]

\* The value of a column after a commit: the session writes it only when the
\* handler gave it a value different from the one it loaded.
Column(current, loaded, new) == IF new = loaded THEN current ELSE new
=============================================================================
