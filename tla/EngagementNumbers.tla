------------------------- MODULE EngagementNumbers -------------------------
(***************************************************************************)
(* The numbers in engagement codes: create_engagement takes the next one   *)
(* of the year from engagement_number_sequences, whose row it reads FOR    *)
(* UPDATE and so holds until its transaction ends (app/routers/            *)
(* engagements.py).  The first creation of a year finds no row to hold.    *)
(***************************************************************************)
EXTENDS Requests

CONSTANTS
    MaxYear,    \* bound: the last year the calendar reaches
    MaxNumber   \* bound: no creation starts after this number of a year

ASSUME NumbersAssumption == MaxYear \in Nat /\ MaxNumber \in Nat

Years == 0 .. MaxYear

VARIABLES
    year,       \* the year datetime.now() gives
    series,     \* next_number of each year, 0 for a year without a row
    issued      \* the numbers of the committed engagements of each year, in commit order

numbersVars == <<year, series, issued, req, stale>>

CreationRequest == [op : {"CREATE_ENGAGEMENT"}, at : {"series", "insert", "commit"},
                    year : Years, number : Nat]

InTransaction(w, y) == req[w].op = "CREATE_ENGAGEMENT" /\ req[w].at = "commit" /\ req[w].year = y

\* Some worker has the row of year y, updated or inserted, uncommitted.
RowHeld(y) == \E w \in Workers : InTransaction(w, y)

-----------------------------------------------------------------------------
NumbersInit ==
    /\ year = 0
    /\ series = [y \in Years |-> 0]
    /\ issued = [y \in Years |-> <<>>]
    /\ req = [w \in Workers |-> Idle]
    /\ stale = FALSE

\* create_engagement, up to _next_engagement_code: client and leads are in order.
StartCreation(w) ==
    /\ series[year] <= MaxNumber
    /\ Begin(w, [op |-> "CREATE_ENGAGEMENT", at |-> "series", year |-> year, number |-> 0])
    /\ UNCHANGED <<year, series, issued, stale>>

\* Mutant: a plain select.
TakeNumberUnlocked(w) ==
    LET r == req[w]
    IN  /\ r.op = "CREATE_ENGAGEMENT" /\ r.at = "series"
        /\ req' = IF series[r.year] = 0
                  THEN [req EXCEPT ![w].at = "insert", ![w].number = 1]
                  ELSE [req EXCEPT ![w].at = "commit", ![w].number = series[r.year]]
        /\ UNCHANGED <<year, series, issued, stale>>

\* The select ... FOR UPDATE: a committed row is waited for, and then read as
\* its holder left it; of no row, nothing is held.
TakeNumber(w) ==
    LET r == req[w]
    IN  /\ r.op = "CREATE_ENGAGEMENT" /\ r.at = "series"
        /\ \/ /\ series[r.year] = 0
              /\ req' = [req EXCEPT ![w].at = "insert", ![w].number = 1]
           \/ /\ series[r.year] # 0 /\ ~RowHeld(r.year)
              /\ req' = [req EXCEPT ![w].at = "commit", ![w].number = series[r.year]]
        /\ UNCHANGED <<year, series, issued, stale>>

\* Mutant: a taken key is tried again and again.
InsertSeriesOrRetry(w) ==
    LET r == req[w]
    IN  /\ r.op = "CREATE_ENGAGEMENT" /\ r.at = "insert"
        /\ series[r.year] = 0 /\ ~RowHeld(r.year)
        /\ req' = [req EXCEPT ![w].at = "commit"]
        /\ UNCHANGED <<year, series, issued, stale>>

\* The flush inserts the first row of the year.  It waits for an uncommitted
\* one and fails once that is there, with an IntegrityError outside the try.
InsertSeries(w) ==
    LET r == req[w]
    IN  /\ r.op = "CREATE_ENGAGEMENT" /\ r.at = "insert"
        /\ \/ series[r.year] # 0 /\ Finish(w)
           \/ /\ series[r.year] = 0 /\ ~RowHeld(r.year)
              /\ req' = [req EXCEPT ![w].at = "commit"]
        /\ UNCHANGED <<year, series, issued, stale>>

\* The commit: the engagement with its code, and the series moved on.
CommitCreation(w) ==
    LET r == req[w]
    IN  /\ r.op = "CREATE_ENGAGEMENT" /\ r.at = "commit"
        /\ series' = [series EXCEPT ![r.year] = r.number + 1]
        /\ issued' = [issued EXCEPT ![r.year] = Append(@, r.number)]
        /\ Finish(w)
        /\ UNCHANGED <<year, stale>>

\* The commit fails or the request dies: everything is rolled back.
RollBack(w) ==
    /\ req[w].op = "CREATE_ENGAGEMENT" /\ req[w].at = "commit"
    /\ Finish(w)
    /\ UNCHANGED <<year, series, issued, stale>>

NewYear == /\ year < MaxYear
           /\ year' = year + 1
           /\ UNCHANGED <<series, issued, req, stale>>

CreationStep(w) == TakeNumber(w) \/ InsertSeries(w) \/ CommitCreation(w) \/ RollBack(w)

NumbersNext == (\E w \in Workers : StartCreation(w) \/ CreationStep(w)) \/ NewYear

NumbersSpec == NumbersInit /\ [][NumbersNext]_numbersVars

\* Threads are scheduled, and the database hands a lock on to who waits for it.
NumbersFairness == \A w \in Workers : SF_numbersVars(CreationStep(w))
-----------------------------------------------------------------------------
(* Properties.                                                             *)

NumbersTypeOK ==
    /\ year \in Years
    /\ series \in [Years -> Nat]
    /\ issued \in [Years -> Seq(Nat)]
    /\ req \in [Workers -> {Idle} \cup CreationRequest]
    /\ stale \in BOOLEAN

\* In every year the committed engagements carry the numbers 1, 2, 3, ... in
\* the order they were committed, without gap or duplicate, whatever overlaps
\* and whatever is rolled back, the first creations of the year included; and
\* the row of the year, if there is one, holds the next.
NumbersAreGapless ==
    \A y \in Years : /\ issued[y] = [k \in 1 .. Len(issued[y]) |-> k]
                     /\ series[y] = IF issued[y] = <<>> THEN 0 ELSE Len(issued[y]) + 1
=============================================================================
