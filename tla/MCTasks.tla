------------------------------ MODULE MCTasks ------------------------------
(* Small boards: two worker threads on two or three tasks.                 *)
EXTENDS EngagementTasks, TLC

CONSTANTS w1, w2, t1, t2, t3

TwoWorkers == {w1, w2}
TwoTasks == {t1, t2}
ThreeTasks == {t1, t2, t3}
SomeDue == {0, NoDate}
Nothing == {}
NoDue == {NoDate}
HalfDone == {50}

WorkerSymmetry == Permutations(TwoWorkers)
TwoTaskSymmetry == Permutations(TwoWorkers) \cup Permutations(TwoTasks)
ThreeTaskSymmetry == Permutations(TwoWorkers) \cup Permutations(ThreeTasks)

\* Most properties promise nothing after a stale commit: stop there.
NotStale == ~stale
=============================================================================
