----------------------------- MODULE MCWorkflow -----------------------------
(* One engagement with a template of one required task and another of one  *)
(* required document, served by one or two worker threads.                 *)
EXTENDS EngagementWorkflow, TLC

CONSTANTS w1, w2, t1, d1, board, papers

OneWorker == {w1}
TwoWorkers == {w1, w2}
OneTask == {t1}
OneDocument == {d1}
Nothing == {}
NoDue == {NoDate}
BothTemplates == {board, papers}
BoardTemplate == {board}
Content == [p \in BothTemplates |-> IF p = board
                THEN [tasks |-> {t1}, documents |-> {}]
                ELSE [tasks |-> {}, documents |-> {d1}]]
BoardContent == [p \in BoardTemplate |-> [tasks |-> {t1}, documents |-> {}]]

WorkerSymmetry == Permutations(TwoWorkers)

=============================================================================
