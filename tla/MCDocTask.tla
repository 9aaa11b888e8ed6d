---------------------------- MODULE MCDocTask ----------------------------
(* DocTask on one document of a course with one or two chapters, two threads. *)
EXTENDS DocTask, TLC

CONSTANTS w1, w2, r1, r2, d1

MCDocs     == {d1}
MCWorkers  == {w1, w2}
MCRequests == {r1, r2}
MCOneRequest == {r1}
MCChapters == {1, 2}
MCOneChapter == {1}

Symmetry == Permutations(MCWorkers) \cup Permutations(MCRequests)
=============================================================================
