---------------------------- MODULE MCClassRoster ----------------------------
(* ClassRoster with one or two classes, two students and two requests. *)
EXTENDS ClassRoster, TLC

CONSTANTS r1, r2

MCStudents == {1, 2}
MCClasses  == {1, 2}
MCOneClass == {1}
MCRequests == {r1, r2}

Symmetry == Permutations(MCRequests)
=============================================================================
