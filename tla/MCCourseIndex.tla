---------------------------- MODULE MCCourseIndex ----------------------------
(* CourseIndex on two courses that share a collection, with two rebuilds at once. *)
EXTENDS CourseIndex, TLC

CONSTANTS c1, c2, i1, i2, b1, b2, r1, r2

MCCourses  == {c1, c2}
MCOneCourse == {c1}
MCItems    == {i1, i2}
MCOneItem  == {i1}
MCBuilders == {b1, b2}
MCOneBuilder == {b1}
MCRequests == {r1, r2}
MCOneRequest == {r1}

Symmetry == Permutations(MCBuilders) \cup Permutations(MCRequests)
            \cup Permutations(MCCourses) \cup Permutations(MCItems)
=============================================================================
