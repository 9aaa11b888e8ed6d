------------------------------ MODULE MCParts ------------------------------
(* Parts with two mounts of a page, two tabs of an administrator who configures one  *)
(* provider, two generation tasks of a chapter, two chapters to preview, texts of up  *)
(* to four units, and papers of two types with three candidates each.                *)
EXTENDS Parts, TLC

CONSTANTS h1, h2, x1, x2, p1, e1, k1, k2, a1, a2, r1, m1, m2, t1, kp1, u1

MCChapters   == {h1, h2}
MCProblems   == {x1, x2}
MCPaper      == [c \in Chapters |-> IF c = h1 THEN <<x1, x2>> ELSE <<>>]
MCProviders  == {p1}
MCEndpoints  == {e1}
MCEndpointOf == [p \in Providers |-> e1]
MCKeys       == {k1, k2}
MCAdmins     == {a1, a2}
MCReaders    == {r1}
MCMakers     == {m1, m2}
MCTexts      == {t1}
MCPoints     == {kp1}
MCTypes      == {1, 2}
MCWordings   == {u1}
Symmetry     == Permutations(MCMakers)
=============================================================================
