-------------------------------- MODULE Lists --------------------------------
(***************************************************************************)
(* Array.sort and Array.filter, which the pages use on their lists.  They  *)
(* are defined by ranks and not, as SortSeq and SelectSeq are, by          *)
(* recursion on the length of the list, so that proofs can reason about    *)
(* them.                                                                   *)
(***************************************************************************)
EXTENDS Integers, Sequences, FiniteSets

\* The place of each position among those of key: by key, and by position among
\* equals, for both sort and filter are stable.
Rank(key) ==
    [i \in DOMAIN key |->
        Cardinality({j \in DOMAIN key : key[j] < key[i] \/ (key[j] = key[i] /\ j <= i)})]

\* The members of s at the positions of key, in ascending order.
Sorted(s, key) ==
    LET r == Rank(key)
    IN  [k \in 1 .. Cardinality(DOMAIN key) |-> s[CHOOSE i \in DOMAIN key : r[i] = k]]

\* The members of s at the positions K, in their order.
Keeping(s, K) == Sorted(s, [i \in K |-> 0])
=============================================================================
