------------------------------ MODULE Chunking ------------------------------
(***************************************************************************)
(* The chunks of a document, rag/chunking.py.  The text is split into      *)
(* units (paragraphs, sentences, pieces of what is too long); _merge_units *)
(* goes through them once and collects them into chunks of at most size    *)
(* tokens, each of which starts with the tail of the one before.  A unit   *)
(* is its number of tokens, and a chunk the interval of units it joins.    *)
(***************************************************************************)
EXTENDS Integers, Sequences

CONSTANTS Size,        \* chunk_size, at least 32 in the code
          MaxOverlap,  \* bound on chunk_overlap
          MaxUnits     \* bound on the units of a document

ASSUME ChunkingAssumption ==
    Size \in Nat \ {0} /\ MaxOverlap \in Nat /\ MaxUnits \in Nat

VARIABLES units,         \* tokens of each unit; empty before the text arrives
          chunkOverlap,  \* chunk_overlap
          upto,          \* units the loop has taken
          start,         \* current_units are those from start to upto
          budget,        \* current_tokens
          chunks         \* merged

chunkVars == <<units, chunkOverlap, upto, start, budget, chunks>>

\* _estimate_tokens counts a token for each 80 characters: a piece of 2 * Size
\* characters has at most LongUnit tokens, and no unit that is left whole has more.
LongUnit == 2 * Size + (2 * Size) \div 80

\* Tokens of the first n units, and of those from i to j.
Tokens[n \in 0 .. Len(units)] == IF n = 0 THEN 0 ELSE Tokens[n - 1] + units[n]
Weight(i, j) == Tokens[j] - Tokens[i - 1]

ChunkInit ==
    units = <<>> /\ chunkOverlap = 0 /\ upto = 0 /\ start = 1 /\ budget = 0 /\ chunks = <<>>

\* _split_to_units and _hard_split_long_unit.
SplitText(s, o) ==
    /\ units = <<>> /\ s # <<>>
    /\ units' = s /\ chunkOverlap' = o
    /\ UNCHANGED <<upto, start, budget, chunks>>

Window  == start .. upto
NoUnits == Window = {}
Over    == ~NoUnits /\ budget + units[upto + 1] > Size

\* Take another unit into the window.
Collect ==
    /\ upto < Len(units) /\ ~Over
    /\ upto' = upto + 1
    /\ budget' = budget + units[upto + 1]
    /\ UNCHANGED <<units, chunkOverlap, start, chunks>>

\* Mutant: the window may outweigh the overlap by its first unit.
RepeatsMore(i) ==
    i = upto \/ Weight(i + 1, upto) <= chunkOverlap

\* The backward loop takes unit i in: the last one whatever it weighs, and another
\* while the window is lighter than the overlap and fits with it.
Repeats(i) ==
    i = upto \/ (Weight(i + 1, upto) < chunkOverlap /\ Weight(i, upto) <= chunkOverlap)

\* Where the window of the next chunk starts.
Kept ==
    IF chunkOverlap = 0 THEN upto + 1
    ELSE CHOOSE i \in Window : /\ \A j \in i .. upto : Repeats(j)
                               /\ i = start \/ ~Repeats(i - 1)

\* The window is full: flush it, keep its tail, and take the unit in any case.  The
\* estimate of the joined tail may count more tokens than its units, but less than
\* one for each of them.
FlushFull ==
    /\ upto < Len(units) /\ Over
    /\ chunks' = Append(chunks, [first |-> start, last |-> upto])
    /\ start' = Kept
    /\ \E extra \in 0 .. (upto - Kept) \cup {0} :
          budget' = Weight(Kept, upto) + extra + units[upto + 1]
    /\ upto' = upto + 1
    /\ UNCHANGED <<units, chunkOverlap>>

\* Mutant: the last flush is left out when the window only repeats or is small.
FlushSome ==
    /\ units # <<>> /\ upto = Len(units)
    /\ chunks' = IF budget < Size /\ chunks # <<>> THEN chunks
                 ELSE Append(chunks, [first |-> start, last |-> upto])
    /\ upto' = upto + 1 /\ start' = upto + 2 /\ budget' = 0
    /\ UNCHANGED <<units, chunkOverlap>>

\* After the loop what is left is flushed too; the loop is over when upto is past
\* the last unit.
FlushRest ==
    /\ units # <<>> /\ upto = Len(units)
    /\ chunks' = Append(chunks, [first |-> start, last |-> upto])
    /\ upto' = upto + 1 /\ start' = upto + 2 /\ budget' = 0
    /\ UNCHANGED <<units, chunkOverlap>>

Documents == UNION {[1 .. n -> 0 .. LongUnit] : n \in 1 .. MaxUnits}

ChunkNext ==
    \/ \E s \in Documents, o \in 0 .. MaxOverlap : SplitText(s, o)
    \/ Collect \/ FlushFull \/ FlushRest

ChunkSpec == ChunkInit /\ [][ChunkNext]_chunkVars

----------------------------------------------------------------------------
(* Properties *)

Chunk   == [first : 1 .. Len(units), last : 1 .. Len(units)]

ChunkTypeOK ==
    /\ units \in Seq(Nat) /\ chunkOverlap \in Nat
    /\ upto \in 0 .. Len(units) + 1
    /\ start \in 1 .. Len(units) + 2
    /\ budget \in Nat
    /\ chunks \in Seq(Chunk)

\* No text is lost and none is out of order: the chunks start with the first unit,
\* end with the last one, leave no gap, and each has a unit the one before it had
\* not, though the windows overlap.
ChunksCover ==
    /\ \A k \in DOMAIN chunks :
          /\ chunks[k].first <= chunks[k].last
          /\ IF k = 1 THEN chunks[k].first = 1
             ELSE /\ chunks[k].first <= chunks[k - 1].last + 1
                  /\ chunks[k].last > chunks[k - 1].last
    /\ (units # <<>> /\ upto > Len(units)) => chunks # <<>> /\ chunks[Len(chunks)].last = Len(units)

\* The budget of a chunk ("按 token 预算合并，支持重叠窗口"): one that joins units to
\* more than size tokens has a single new unit, and what it repeats of the chunk
\* before is one unit or at most the overlap.
BudgetKept ==
    \A k \in DOMAIN chunks :
        LET c    == chunks[k]
            last == chunks[k - 1].last IN
        Weight(c.first, c.last) > Size /\ c.first < c.last =>
            /\ k > 1 /\ c.last = last + 1
            /\ c.first = last \/ Weight(c.first, last) <= chunkOverlap
=============================================================================
