--------------------------- MODULE PartsProofs -----------------------------
(***************************************************************************)
(* The chunks of a document lose no unit and keep the budget, for every    *)
(* text, budget and overlap.  What the loop needs to keep: its window is   *)
(* where the next chunk may start without a gap, and it always holds a     *)
(* unit that no chunk has yet.  The questions of a paper are different     *)
(* texts, no more of a type than asked for, and short only when nothing is *)
(* left to pick.  And the parts of Parts, whose other proofs are in the    *)
(* modules this one extends, keep their types side by side.                *)
(***************************************************************************)
EXTENDS Parts, QuestionTaskProofs, RagConfigProofs, PagesProofs

LastChunk == chunks[Len(chunks)]

\* The window between two flushes.
WindowInv ==
    upto <= Len(units) =>
        /\ upto > 0 => start <= upto
        /\ IF chunks = <<>> THEN start = 1
           ELSE start <= LastChunk.last + 1 /\ LastChunk.last < upto

LoopTypeOK ==
    /\ units \in Seq(Nat) /\ chunkOverlap \in Nat
    /\ upto \in 0 .. Len(units) + 1
    /\ start \in 1 .. Len(units) + 2
    /\ chunks \in Seq(Chunk)
    /\ units = <<>> \/ upto = 0 => upto = 0 /\ start = 1 /\ chunks = <<>>

ChunkInv == LoopTypeOK /\ WindowInv /\ ChunksCover

----------------------------------------------------------------------------

\* The backward loop ends inside the window ...
LEMMA KeptExists ==
    ASSUME LoopTypeOK, start <= upto
    PROVE  \E i \in Window : (\A j \in i .. upto : Repeats(j)) /\ (i = start \/ ~Repeats(i - 1))
<1> DEFINE T == {i \in Window : \A j \in i .. upto : Repeats(j)}
<1>1. upto \in Nat /\ start \in Nat
  BY DEF LoopTypeOK
<1>2. T \in SUBSET Nat /\ T \subseteq Window
  BY <1>1 DEF Window
<1>3. upto \in T
  BY <1>1 DEF Window, Repeats
<1>4. PICK m \in T : \A k \in T : m <= k
  BY <1>2, <1>3, LeastNatural
<1>5. m = start \/ ~Repeats(m - 1)
  <2> SUFFICES ASSUME m # start, Repeats(m - 1) PROVE FALSE
    OBVIOUS
  <2>1. m - 1 \in Window /\ \A j \in (m - 1) .. upto : j = m - 1 \/ j \in m .. upto
    BY <1>1, <1>2 DEF Window
  <2>2. m - 1 \in T
    BY <2>1
  <2> QED
    BY <1>2, <1>4, <2>2
<1> QED
  BY <1>5

\* ... so the tail that is kept starts inside it, or right after it.
LEMMA KeptInWindow ==
    ASSUME LoopTypeOK, start <= upto
    PROVE  Kept \in start .. upto + 1
<1>1. CASE chunkOverlap = 0
  BY <1>1 DEF Kept, LoopTypeOK
<1>2. CASE chunkOverlap # 0
  <2>1. Kept \in Window
    BY <1>2, KeptExists DEF Kept
  <2> QED
    BY <2>1 DEF Window, LoopTypeOK
<1> QED
  BY <1>1, <1>2

\* Another chunk after those there are: what the invariant asks of it.
LEMMA NextChunk ==
    ASSUME LoopTypeOK, WindowInv, ChunksCover, units # <<>>,
           NEW n \in 1 .. Len(units), n = upto,
           chunks' = Append(chunks, [first |-> start, last |-> n]), units' = units
    PROVE  /\ chunks' \in Seq(Chunk)' /\ chunks' # <<>>
           /\ LastChunk' = [first |-> start, last |-> n]
           /\ \A k \in DOMAIN chunks' :
                 /\ chunks'[k].first <= chunks'[k].last
                 /\ IF k = 1 THEN chunks'[k].first = 1
                    ELSE /\ chunks'[k].first <= chunks'[k - 1].last + 1
                         /\ chunks'[k].last > chunks'[k - 1].last
<1> DEFINE c == [first |-> start, last |-> n]
<1>0. Len(units) \in Nat /\ start \in Nat \ {0} /\ Len(chunks) \in Nat
  BY DEF LoopTypeOK
<1>1. start <= n /\ c \in Chunk
  BY <1>0 DEF WindowInv, Chunk
<1>2. chunks \in Seq(Chunk) /\ Chunk' = Chunk
  BY DEF LoopTypeOK, Chunk
<1>3. chunks' \in Seq(Chunk) /\ Len(chunks') = Len(chunks) + 1
      /\ chunks'[Len(chunks) + 1] = c /\ \A k \in 1 .. Len(chunks) : chunks'[k] = chunks[k]
  BY <1>1, <1>2
<1>4. ASSUME NEW k \in DOMAIN chunks'
      PROVE  /\ chunks'[k].first <= chunks'[k].last
             /\ IF k = 1 THEN chunks'[k].first = 1
                ELSE /\ chunks'[k].first <= chunks'[k - 1].last + 1
                     /\ chunks'[k].last > chunks'[k - 1].last
  <2>1. CASE k \in 1 .. Len(chunks)
    <3>1. chunks'[k] = chunks[k] /\ (k # 1 => chunks'[k - 1] = chunks[k - 1])
      BY <1>0, <1>3, <2>1
    <3>2. k \in DOMAIN chunks
      BY <1>2, <2>1
    <3> QED
      BY <3>1, <3>2 DEF ChunksCover
  <2>2. CASE k = Len(chunks) + 1 /\ chunks = <<>>
    BY <1>0, <1>1, <1>3, <2>2 DEF WindowInv
  <2>3. CASE k = Len(chunks) + 1 /\ chunks # <<>>
    <3>1. chunks'[k] = c /\ k # 1 /\ chunks'[k - 1] = LastChunk
      BY <1>0, <1>2, <1>3, <2>3 DEF LastChunk
    <3>2. start <= LastChunk.last + 1 /\ LastChunk.last < n
      BY <1>0, <2>3 DEF WindowInv
    <3> QED
      BY <1>1, <3>1, <3>2
  <2> QED
    BY <1>0, <1>3, <2>1, <2>2, <2>3
<1>5. LastChunk' = c /\ chunks' # <<>>
  BY <1>0, <1>3 DEF LastChunk
<1> QED
  BY <1>2, <1>3, <1>4, <1>5

----------------------------------------------------------------------------

LEMMA ChunkInitInv == ChunkInit => ChunkInv
BY DEF ChunkInit, ChunkInv, LoopTypeOK, WindowInv, ChunksCover

\* Every step of the loop keeps the invariant.
LEMMA ChunkStep == ChunkInv /\ [ChunkNext]_chunkVars => ChunkInv'
<1> SUFFICES ASSUME ChunkInv, [ChunkNext]_chunkVars PROVE ChunkInv'
  OBVIOUS
<1> USE ChunkingAssumption
<1>0. LoopTypeOK /\ WindowInv /\ ChunksCover /\ Len(units) \in Nat
  BY DEF ChunkInv, LoopTypeOK
<1>1. ASSUME NEW s \in Documents, NEW o \in 0 .. MaxOverlap, SplitText(s, o) PROVE ChunkInv'
  <2>1. PICK n \in 1 .. MaxUnits : s \in [1 .. n -> 0 .. LongUnit]
    BY DEF Documents
  <2>2. s \in Seq(Nat) /\ Len(s) = n
    BY <2>1
  <2>3. units' = s /\ upto' = 0 /\ start' = 1 /\ chunks' = <<>> /\ chunkOverlap' \in Nat
    BY <1>0, <1>1 DEF SplitText, LoopTypeOK
  <2> QED
    BY <1>1, <2>2, <2>3 DEF SplitText, ChunkInv, LoopTypeOK, WindowInv, ChunksCover
<1>2. CASE Collect
  <2>1. /\ upto < Len(units) /\ upto' = upto + 1
        /\ UNCHANGED <<units, chunkOverlap, start, chunks>>
    BY <1>2 DEF Collect
  <2>2. LoopTypeOK'
    BY <1>0, <2>1 DEF LoopTypeOK, Chunk
  <2>3. start <= upto + 1
    BY <1>0, <2>1 DEF LoopTypeOK, WindowInv
  <2>4. LastChunk' = LastChunk /\ (chunks # <<>> => LastChunk.last \in Nat)
    <3>1. chunks \in Seq(Chunk)
      BY <1>0 DEF LoopTypeOK
    <3>2. chunks # <<>> => LastChunk \in Chunk
      BY <3>1 DEF LastChunk
    <3>3. \A c \in Chunk : c.last \in Nat
      BY <1>0 DEF Chunk
    <3> QED
      BY <2>1, <3>2, <3>3 DEF LastChunk
  <2>5. upto \in Nat /\ start \in Nat /\ upto <= Len(units)
    BY <1>0, <2>1 DEF LoopTypeOK
  <2>6. IF chunks = <<>> THEN start = 1
        ELSE start <= LastChunk.last + 1 /\ LastChunk.last < upto
    BY <1>0, <2>5 DEF WindowInv
  <2>7. WindowInv'
    BY <2>1, <2>3, <2>4, <2>5, <2>6 DEF WindowInv
  <2>8. ChunksCover'
    BY <1>0, <2>1 DEF LoopTypeOK, ChunksCover
  <2> QED
    BY <2>2, <2>7, <2>8 DEF ChunkInv
<1>3. CASE FlushFull
  <2>1. /\ upto < Len(units) /\ start <= upto /\ upto' = upto + 1 /\ units' = units
        /\ chunkOverlap' = chunkOverlap /\ start' = Kept
        /\ chunks' = Append(chunks, [first |-> start, last |-> upto])
    BY <1>0, <1>3 DEF FlushFull, Over, NoUnits, Window, LoopTypeOK
  <2>2. upto \in 1 .. Len(units) /\ units # <<>>
    BY <1>0, <2>1 DEF LoopTypeOK
  <2>3. Kept \in start .. upto + 1
    BY <1>0, <2>1, KeptInWindow
  <2>4. LoopTypeOK'
    BY <1>0, <2>1, <2>2, <2>3, NextChunk DEF LoopTypeOK
  <2>5. WindowInv'
    BY <1>0, <2>1, <2>2, <2>3, NextChunk DEF LoopTypeOK, WindowInv
  <2>6. ChunksCover'
    BY <1>0, <2>1, <2>2, NextChunk DEF LoopTypeOK, ChunksCover
  <2> QED
    BY <2>4, <2>5, <2>6 DEF ChunkInv
<1>4. CASE FlushRest
  <2>1. /\ units # <<>> /\ upto = Len(units) /\ upto' = upto + 1 /\ units' = units
        /\ chunkOverlap' = chunkOverlap /\ start' = upto + 2
        /\ chunks' = Append(chunks, [first |-> start, last |-> upto])
    BY <1>4 DEF FlushRest
  <2>2. upto \in 1 .. Len(units)
    BY <1>0, <2>1 DEF LoopTypeOK
  <2>3. LoopTypeOK'
    BY <1>0, <2>1, <2>2, NextChunk DEF LoopTypeOK
  <2>4. WindowInv'
    BY <1>0, <2>1 DEF WindowInv
  <2>5. ChunksCover'
    BY <1>0, <2>1, <2>2, NextChunk DEF LoopTypeOK, ChunksCover, LastChunk
  <2> QED
    BY <2>3, <2>4, <2>5 DEF ChunkInv
<1>5. CASE UNCHANGED chunkVars
  BY <1>0, <1>5 DEF chunkVars, ChunkInv, LoopTypeOK, WindowInv, ChunksCover, LastChunk, Chunk
<1> QED
  BY <1>1, <1>2, <1>3, <1>4, <1>5 DEF ChunkNext

----------------------------------------------------------------------------
(* Sums of tokens *)

\* Sums of a prefix exist for every sequence: a shortest prefix without them would
\* be one unit longer than one that has them.
LEMMA SumsExist ==
    ASSUME NEW u \in Seq(Nat)
    PROVE  \E f : f = [n \in 0 .. Len(u) |-> IF n = 0 THEN 0 ELSE f[n - 1] + u[n]]
<1> DEFINE Sums(f, m) == f[0] = 0 /\ \A n \in 1 .. m : f[n] = f[n - 1] + u[n]
           T == {m \in 0 .. Len(u) : ~ \E f \in [0 .. m -> Nat] : Sums(f, m)}
<1>0. Len(u) \in Nat
  OBVIOUS
<1>1. T = {}
  <2> SUFFICES ASSUME T # {} PROVE FALSE
    OBVIOUS
  <2>1. T \in SUBSET Nat
    BY <1>0
  <2> HIDE DEF T
  <2>2. PICK m \in T : \A k \in T : m <= k
    BY <2>1, LeastNatural
  <2>3. m \in 0 .. Len(u) /\ ~ \E f \in [0 .. m -> Nat] : Sums(f, m)
    BY <2>2 DEF T
  <2>4. m # 0
    <3>1. [n \in 0 .. 0 |-> 0] \in [0 .. 0 -> Nat] /\ Sums([n \in 0 .. 0 |-> 0], 0)
      OBVIOUS
    <3> QED
      BY <2>3, <3>1
  <2>5. m - 1 \in 0 .. Len(u) /\ m - 1 \notin T
    BY <1>0, <2>1, <2>2, <2>3, <2>4
  <2>6. PICK f \in [0 .. m - 1 -> Nat] : Sums(f, m - 1)
    BY <2>5 DEF T
  <2> DEFINE g == [n \in 0 .. m |-> IF n = m THEN f[m - 1] + u[m] ELSE f[n]]
  <2>7. u[m] \in Nat /\ f[m - 1] \in Nat
    BY <1>0, <2>3, <2>4
  <2>8. g \in [0 .. m -> Nat]
    BY <1>0, <2>3, <2>7
  <2>9. Sums(g, m)
    <3>1. g[0] = 0
      BY <1>0, <2>3, <2>4, <2>6
    <3>2. ASSUME NEW n \in 1 .. m PROVE g[n] = g[n - 1] + u[n]
      <4>1. CASE n = m
        BY <1>0, <2>3, <2>4, <4>1
      <4>2. CASE n # m
        <5>1. n \in 1 .. m - 1 /\ g[n] = f[n] /\ g[n - 1] = f[n - 1]
          BY <1>0, <2>3, <4>2
        <5> QED
          BY <2>6, <5>1
      <4> QED
        BY <4>1, <4>2
    <3> QED
      BY <3>1, <3>2
  <2> QED
    BY <2>3, <2>8, <2>9
<1>2. PICK f \in [0 .. Len(u) -> Nat] : Sums(f, Len(u))
  BY <1>0, <1>1
<1>3. f = [n \in 0 .. Len(u) |-> f[n]]
  OBVIOUS
<1>4. \A n \in 0 .. Len(u) : f[n] = IF n = 0 THEN 0 ELSE f[n - 1] + u[n]
  BY <1>0, <1>2
<1> QED
  BY <1>3, <1>4

LEMMA TokensSum ==
    ASSUME units \in Seq(Nat)
    PROVE  /\ Tokens[0] = 0
           /\ \A n \in 1 .. Len(units) : Tokens[n] = Tokens[n - 1] + units[n]
<1>1. \E f : f = [n \in 0 .. Len(units) |-> IF n = 0 THEN 0 ELSE f[n - 1] + units[n]]
  BY SumsExist
<1>2. Tokens = [n \in 0 .. Len(units) |-> IF n = 0 THEN 0 ELSE Tokens[n - 1] + units[n]]
  BY <1>1 DEF Tokens
<1>3. Len(units) \in Nat
  OBVIOUS
<1>4. \A n \in 0 .. Len(units) : Tokens[n] = IF n = 0 THEN 0 ELSE Tokens[n - 1] + units[n]
  BY <1>2, Zenon
<1> QED
  BY <1>3, <1>4

\* Units count, so that sums do not go down.
LEMMA TokensGrow ==
    ASSUME units \in Seq(Nat), NEW i \in 0 .. Len(units)
    PROVE  Tokens[i] \in Nat /\ \A j \in i .. Len(units) : Tokens[j] \in Nat /\ Tokens[i] <= Tokens[j]
<1>0. Len(units) \in Nat
  OBVIOUS
<1>1. \A n \in 0 .. Len(units) : Tokens[n] \in Nat
  <2> DEFINE T == {n \in 0 .. Len(units) : Tokens[n] \notin Nat}
  <2> SUFFICES ASSUME T # {} PROVE FALSE
    OBVIOUS
  <2>1. T \in SUBSET Nat
    BY <1>0
  <2> HIDE DEF T
  <2>2. PICK m \in T : \A k \in T : m <= k
    BY <2>1, LeastNatural
  <2>3. m \in 1 .. Len(units) /\ Tokens[m] \notin Nat
    BY <1>0, <2>2, TokensSum DEF T
  <2>4. m - 1 \notin T /\ m - 1 \in 0 .. Len(units)
    BY <1>0, <2>1, <2>2, <2>3
  <2>5. Tokens[m - 1] \in Nat /\ units[m] \in Nat
    BY <2>3, <2>4 DEF T
  <2> QED
    BY <2>3, <2>5, TokensSum
<1>2. \A j \in i .. Len(units) : Tokens[i] <= Tokens[j]
  <2> DEFINE T == {n \in i .. Len(units) : ~(Tokens[i] <= Tokens[n])}
  <2> SUFFICES ASSUME T # {} PROVE FALSE
    OBVIOUS
  <2>1. T \in SUBSET Nat
    BY <1>0
  <2> HIDE DEF T
  <2>2. PICK m \in T : \A k \in T : m <= k
    BY <2>1, LeastNatural
  <2>3. m \in i .. Len(units) /\ ~(Tokens[i] <= Tokens[m]) /\ m # i
    BY <1>0, <1>1, <2>2 DEF T
  <2>4. m - 1 \notin T /\ m - 1 \in i .. Len(units) /\ m \in 1 .. Len(units)
    BY <1>0, <2>1, <2>2, <2>3
  <2>5. Tokens[i] <= Tokens[m - 1]
    BY <2>4 DEF T
  <2>6. units[m] \in Nat /\ Tokens[m] = Tokens[m - 1] + units[m]
    BY <2>4, TokensSum
  <2> QED
    BY <1>0, <1>1, <2>3, <2>4, <2>5, <2>6
<1> QED
  BY <1>0, <1>1, <1>2

\* What a window weighs, and what it weighs with another unit.
LEMMA WeightGrows ==
    ASSUME units \in Seq(Nat), NEW i \in Nat \ {0}, NEW j \in 0 .. Len(units), i <= j + 1
    PROVE  /\ Weight(i, j) \in Nat
           /\ j < Len(units) => Weight(i, j + 1) = Weight(i, j) + units[j + 1] /\ units[j + 1] \in Nat
<1>1. Len(units) \in Nat /\ i - 1 \in 0 .. Len(units) /\ j \in (i - 1) .. Len(units)
  OBVIOUS
<1>2. Tokens[i - 1] \in Nat /\ Tokens[j] \in Nat /\ Tokens[i - 1] <= Tokens[j]
  BY <1>1, TokensGrow
<1>3. CASE j < Len(units)
  <2>1. j + 1 \in 1 .. Len(units) /\ (j + 1) - 1 = j
    BY <1>1, <1>3
  <2>2. Tokens[j + 1] = Tokens[j] + units[j + 1] /\ units[j + 1] \in Nat
    BY <2>1, TokensSum
  <2> QED
    BY <1>2, <2>2 DEF Weight
<1> QED
  BY <1>2, <1>3 DEF Weight

\* The chunks cover the text, at every step of the loop, for every text.
THEOREM TextIsCovered == ChunkSpec => []ChunksCover
<1>1. ChunkInit => ChunkInv
  BY ChunkInitInv
<1>2. ChunkInv /\ [ChunkNext]_chunkVars => ChunkInv'
  BY ChunkStep
<1>3. ChunkInv => ChunksCover
  BY DEF ChunkInv
<1> QED
  BY <1>1, <1>2, <1>3, PTL DEF ChunkSpec

----------------------------------------------------------------------------
(* The budget *)

\* The budget counts the window at least; a window over Size has one unit that the
\* chunk before had not, and repeats of that chunk what Repeats allows.
BudgetInv ==
    /\ budget \in Nat
    /\ upto <= Len(units) =>
          /\ Weight(start, upto) <= budget
          /\ start < upto /\ Weight(start, upto) > Size =>
                /\ chunks # <<>> /\ upto = LastChunk.last + 1
                /\ start = LastChunk.last \/ Weight(start, LastChunk.last) <= chunkOverlap

\* The kept tail repeats no more than the overlap, or a single unit.
LEMMA KeptRepeats ==
    ASSUME LoopTypeOK, start <= upto, Kept # upto + 1
    PROVE  Kept = upto \/ Weight(Kept, upto) <= chunkOverlap
<1>1. chunkOverlap # 0
  BY DEF Kept
<1> DEFINE Fits(i) == /\ \A j \in i .. upto : Repeats(j)
                      /\ i = start \/ ~Repeats(i - 1)
<1>2. Kept = CHOOSE i \in Window : Fits(i)
  BY <1>1 DEF Kept
<1>3. \E i \in Window : Fits(i)
  BY <1>1, KeptExists
<1>4. Kept \in Window /\ Fits(Kept)
  BY <1>2, <1>3
<1>5. Repeats(Kept)
  BY <1>4 DEF Window, LoopTypeOK
<1> QED
  BY <1>5 DEF Repeats

\* A chunk that flushes the window keeps the budget, and those before it do.
LEMMA FlushedKept ==
    ASSUME LoopTypeOK, BudgetInv, BudgetKept, upto <= Len(units), units' = units,
           chunkOverlap' = chunkOverlap,
           chunks' = Append(chunks, [first |-> start, last |-> upto])
    PROVE  BudgetKept'
<1> DEFINE c == [first |-> start, last |-> upto]
<1>0. chunks \in Seq(Chunk) /\ Len(chunks) \in Nat /\ upto \in Nat
  BY DEF LoopTypeOK
<1>1. \A i, j : Weight(i, j)' = Weight(i, j)
  BY DEF Weight, Tokens
<1>2. /\ DOMAIN chunks' = 1 .. Len(chunks) + 1 /\ chunks'[Len(chunks) + 1] = c
      /\ \A k \in 1 .. Len(chunks) : chunks'[k] = chunks[k]
  BY <1>0
<1> SUFFICES ASSUME NEW k \in 1 .. Len(chunks) + 1,
                    Weight(chunks'[k].first, chunks'[k].last) > Size,
                    chunks'[k].first < chunks'[k].last
             PROVE  /\ k > 1 /\ chunks'[k].last = chunks'[k - 1].last + 1
                    /\ \/ chunks'[k].first = chunks'[k - 1].last
                       \/ Weight(chunks'[k].first, chunks'[k - 1].last) <= chunkOverlap
  BY <1>1, <1>2 DEF BudgetKept
<1>3. CASE k \in 1 .. Len(chunks)
  <2>1. chunks'[k] = chunks[k] /\ k \in DOMAIN chunks /\ (k > 1 => chunks'[k - 1] = chunks[k - 1])
    BY <1>0, <1>2, <1>3
  <2> QED
    BY <2>1 DEF BudgetKept
<1>4. CASE k = Len(chunks) + 1
  <2>1. chunks'[k] = c
    BY <1>2, <1>4
  <2>2. /\ chunks # <<>> /\ upto = LastChunk.last + 1
        /\ start = LastChunk.last \/ Weight(start, LastChunk.last) <= chunkOverlap
    BY <2>1 DEF BudgetInv
  <2>3. k > 1 /\ chunks'[k - 1] = LastChunk
    BY <1>0, <1>2, <1>4, <2>2 DEF LastChunk
  <2> QED
    BY <2>1, <2>2, <2>3
<1> QED
  BY <1>0, <1>3, <1>4

LEMMA BudgetStep ==
    ChunkInv /\ BudgetInv /\ BudgetKept /\ [ChunkNext]_chunkVars => BudgetInv' /\ BudgetKept'
<1> SUFFICES ASSUME ChunkInv, BudgetInv, BudgetKept, [ChunkNext]_chunkVars
             PROVE  BudgetInv' /\ BudgetKept'
  OBVIOUS
<1> USE ChunkingAssumption
<1>0. /\ LoopTypeOK /\ WindowInv /\ budget \in Nat /\ Len(units) \in Nat /\ units \in Seq(Nat)
      /\ upto \in Nat /\ start \in Nat \ {0} /\ chunks \in Seq(Chunk) /\ Len(chunks) \in Nat
  BY DEF ChunkInv, LoopTypeOK, BudgetInv
<1>1. ASSUME NEW s \in Documents, NEW o \in 0 .. MaxOverlap, SplitText(s, o)
      PROVE  BudgetInv' /\ BudgetKept'
  <2>1. chunks' = <<>> /\ upto' = 0 /\ start' = 1 /\ budget' = budget
    BY <1>0, <1>1 DEF SplitText, LoopTypeOK
  <2>2. Weight(1, 0)' = 0
    <3>1. units' \in Seq(Nat)
      <4>1. PICK n \in 1 .. MaxUnits : s \in [1 .. n -> 0 .. LongUnit]
        BY DEF Documents
      <4>2. s \in Seq(Nat)
        BY <4>1
      <4> QED
        BY <1>1, <4>2 DEF SplitText
    <3>2. \E f : f = [n \in 0 .. Len(units') |-> IF n = 0 THEN 0 ELSE f[n - 1] + units'[n]]
      BY <3>1, SumsExist
    <3>3. Tokens' = [n \in 0 .. Len(units') |-> IF n = 0 THEN 0 ELSE Tokens'[n - 1] + units'[n]]
      BY <3>2 DEF Tokens
    <3>4. 0 \in 0 .. Len(units')
      BY <3>1
    <3>5. Tokens'[0] = 0
      BY <3>3, <3>4, Zenon
    <3> QED
      BY <3>5 DEF Weight
  <2> QED
    BY <1>0, <2>1, <2>2 DEF BudgetInv, BudgetKept
<1>2. ASSUME UNCHANGED <<units, chunkOverlap>> PROVE \A i, j : Weight(i, j)' = Weight(i, j)
  BY <1>2 DEF Weight, Tokens
<1>3. CASE Collect
  <2>1. /\ upto < Len(units) /\ ~Over /\ upto' = upto + 1 /\ budget' = budget + units[upto + 1]
        /\ UNCHANGED <<units, chunkOverlap, start, chunks>>
    BY <1>3 DEF Collect
  <2>2. start <= upto + 1
    BY <1>0, <2>1 DEF LoopTypeOK, WindowInv
  <2>3. /\ Weight(start, upto) \in Nat /\ units[upto + 1] \in Nat
        /\ Weight(start, upto + 1) = Weight(start, upto) + units[upto + 1]
    BY <1>0, <2>1, <2>2, WeightGrows
  <2>4. Weight(start, upto) <= budget
    BY <1>0, <2>1 DEF BudgetInv
  <2>5. budget' \in Nat /\ Weight(start, upto + 1) \in Nat /\ Weight(start, upto + 1) <= budget'
    BY <1>0, <2>1, <2>3, <2>4
  <2>6. start <= upto => budget' <= Size
    <3> SUFFICES ASSUME start <= upto PROVE budget' <= Size
      OBVIOUS
    <3>1. ~NoUnits
      BY <1>0 DEF NoUnits, Window
    <3>2. ~(budget + units[upto + 1] > Size)
      BY <2>1, <3>1 DEF Over
    <3> QED
      BY <1>0, <2>1, <2>3, <3>2
  <2>7. ~(start < upto + 1 /\ Weight(start, upto + 1) > Size)
    <3> DEFINE w == Weight(start, upto + 1)
               b == budget'
    <3>1. b \in Nat /\ w \in Nat /\ w <= b /\ (start <= upto => b <= Size)
      BY <2>5, <2>6
    <3> HIDE DEF w, b
    <3>2. ~(start < upto + 1 /\ w > Size)
      BY <1>0, <2>2, <3>1
    <3> QED
      BY <3>2 DEF w
  <2>8. \A i, j : Weight(i, j)' = Weight(i, j)
    BY <1>2, <2>1
  <2>9. Weight(start, upto)' = Weight(start, upto + 1)
    BY <2>1 DEF Weight, Tokens
  <2>10. BudgetInv'
    BY <1>0, <2>1, <2>5, <2>7, <2>9 DEF BudgetInv
  <2>11. BudgetKept'
    BY <2>1, <2>8 DEF BudgetKept
  <2> QED
    BY <2>10, <2>11
<1>4. CASE FlushFull
  <2>1. /\ upto < Len(units) /\ start <= upto /\ upto' = upto + 1 /\ units' = units
        /\ chunkOverlap' = chunkOverlap /\ start' = Kept
        /\ chunks' = Append(chunks, [first |-> start, last |-> upto])
    BY <1>0, <1>4 DEF FlushFull, Over, NoUnits, Window
  <2>2. PICK extra \in 0 .. (upto - Kept) \cup {0} :
           budget' = Weight(Kept, upto) + extra + units[upto + 1]
    BY <1>4 DEF FlushFull
  <2>3. Kept \in start .. upto + 1
    BY <1>0, <2>1, KeptInWindow
  <2>4. /\ Weight(Kept, upto) \in Nat /\ units[upto + 1] \in Nat
        /\ Weight(Kept, upto + 1) = Weight(Kept, upto) + units[upto + 1]
    <3>1. Kept \in Nat \ {0} /\ upto \in 0 .. Len(units) /\ Kept <= upto + 1
      BY <1>0, <2>1, <2>3
    <3> QED
      BY <1>0, <2>1, <3>1, WeightGrows
  <2>5. budget' \in Nat /\ Weight(Kept, upto + 1) <= budget'
    <3> DEFINE w == Weight(Kept, upto)
               u == units[upto + 1]
    <3>1. extra \in Nat
      BY <1>0, <2>3
    <3>2. w \in Nat /\ u \in Nat /\ Weight(Kept, upto + 1) = w + u /\ budget' = w + extra + u
      BY <2>2, <2>4
    <3> HIDE DEF w, u
    <3> QED
      BY <3>1, <3>2
  <2>6. upto \in 1 .. Len(units) /\ units # <<>>
    BY <1>0, <2>1
  <2>7. LastChunk' = [first |-> start, last |-> upto] /\ chunks' # <<>>
    BY <1>0, <2>1, <2>6, NextChunk DEF ChunkInv
  <2>8. Kept < upto + 1 => Kept = upto \/ Weight(Kept, upto) <= chunkOverlap
    BY <1>0, <2>1, <2>3, KeptRepeats
  <2>a. Tokens' = Tokens /\ LastChunk'.last = upto
    BY <2>1, <2>7 DEF Tokens
  <2>b. Weight(start, upto)' = Weight(Kept, upto + 1)
    BY <2>1, <2>a DEF Weight
  <2>c. Weight(start, LastChunk.last)' = Weight(Kept, upto)
    BY <2>1, <2>a DEF Weight
  <2>9. BudgetInv'
    BY <1>0, <2>1, <2>3, <2>5, <2>7, <2>8, <2>a, <2>b, <2>c DEF BudgetInv
  <2>10. BudgetKept'
    BY <1>0, <2>1, FlushedKept
  <2> QED
    BY <2>9, <2>10
<1>5. CASE FlushRest
  <2>1. /\ units # <<>> /\ upto = Len(units) /\ upto' = upto + 1 /\ units' = units
        /\ chunkOverlap' = chunkOverlap /\ budget' = 0
        /\ chunks' = Append(chunks, [first |-> start, last |-> upto])
    BY <1>5 DEF FlushRest
  <2>2. BudgetInv'
    BY <1>0, <2>1 DEF BudgetInv
  <2>3. BudgetKept'
    BY <1>0, <2>1, FlushedKept
  <2> QED
    BY <2>2, <2>3
<1>6. CASE UNCHANGED chunkVars
  <2>1. \A i, j : Weight(i, j)' = Weight(i, j)
    BY <1>2, <1>6 DEF chunkVars
  <2> QED
    BY <1>6, <2>1 DEF chunkVars, BudgetInv, BudgetKept, LastChunk
<1> QED
  BY <1>1, <1>3, <1>4, <1>5, <1>6 DEF ChunkNext

LEMMA BudgetInit == ChunkInit => BudgetInv /\ BudgetKept
<1> SUFFICES ASSUME ChunkInit PROVE BudgetInv /\ BudgetKept
  OBVIOUS
<1>1. units = <<>> /\ upto = 0 /\ start = 1 /\ budget = 0 /\ chunks = <<>>
  BY DEF ChunkInit
<1>2. units \in Seq(Nat) /\ 0 \in 0 .. Len(units)
  BY <1>1
<1>3. Weight(1, 0) = 0
  BY <1>2, TokensGrow DEF Weight
<1> QED
  BY <1>1, <1>3 DEF BudgetInv, BudgetKept

\* A chunk over the budget has a single unit that the one before it had not, for every
\* text, size and overlap, whatever the estimate adds for a joined tail.
THEOREM ChunksKeepBudget == ChunkSpec => []BudgetKept
<1>1. ChunkInit => ChunkInv /\ BudgetInv /\ BudgetKept
  BY ChunkInitInv, BudgetInit
<1>2. ChunkInv /\ BudgetInv /\ BudgetKept /\ [ChunkNext]_chunkVars
      => (ChunkInv /\ BudgetInv /\ BudgetKept)'
  BY ChunkStep, BudgetStep
<1> QED
  BY <1>1, <1>2, PTL DEF ChunkSpec

\* The loop stays inside the text, and what it collects are intervals of units.
THEOREM ChunkTypeCorrect == ChunkSpec => []ChunkTypeOK
<1>1. ChunkInit => ChunkInv /\ BudgetInv /\ BudgetKept
  BY ChunkInitInv, BudgetInit
<1>2. ChunkInv /\ BudgetInv /\ BudgetKept /\ [ChunkNext]_chunkVars
      => (ChunkInv /\ BudgetInv /\ BudgetKept)'
  BY ChunkStep, BudgetStep
<1>3. ChunkInv /\ BudgetInv => ChunkTypeOK
  BY DEF ChunkInv, LoopTypeOK, WindowInv, BudgetInv, ChunkTypeOK
<1> QED
  BY <1>1, <1>2, <1>3, PTL DEF ChunkSpec

----------------------------------------------------------------------------
(* The questions of a paper *)

\* Nothing is picked before the first round.
NothingYet == round = 0 => picked = [t \in Types |-> {}]

PaperInv == PaperTypeOK /\ NothingYet /\ PaperDistinct /\ ShortIsExhausted

\* Of a set of numbers, those with fewer than n below them are at most n.
LEMMA FirstFew ==
    ASSUME NEW m \in Nat, NEW M \in SUBSET (1 .. m), NEW n \in Nat
    PROVE  LET F == {i \in M : Cardinality({j \in M : j < i}) < n}
           IN  IsFiniteSet(F) /\ Cardinality(F) <= n
<1> DEFINE below(i) == {j \in M : j < i}
           F == {i \in M : Cardinality(below(i)) < n}
           f == [i \in F |-> Cardinality(below(i))]
<1>1. IsFiniteSet(M)
  <2>1. 1 \in Int /\ m \in Int
    OBVIOUS
  <2>2. IsFiniteSet(1 .. m)
    BY <2>1, FS_Interval
  <2>3. M \in SUBSET (1 .. m)
    OBVIOUS
  <2> QED
    BY <2>2, <2>3, FS_Subset
<1>2. \A i \in M : IsFiniteSet(below(i)) /\ Cardinality(below(i)) \in Nat
  <2> SUFFICES ASSUME NEW i \in M PROVE IsFiniteSet(below(i)) /\ Cardinality(below(i)) \in Nat
    OBVIOUS
  <2>1. below(i) \in SUBSET M
    OBVIOUS
  <2> HIDE DEF below
  <2> QED
    BY <1>1, <2>1, FS_Subset, FS_CardinalityType
<1>3. ASSUME NEW i \in M, NEW k \in M, i < k
      PROVE  Cardinality(below(i)) < Cardinality(below(k))
  <2>0. \A x \in M : x \in Nat
    OBVIOUS
  <2>1. below(i) \in SUBSET (below(k) \ {i}) /\ i \in below(k)
    <3>1. ASSUME NEW x \in below(i) PROVE x \in below(k) \ {i}
      BY <1>3, <2>0
    <3> QED
      BY <1>3, <3>1
  <2> HIDE DEF below
  <2>2. Cardinality(below(k) \ {i}) = Cardinality(below(k)) - 1 /\ IsFiniteSet(below(k) \ {i})
    BY <1>2, <2>1, FS_RemoveElement
  <2>3. Cardinality(below(i)) <= Cardinality(below(k) \ {i})
    BY <2>1, <2>2, FS_Subset
  <2>4. Cardinality(below(i)) \in Nat /\ Cardinality(below(k)) \in Nat
    BY <1>2
  <2> QED
    BY <2>2, <2>3, <2>4
<1>4. F \in SUBSET M
  OBVIOUS
<1> HIDE DEF below
<1>5. f \in [F -> 0 .. n - 1]
  <2>1. \A i \in F : Cardinality(below(i)) \in Nat /\ Cardinality(below(i)) < n
    BY <1>2
  <2>2. \A i \in F : Cardinality(below(i)) \in 0 .. n - 1
    BY <2>1
  <2> QED
    BY <2>2
<1>6. ASSUME NEW i \in F, NEW k \in F, f[i] = f[k], i # k PROVE FALSE
  <2>1. i < k \/ k < i
    BY <1>4, <1>6
  <2>2. Cardinality(below(i)) \in Nat /\ Cardinality(below(k)) \in Nat
    BY <1>2, <1>4
  <2>3. Cardinality(below(i)) = Cardinality(below(k))
    BY <1>6
  <2> QED
    BY <1>3, <1>4, <2>1, <2>2, <2>3
<1>7. f \in Injection(F, 0 .. n - 1)
  BY <1>5, <1>6 DEF Injection, IsInjective
<1>8. IsFiniteSet(0 .. n - 1) /\ Cardinality(0 .. n - 1) = n
  BY FS_Interval
<1> HIDE DEF f, F
<1>9. IsFiniteSet(F) /\ Cardinality(F) <= n
  BY <1>7, <1>8, FS_Injection
<1> QED
  BY <1>9 DEF F, below

LEMMA CandidatesTyped ==
    ASSUME NEW s \in Candidates PROVE Len(s) \in 0 .. MaxPool
<1>1. PICK n \in 0 .. MaxPool : s \in [1 .. n -> Wordings \cup {NoText}]
  BY DEF Candidates
<1>2. s \in Seq(Wordings \cup {NoText}) /\ Len(s) = n
  BY <1>1, PaperAssumption
<1> QED
  BY <1>2

LEMMA ReserveTyped == ASSUME NEW n \in Nat PROVE Reserve(n) \in Nat
BY PaperAssumption DEF Reserve, Least, Greatest

LEMMA PaperInitInv == PaperInit => PaperInv
<1> SUFFICES ASSUME PaperInit PROVE PaperInv
  OBVIOUS
<1> USE DEF PaperInit
<1>1. <<>> \in Candidates /\ Len(<<>>) = 0
  <2>1. <<>> \in [1 .. 0 -> Wordings \cup {NoText}] /\ 0 \in 0 .. MaxPool
    BY PaperAssumption
  <2> QED
    BY <2>1 DEF Candidates
<1>2. PaperTypeOK
  BY <1>1, PaperAssumption DEF PaperTypeOK
<1>3. PaperDistinct
  BY FS_EmptySet DEF PaperDistinct, OnPaper
<1> QED
  BY <1>2, <1>3 DEF PaperInv, NothingYet, ShortIsExhausted

\* The request finds nothing picked.
LEMMA RequestStep ==
    ASSUME PaperInv, NEW p \in [Types -> Candidates], NEW w \in [Types -> 0 .. MaxWant], Request(p, w)
    PROVE  PaperInv'
<1>1. /\ pool' = p /\ want' = w /\ over' = FALSE /\ round' = 0 /\ round = 0
      /\ picked' = [t \in Types |-> {}]
      /\ take' = [t \in Types |-> IF w[t] = 0 THEN 0 ELSE Least(Len(p[t]), w[t] + Reserve(w[t]))]
  BY DEF Request, PaperInv, NothingYet
<1>2. ASSUME NEW t \in Types PROVE take'[t] \in 0 .. MaxPool /\ take'[t] <= Len(p[t])
  <2>1. Len(p[t]) \in 0 .. MaxPool /\ w[t] \in Nat
    BY CandidatesTyped, PaperAssumption
  <2>2. Reserve(w[t]) \in Nat
    BY <2>1, ReserveTyped
  <2>3. take'[t] = 0 \/ take'[t] = Least(Len(p[t]), w[t] + Reserve(w[t]))
    BY <1>1
  <2> QED
    BY <2>1, <2>2, <2>3, PaperAssumption DEF Least
<1>3. PaperTypeOK'
  <2>1. take' \in [Types -> 0 .. MaxPool]
    BY <1>1, <1>2
  <2> QED
    <3>1. 0 \in 0 .. Rounds
      BY PaperAssumption
    <3>2. picked' \in [Types -> SUBSET (1 .. MaxPool)]
      BY <1>1
    <3> QED
      BY <1>1, <1>2, <2>1, <3>1, <3>2 DEF PaperTypeOK
<1>4. PaperDistinct'
  <2>1. \A t \in Types : w[t] \in Nat
    BY PaperAssumption
  <2> QED
    BY <1>1, <2>1, FS_EmptySet DEF PaperDistinct, OnPaper
<1> QED
  BY <1>1, <1>3, <1>4 DEF PaperInv, NothingYet, ShortIsExhausted

\* A round.
LEMMA RoundStep ==
    ASSUME PaperInv, NEW drop \in SUBSET Distinct, Round(drop)
    PROVE  PaperInv'
<1> DEFINE left == Distinct \ drop
           mine(t) == {x[2] : x \in {y \in left : y[1] = t}}
           p == [t \in Types |-> FirstOf(left, t)]
<1>0. /\ pool \in [Types -> Candidates] /\ want \in [Types -> 0 .. MaxWant]
      /\ take \in [Types -> 0 .. MaxPool] /\ \A t \in Types : take[t] <= Len(pool[t])
      /\ round \in 0 .. Rounds /\ round < Rounds /\ Rounds \in Nat
  BY PaperAssumption DEF PaperInv, PaperTypeOK, Round
<1>1. /\ picked' = p /\ round' = round + 1 /\ UNCHANGED <<pool, want>>
      /\ take' = IF GoesOn(p) THEN [t \in Types |-> IF t \in Growing(p) THEN More(t) ELSE take[t]]
                 ELSE take
      /\ over' = (~GoesOn(p) \/ round + 1 = Rounds)
  BY DEF Round
<1>2. left \subseteq Staged /\ Staged \subseteq Types \X (1 .. MaxPool)
  BY DEF Distinct, Staged
<1>3. \A t \in Types : /\ mine(t) \in SUBSET (1 .. MaxPool)
                       /\ p[t] = {i \in mine(t) : Cardinality({j \in mine(t) : j < i}) < want[t]}
  BY <1>2 DEF FirstOf
<1>4. \A t \in Types : p[t] \in SUBSET (1 .. MaxPool) /\ \A i \in p[t] : <<t, i>> \in left
  <2> SUFFICES ASSUME NEW t \in Types, NEW i \in p[t] PROVE i \in 1 .. MaxPool /\ <<t, i>> \in left
    BY <1>3
  <2>1. i \in mine(t)
    BY <1>3
  <2>2. PICK x \in left : x[1] = t /\ i = x[2]
    BY <2>1
  <2>3. x = <<x[1], x[2]>>
    BY <1>2
  <2> QED
    BY <1>2, <2>2, <2>3
<1>5. \A t \in Types : Cardinality(p[t]) <= want[t]
  <2> SUFFICES ASSUME NEW t \in Types PROVE Cardinality(p[t]) <= want[t]
    OBVIOUS
  <2> DEFINE M == mine(t)
             n == want[t]
  <2>1. M \in SUBSET (1 .. MaxPool) /\ n \in Nat
    BY <1>0, <1>3, PaperAssumption
  <2>2. p[t] = {i \in M : Cardinality({j \in M : j < i}) < n}
    BY <1>3
  <2> HIDE DEF M, n, p
  <2>3. Cardinality(p[t]) <= n
    BY <2>1, <2>2, FirstFew, PaperAssumption
  <2> QED
    BY <2>3 DEF n
<1> HIDE DEF p, mine
<1>6. \A t \in Types : take'[t] \in 0 .. MaxPool /\ take'[t] <= Len(pool[t])
  <2> SUFFICES ASSUME NEW t \in Types PROVE take'[t] \in 0 .. MaxPool /\ take'[t] <= Len(pool[t])
    OBVIOUS
  <2>1. Len(pool[t]) \in 0 .. MaxPool /\ want[t] \in Nat /\ take[t] \in 0 .. MaxPool
        /\ take[t] <= Len(pool[t])
    BY <1>0, CandidatesTyped, PaperAssumption
  <2>2. Reserve(want[t]) \in Nat
    BY <2>1, ReserveTyped
  <2>3. More(t) \in 0 .. MaxPool /\ More(t) <= Len(pool[t])
    <3> DEFINE r == Reserve(want[t])
    <3>1. r \in Nat
      BY <2>2
    <3> HIDE DEF r
    <3>2. More(t) = Least(Len(pool[t]), take[t] + Greatest(1, r))
      BY DEF More, r
    <3> QED
      BY <2>1, <3>1, <3>2, PaperAssumption DEF Least, Greatest
  <2>4. take'[t] = take[t] \/ take'[t] = More(t)
    BY <1>1
  <2> QED
    BY <2>1, <2>3, <2>4
<1>7. PaperTypeOK'
  <2>1. take' \in [Types -> 0 .. MaxPool]
    <3>1. take' = [t \in Types |-> take'[t]]
      BY <1>0, <1>1
    <3> QED
      BY <1>6, <3>1
  <2>2. picked' \in [Types -> SUBSET (1 .. MaxPool)]
    BY <1>1, <1>4 DEF p
  <2>3. round' \in 0 .. Rounds /\ over' \in BOOLEAN
    BY <1>0, <1>1
  <2> QED
    BY <1>0, <1>1, <1>6, <2>1, <2>2, <2>3 DEF PaperTypeOK
<1>8. PaperDistinct'
  <2>1. ASSUME NEW x \in OnPaper', NEW y \in OnPaper', x # y, Text(x) # NoText
        PROVE  Text(x) # Text(y)
    <3>1. x \in Distinct /\ y \in Distinct
      BY <1>1, <1>4 DEF OnPaper
    <3>2. x \in Staged /\ y \in Staged
      BY <3>1 DEF Distinct
    <3>3. Before(x, y) \/ Before(y, x)
      <4>1. /\ x = <<x[1], x[2]>> /\ y = <<y[1], y[2]>> /\ x[1] \in Nat /\ y[1] \in Nat
            /\ x[2] \in Nat /\ y[2] \in Nat
        <5>1. x \in Types \X (1 .. MaxPool) /\ y \in Types \X (1 .. MaxPool)
          BY <1>2, <3>2
        <5>2. x = <<x[1], x[2]>> /\ y = <<y[1], y[2]>>
          BY <5>1
        <5>3. x[1] \in Types /\ y[1] \in Types /\ x[2] \in 1 .. MaxPool /\ y[2] \in 1 .. MaxPool
          BY <5>1
        <5>4. Types \subseteq Nat /\ MaxPool \in Nat
          BY PaperAssumption
        <5>5. x[1] \in Nat /\ y[1] \in Nat
          BY <5>3, <5>4
        <5>6. x[2] \in Nat /\ y[2] \in Nat
          BY <5>3, <5>4
        <5> QED
          BY <5>2, <5>5, <5>6
      <4>2. x[1] # y[1] \/ x[2] # y[2]
        BY <2>1, <4>1
      <4> QED
        BY <4>1, <4>2 DEF Before
    <3> QED
      BY <2>1, <3>1, <3>2, <3>3 DEF Distinct
  <2>2. \A x : Text(x)' = Text(x)
    BY <1>1 DEF Text
  <2> QED
    BY <1>1, <1>5, <2>1, <2>2 DEF PaperDistinct
<1>9. ShortIsExhausted'
  <2> SUFFICES ASSUME over', round' \in 1 .. Rounds - 1, NEW t \in Missing(picked)'
               PROVE  take'[t] = Len(pool'[t])
    BY DEF ShortIsExhausted
  <2>1. Growing(p) = {} /\ take' = take
    <3>1. round + 1 # Rounds
      BY <1>0, <1>1
    <3>2. ~GoesOn(p)
      BY <1>1, <3>1
    <3> QED
      BY <1>1, <3>2 DEF GoesOn
  <2>2. t \in Missing(p)
    BY <1>1 DEF Missing
  <2>3. ~(take[t] < Len(pool[t])) /\ t \in Types
    BY <2>1, <2>2 DEF Growing, Missing
  <2>4. take[t] \in Nat /\ Len(pool[t]) \in Nat
    BY <1>0, <2>3, CandidatesTyped
  <2> QED
    BY <1>0, <1>1, <2>1, <2>3, <2>4
<1>10. NothingYet'
  BY <1>0, <1>1 DEF NothingYet
<1> QED
  BY <1>7, <1>8, <1>9, <1>10 DEF PaperInv

LEMMA PaperStep == PaperInv /\ [PaperNext]_paperVars => PaperInv'
<1> SUFFICES ASSUME PaperInv, [PaperNext]_paperVars PROVE PaperInv'
  OBVIOUS
<1>1. CASE UNCHANGED paperVars
  BY <1>1 DEF paperVars, PaperInv, PaperTypeOK, NothingYet, PaperDistinct, ShortIsExhausted,
              OnPaper, Text, Missing
<1> QED
  BY <1>1, RequestStep, RoundStep DEF PaperNext

\* The rounds take no more candidates than a pool has, and pick positions of it.
THEOREM PaperTypeCorrect == PaperSpec => []PaperTypeOK
<1>1. PaperInv => PaperTypeOK
  BY DEF PaperInv
<1> QED
  BY <1>1, PaperInitInv, PaperStep, PTL DEF PaperSpec

\* No text twice and no type over its number, whatever the model drops in any round and
\* however the types are numbered.
THEOREM PapersAreDistinct == PaperSpec => []PaperDistinct
<1>1. PaperInv => PaperDistinct
  BY DEF PaperInv
<1> QED
  BY <1>1, PaperInitInv, PaperStep, PTL DEF PaperSpec

\* A paper that is short for another reason than the last round has used every
\* candidate of the types it is short of.
THEOREM ShortPapersAreExhausted == PaperSpec => []ShortIsExhausted
<1>1. PaperInv => ShortIsExhausted
  BY DEF PaperInv
<1> QED
  BY <1>1, PaperInitInv, PaperStep, PTL DEF PaperSpec

----------------------------------------------------------------------------
(* All parts *)

\* The parts that share nothing behave here as they do alone.
THEOREM PartsAreTheirSpecs == PartsSpec => RagSpec /\ QuestionSpec /\ ChunkSpec /\ PaperSpec
<1>1. PartsInit => RagInit /\ QuestionInit /\ ChunkInit /\ PaperInit
  BY DEF PartsInit
<1>2. [PartsNext]_<<part, tabOnly, modelOnly, textOnly>> =>
          [RagNext]_ragVars /\ [QuestionNext]_genVars /\ [ChunkNext]_chunkVars /\ [PaperNext]_paperVars
  BY DEF PartsNext, modelOnly, textOnly, ragVars, genVars, chunkVars, paperVars
<1> QED
  BY <1>1, <1>2, PTL DEF PartsSpec, RagSpec, QuestionSpec, ChunkSpec, PaperSpec

\* The two pages share the tab: while the previews run, the mount says nothing of the
\* chats, which are where they were when it opened.
ChatsSafe == ChatTypeOK /\ OneActive /\ AnswersComeHome

PagesInv ==
    /\ IF part = "preview" THEN ChatsSafe ELSE ChatInv
    /\ PreviewTypeInv /\ PreviewInv

LEMMA ChatsAreSafe == ChatInv => ChatsSafe
BY ChatIsTyped, ChatIsOne, ChatIsHome DEF ChatsSafe

LEMMA PagesInit == PartsInit => PagesInv
BY ChatInitInv, ChatsAreSafe, PreviewTypeInit, PreviewInitInv DEF PartsInit, PagesInv

LEMMA PagesStep == PagesInv /\ [PartsNext]_<<part, tabOnly, modelOnly, textOnly>> => PagesInv'
<1> SUFFICES ASSUME PagesInv, [PartsNext]_<<part, tabOnly, modelOnly, textOnly>> PROVE PagesInv'
  OBVIOUS
<1>1. part' = part
  BY DEF PartsNext
<1>2. ASSUME UNCHANGED chatOnly, ChatsSafe PROVE ChatsSafe'
  BY <1>2 DEF ChatsSafe, ChatTypeOK, OneActive, AnswersComeHome, IdsOf, chatOnly, Mounts, Questions
<1>3. ASSUME UNCHANGED previewOnly PROVE PreviewInv'
  BY <1>3 DEF PagesInv, PreviewInv, Shapes, LoopsHaveRecords, CompletionsEarned, GradesAreRecorded,
              CompletedWasGraded, SubmittedIsCompleted, previewOnly
<1>4. CASE part = "chat" /\ ChatNext /\ UNCHANGED previewOnly
  <2>1. ChatInv'
    BY <1>4, ChatStep DEF PagesInv
  <2>2. PreviewTypeInv'
    BY <1>4, <2>1 DEF PagesInv, PreviewTypeInv, PreviewTypeOK, ChatInv, TabInv, previewOnly,
                      PreviewState, Mounts
  <2> QED
    BY <1>1, <1>3, <1>4, <2>1, <2>2 DEF PagesInv
<1>5. CASE part = "preview" /\ PreviewNext /\ UNCHANGED chatOnly
  <2>1. PreviewTypeInv' /\ PreviewInv'
    BY <1>5, PreviewTypeStep, PreviewStep DEF PagesInv
  <2>2. ChatsSafe'
    BY <1>2, <1>5 DEF PagesInv
  <2> QED
    BY <1>1, <1>5, <2>1, <2>2 DEF PagesInv
<1>6. CASE UNCHANGED tabOnly
  <2>1. /\ UNCHANGED chatVars /\ UNCHANGED previewVars
        /\ UNCHANGED chatOnly /\ UNCHANGED previewOnly
    BY <1>6 DEF tabOnly, chatOnly, previewOnly, chatVars, previewVars
  <2>2. PreviewTypeInv'
    BY <2>1, PreviewTypeStep DEF PagesInv
  <2>3. ChatInv => ChatInv'
    BY <2>1, ChatStep
  <2> QED
    BY <1>1, <1>2, <1>3, <2>1, <2>2, <2>3 DEF PagesInv
<1> QED
  BY <1>4, <1>5, <1>6 DEF PartsNext, PagesInv

\* The invariant of the pages, whichever of them is open.
THEOREM PagesInvariant == PartsSpec => []PagesInv
BY PagesInit, PagesStep, PTL DEF PartsSpec

LEMMA ChatsStaySafe == PagesInv => ChatsSafe
BY ChatsAreSafe DEF PagesInv

\* Every variable keeps its type, whichever part runs.
THEOREM PartsTypeCorrect == PartsSpec => []PartsTypeOK
<1>1. PagesInv => ChatTypeOK /\ PreviewTypeOK
  BY ChatsStaySafe DEF PagesInv, ChatsSafe, PreviewTypeInv
<1>2. ChatTypeOK /\ PreviewTypeOK /\ RagTypeOK /\ QuestionTypeOK /\ ChunkTypeOK /\ PaperTypeOK
          => PartsTypeOK
  BY DEF PartsTypeOK
<1> QED
  BY <1>1, <1>2, PagesInvariant, PartsAreTheirSpecs, RagTypeCorrect, GenerationTypeCorrect,
     ChunkTypeCorrect, PaperTypeCorrect, PTL

\* Side by side the parts keep what each of them keeps alone ...
THEOREM PartsAreSafe ==
    PartsSpec => [](/\ OneActive /\ AnswersComeHome
                    /\ GradesAreRecorded /\ CompletedWasGraded /\ SubmittedIsCompleted
                    /\ MemoryIsTable /\ ClientsFresh
                    /\ ChunksCover /\ BudgetKept /\ PaperDistinct /\ ShortIsExhausted)
<1>1. PagesInv => OneActive /\ AnswersComeHome
  BY ChatsStaySafe DEF ChatsSafe
<1>2. PagesInv => GradesAreRecorded /\ CompletedWasGraded /\ SubmittedIsCompleted
  BY DEF PagesInv, PreviewInv
<1> QED
  BY <1>1, <1>2, PagesInvariant, PartsAreTheirSpecs, MemoryAndTableAgree, ClientsAreFresh,
     TextIsCovered, ChunksKeepBudget, PapersAreDistinct, ShortPapersAreExhausted, PTL

\* ... and no step of any of them does what a step of its part may not do.
THEOREM PartsStepSafely ==
    PartsSpec => HistoryKept /\ KeyKept /\ TextsAreNew /\ EveryPointCovered /\ GenerationIsTaskLife
<1>1. PagesInv /\ [PartsNext]_<<part, tabOnly, modelOnly, textOnly>> => [HistoryStep]_chatVars
  <2> SUFFICES ASSUME PagesInv, [PartsNext]_<<part, tabOnly, modelOnly, textOnly>>
               PROVE  [HistoryStep]_chatVars
    OBVIOUS
  <2>1. CASE part = "chat" /\ ChatNext
    BY <2>1, ChatStep DEF PagesInv
  <2>2. CASE part = "preview" /\ UNCHANGED chatOnly
    <3>1. stored' = stored
      BY <2>2 DEF chatOnly
    <3> QED
      BY <3>1, SameKeeps
  <2>3. CASE UNCHANGED tabOnly
    BY <2>3 DEF tabOnly, chatOnly, chatVars
  <2> QED
    BY <2>1, <2>2, <2>3 DEF PartsNext
<1>2. PartsSpec => HistoryKept
  BY <1>1, PagesInvariant, PTL DEF PartsSpec, HistoryKept, HistoryStep, IdsKept, KeptStored
<1> QED
  BY <1>2, PartsAreTheirSpecs, KeysAreKept, TasksAddNewTexts, PointsAreCovered,
     GenerationRefinesTaskLife, PTL
=============================================================================
