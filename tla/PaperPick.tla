----------------------------- MODULE PaperPick -----------------------------
(***************************************************************************)
(* A paper made from the question bank, _pick_local_questions_for_paper of *)
(* api/teacher.py.  For each type of question the request wants a number;  *)
(* the candidates of each type are sorted by how well they fit.  In up to  *)
(* six rounds the best ones of all types, with some in reserve, are        *)
(* stripped of equal texts and of those a language model takes for the     *)
(* same question; a type that has become short draws on more candidates.   *)
(***************************************************************************)
EXTENDS Naturals, Sequences, FiniteSets

CONSTANTS Types,         \* the types of the request, numbered in its order
          Wordings,      \* normalised texts
          NoText,        \* the text that normalises to nothing
          Rounds,        \* 6
          ReserveFloor,  \* 5
          ReserveCap,    \* PAPER_DEDUP_RESERVE_MAX, 20
          MaxPool,       \* bound on the candidates of a type
          MaxWant        \* bound on the number wanted of a type

ASSUME PaperAssumption ==
    /\ Types \subseteq Nat /\ IsFiniteSet(Types) /\ NoText \notin Wordings
    /\ Rounds \in Nat \ {0} /\ MaxPool \in Nat /\ MaxWant \in Nat
    /\ ReserveFloor \in Nat /\ ReserveCap \in Nat

VARIABLES pool,    \* pool_by_type: the texts of the candidates
          want,    \* desired_by_type
          take,    \* take_by_type
          round,   \* rounds done; 0 before the request
          picked,  \* picked_by_type: positions in the pool
          over     \* the loop has ended

paperVars == <<pool, want, take, round, picked, over>>

Candidates == UNION {[1 .. n -> Wordings \cup {NoText}] : n \in 0 .. MaxPool}
Least(a, b)    == IF a < b THEN a ELSE b
Greatest(a, b) == IF a < b THEN b ELSE a

\* _paper_dedup_reserve_count
Reserve(n) == Least(ReserveCap, Greatest(ReserveFloor, (n + 1) \div 2))

PaperInit ==
    /\ pool = [t \in Types |-> <<>>]
    /\ want = [t \in Types |-> 0] /\ take = want
    /\ picked = [t \in Types |-> {}]
    /\ round = 0 /\ over = TRUE

\* The request: the bank is read once, at the start.
Request(p, w) ==
    /\ round = 0 /\ over
    /\ \E t \in Types : w[t] > 0
    /\ pool' = p /\ want' = w
    /\ take' = [t \in Types |->
                  IF w[t] = 0 THEN 0 ELSE Least(Len(p[t]), w[t] + Reserve(w[t]))]
    /\ over' = FALSE
    /\ UNCHANGED <<round, picked>>

\* The candidates in the order of the list: by type, and by fit.
Staged        == {x \in Types \X (1 .. MaxPool) : x[2] <= take[x[1]]}
Before(x, y)  == x[1] < y[1] \/ (x[1] = y[1] /\ x[2] < y[2])
Text(x)       == pool[x[1]][x[2]]

\* Mutant: the texts of each type are compared on their own.
DistinctByType ==
    {x \in Staged : Text(x) = NoText
                    \/ \A y \in Staged : Before(y, x) /\ y[1] = x[1] => Text(y) # Text(x)}

\* _dedup_paper_questions_by_text keeps the first of equal texts.
Distinct ==
    {x \in Staged : Text(x) = NoText
                    \/ \A y \in Staged : Before(y, x) => Text(y) # Text(x)}

\* The first want[t] of those that are left.
FirstOf(S, t) ==
    LET mine == {x[2] : x \in {y \in S : y[1] = t}} IN
    {i \in mine : Cardinality({j \in mine : j < i}) < want[t]}

Missing(p)  == {t \in Types : Cardinality(p[t]) < want[t]}
Growing(p)  == {t \in Missing(p) : take[t] < Len(pool[t])}
More(t)     == Least(Len(pool[t]), take[t] + Greatest(1, Reserve(want[t])))

\* Mutant: a type that cannot grow ends the loop.
GoesOnAll(p) == Growing(p) # {} /\ Growing(p) = Missing(p)

\* The loop goes on while a type that is short can grow.
GoesOn(p) == Growing(p) # {}

\* A round, with what the model takes for duplicates: anything of a list of two or
\* more, nothing when it fails.
Round(drop) ==
    LET left == Distinct \ drop
        p    == [t \in Types |-> FirstOf(left, t)] IN
    /\ ~over /\ round < Rounds
    /\ drop # {} => Cardinality(Distinct) > 1
    /\ picked' = p
    /\ round' = round + 1
    /\ take' = IF GoesOn(p) THEN [t \in Types |-> IF t \in Growing(p) THEN More(t) ELSE take[t]]
               ELSE take
    /\ over' = (~GoesOn(p) \/ round + 1 = Rounds)
    /\ UNCHANGED <<pool, want>>

PaperNext ==
    \/ \E p \in [Types -> Candidates], w \in [Types -> 0 .. MaxWant] : Request(p, w)
    \/ \E drop \in SUBSET Distinct : Round(drop)

PaperSpec == PaperInit /\ [][PaperNext]_paperVars

----------------------------------------------------------------------------
(* Properties *)

PaperTypeOK ==
    /\ pool \in [Types -> Candidates]
    /\ want \in [Types -> 0 .. MaxWant]
    /\ take \in [Types -> 0 .. MaxPool] /\ \A t \in Types : take[t] <= Len(pool[t])
    /\ picked \in [Types -> SUBSET (1 .. MaxPool)]
    /\ round \in 0 .. Rounds /\ over \in BOOLEAN

OnPaper == {x \in Types \X (1 .. MaxPool) : x[2] \in picked[x[1]]}

\* No text is on the paper twice, not even under two types, and no type has more
\* questions than were asked for, whatever the rounds before picked and dropped.
PaperDistinct ==
    /\ \A x, y \in OnPaper : x # y /\ Text(x) # NoText => Text(x) # Text(y)
    /\ \A t \in Types : Cardinality(picked[t]) <= want[t]

\* "题库里的习题数量不够生成试卷": a type is reported as short only when all its
\* candidates have been looked at, or after the last round.
ShortIsExhausted ==
    over /\ round \in 1 .. Rounds - 1 =>
        \A t \in Missing(picked) : take[t] = Len(pool[t])
=============================================================================
