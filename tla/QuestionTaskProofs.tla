------------------------- MODULE QuestionTaskProofs -------------------------
(***************************************************************************)
(* Question generation, for every set of coroutines, texts and knowledge   *)
(* points and every bound: a generation is a task of TaskLife, a task of   *)
(* one chapter adds no text it could know of, and the promise of a         *)
(* question for each knowledge point holds up to the quota.                *)
(***************************************************************************)
EXTENDS QuestionTask, DataLemmas

Places    == {"idle", "begin", "read", "batch", "ensure", "commit", "finish",
              "merge", "dealt"}
MakerType == [pc : Places, task : Gens \cup {0}, seen : SUBSET Key, points : SUBSET Points,
              batch : 0 .. MaxBatch, qa : 0 .. Quota, draft : SUBSET Draft, locked : BOOLEAN]

\* What is true of a coroutine at any time; its task has been taken from Gens.
GoodMaker(m) ==
    /\ m \in MakerType
    /\ m.pc = "idle" <=> m.task = 0
    /\ IsFiniteSet(m.seen) /\ IsFiniteSet(m.draft)
    /\ m.pc \in {"idle", "begin", "read", "merge", "finish"} => m.draft = {}

TaskShape ==
    /\ genRows \in [Gens -> {"none", "pending", "running", "success", "failed"}]
    /\ IsFiniteSet(bank) /\ bank \subseteq Draft
    /\ maker = [w \in Makers |-> maker[w]] /\ \A w \in Makers : GoodMaker(maker[w])

GenShape == TaskShape /\ late \in [Makers -> SUBSET Key]

NoKeyTwice(Q) == \A x, y \in Q : x.key = y.key => x = y

\* A task between its read and its commit knows every text that is in its way, except
\* those that came late; what it will add, it adds once.
Aware ==
    \A w \in Between :
        /\ NoKeyTwice(maker[w].draft)
        /\ KeysOf(maker[w].draft) \cap KeysOf(bank) \subseteq late[w]
        /\ maker[w].pc # "commit" =>
              (KeysOf(bank) \ late[w]) \cup KeysOf(maker[w].draft) \subseteq maker[w].seen

\* The write lock keeps the bank as _ensure_each_kp_has_question has seen it.
CoverKept ==
    \A w \in Makers :
        maker[w].pc = "commit" /\ maker[w].locked =>
            maker[w].points \subseteq Covered(bank \cup maker[w].draft) \/ maker[w].qa = Quota

----------------------------------------------------------------------------
(* Lemmas *)

LEMMA RestingIsGood ==
    /\ GoodMaker(Resting)
    /\ \A t \in Gens : /\ GoodMaker([Resting EXCEPT !.pc = "begin", !.task = t])
                       /\ GoodMaker([Resting EXCEPT !.pc = "finish", !.task = t])
<1>1. \A t \in Gens : t # 0
  BY QuestionAssumption DEF Gens
<1>2. 0 \in 0 .. MaxBatch /\ 0 \in 0 .. Quota
  BY QuestionAssumption
<1>3. GoodMaker(Resting)
  BY <1>2, FS_EmptySet DEF GoodMaker, MakerType, Places, Resting
<1>4. ASSUME NEW t \in Gens PROVE GoodMaker([Resting EXCEPT !.pc = "begin", !.task = t])
  BY <1>1, <1>2, FS_EmptySet DEF GoodMaker, MakerType, Places, Resting
<1>5. ASSUME NEW t \in Gens PROVE GoodMaker([Resting EXCEPT !.pc = "finish", !.task = t])
  BY <1>1, <1>2, FS_EmptySet DEF GoodMaker, MakerType, Places, Resting
<1> QED
  BY <1>3, <1>4, <1>5

\* The steps between the request and the flush ...
LEMMA GoodSteps ==
    ASSUME NEW m, GoodMaker(m), m.task # 0
    PROVE  /\ m.pc = "begin" => GoodMaker([m EXCEPT !.pc = "read"])
           /\ m.pc = "batch" /\ m.batch < MaxBatch => GoodMaker([m EXCEPT !.batch = @ + 1])
           /\ m.pc = "batch" => \A l \in BOOLEAN :
                 GoodMaker([m EXCEPT !.pc = "ensure", !.batch = 0, !.locked = l])
           /\ \A K \in SUBSET Points, S \in SUBSET Key, l \in BOOLEAN : IsFiniteSet(S) =>
                 GoodMaker([m EXCEPT !.pc = "batch", !.points = K, !.seen = S, !.locked = l])
           /\ m.pc = "read" => \A l \in BOOLEAN : GoodMaker([m EXCEPT !.pc = "merge", !.locked = l])
           /\ \A D \in SUBSET Draft, l \in BOOLEAN : IsFiniteSet(D) =>
                 GoodMaker([m EXCEPT !.pc = "dealt", !.draft = D, !.locked = l])
<1>1. m.pc = "begin" => GoodMaker([m EXCEPT !.pc = "read"])
  BY DEF GoodMaker, MakerType, Places
<1>2. ASSUME m.pc = "batch", m.batch < MaxBatch PROVE GoodMaker([m EXCEPT !.batch = @ + 1])
  <2> DEFINE h == m.batch + 1
  <2>1. h \in 0 .. MaxBatch
    BY <1>2, QuestionAssumption DEF GoodMaker, MakerType
  <2> HIDE DEF h
  <2>2. GoodMaker([m EXCEPT !.batch = h])
    BY <1>2, <2>1 DEF GoodMaker, MakerType
  <2> QED
    BY <2>2 DEF h
<1>3. ASSUME NEW l \in BOOLEAN, m.pc = "batch"
      PROVE  GoodMaker([m EXCEPT !.pc = "ensure", !.batch = 0, !.locked = l])
  <2>1. 0 \in 0 .. MaxBatch
    BY QuestionAssumption
  <2> QED
    BY <1>3, <2>1 DEF GoodMaker, MakerType, Places
<1>4. ASSUME NEW K \in SUBSET Points, NEW S \in SUBSET Key, NEW l \in BOOLEAN, IsFiniteSet(S)
      PROVE  GoodMaker([m EXCEPT !.pc = "batch", !.points = K, !.seen = S, !.locked = l])
  BY <1>4 DEF GoodMaker, MakerType, Places
<1>5. ASSUME NEW l \in BOOLEAN, m.pc = "read"
      PROVE  GoodMaker([m EXCEPT !.pc = "merge", !.locked = l])
  BY <1>5 DEF GoodMaker, MakerType, Places
<1>6. ASSUME NEW D \in SUBSET Draft, NEW l \in BOOLEAN, IsFiniteSet(D)
      PROVE  GoodMaker([m EXCEPT !.pc = "dealt", !.draft = D, !.locked = l])
  BY <1>6 DEF GoodMaker, MakerType, Places
<1> QED
  BY <1>1, <1>2, <1>3, <1>4, <1>5, <1>6

\* ... and those that take new questions.
LEMMA GoodTaking ==
    ASSUME NEW m, GoodMaker(m), m.task # 0, NEW q \in 0 .. Quota,
           NEW S \in SUBSET Key, IsFiniteSet(S), NEW D \in SUBSET Draft, IsFiniteSet(D)
    PROVE  /\ m.pc = "batch" /\ m.batch < MaxBatch =>
                 GoodMaker([m EXCEPT !.batch = @ + 1, !.seen = S, !.draft = D, !.qa = q])
           /\ GoodMaker([m EXCEPT !.pc = "commit", !.seen = S, !.qa = q, !.draft = D])
<1> DEFINE b1 == [m EXCEPT !.batch = @ + 1]  b2 == [b1 EXCEPT !.seen = S]
           b3 == [b2 EXCEPT !.draft = D]     b4 == [b3 EXCEPT !.qa = q]
           c1 == [m EXCEPT !.pc = "commit"]  c2 == [c1 EXCEPT !.seen = S]
           c3 == [c2 EXCEPT !.qa = q]        c4 == [c3 EXCEPT !.draft = D]
<1>1. (m.batch < MaxBatch => b1 \in MakerType) /\ c1 \in MakerType
  BY QuestionAssumption DEF GoodMaker, MakerType, Places
<1>2. (m.batch < MaxBatch => b2 \in MakerType) /\ c2 \in MakerType
  BY <1>1 DEF MakerType
<1>3. (m.batch < MaxBatch => b3 \in MakerType) /\ c3 \in MakerType
  BY <1>2 DEF MakerType
<1>4. (m.batch < MaxBatch => b4 \in MakerType) /\ c4 \in MakerType
  BY <1>3 DEF MakerType
<1>5. /\ b4.pc = m.pc /\ b4.task = m.task /\ b4.seen = S /\ b4.draft = D
      /\ c4.pc = "commit" /\ c4.task = m.task /\ c4.seen = S /\ c4.draft = D
  BY DEF GoodMaker, MakerType
<1>6. (m.pc = "batch" /\ m.batch < MaxBatch => GoodMaker(b4)) /\ GoodMaker(c4)
  BY <1>4, <1>5 DEF GoodMaker
<1> QED
  BY <1>6

\* A step of one coroutine.
LEMMA GoStep ==
    ASSUME GenShape, NEW w \in Makers, NEW m, GoodMaker(m), Go(w, m)
    PROVE  /\ maker' = [v \in Makers |-> maker'[v]] /\ \A v \in Makers : GoodMaker(maker'[v])
           /\ maker'[w] = m /\ \A v \in Makers \ {w} : maker'[v] = maker[v]
<1>1. maker' = [v \in Makers |-> IF v = w THEN m ELSE maker[v]]
  BY DEF Go, GenShape, TaskShape
<1> QED
  BY <1>1 DEF GenShape, TaskShape

\* The keys of finitely many questions are finitely many.
LEMMA KeysFinite == ASSUME NEW Q, IsFiniteSet(Q) PROVE IsFiniteSet(KeysOf(Q))
<1> DEFINE f == [x \in Q |-> x.key]
<1>1. f \in Surjection(Q, KeysOf(Q))
  BY DEF Surjection, KeysOf
<1> QED
  BY <1>1, FS_Surjection

LEMMA KeysKnown == GenShape => KeysOf(bank) \subseteq Key
BY DEF GenShape, TaskShape, KeysOf, Draft

\* What a task commits is of the kind the bank has.
LEMMA DraftJoins ==
    ASSUME TaskShape, NEW w \in Makers
    PROVE  IsFiniteSet(bank \cup maker[w].draft) /\ bank \cup maker[w].draft \subseteq Draft
<1>1. IsFiniteSet(maker[w].draft) /\ maker[w].draft \subseteq Draft
  BY DEF TaskShape, GoodMaker, MakerType
<1> QED
  BY <1>1, FS_Union DEF TaskShape

\* The special questions have texts nobody has, each its own.
LEMMA SpecialIsNew ==
    ASSUME NEW S, IsFiniteSet(S), NEW k
    PROVE  /\ Special(k, S).key \notin S /\ Special(k, S).key[1] = k
           /\ k \in Points => Special(k, S) \in Draft
<1> DEFINE N == 1 .. Cardinality(S) + 1
           Free(n) == <<k, n>> \notin S /\ \A i \in 1 .. n - 1 : <<k, i>> \in S
<1>1. \E n \in N : Free(n)
  BY FreeSuffix
<1>2. Free(CHOOSE n \in N : Free(n))
  BY <1>1
<1>3. Special(k, S) = [key |-> <<k, CHOOSE n \in N : Free(n)>>, points |-> {k}]
  BY DEF Special
<1>4. PICK n : n = CHOOSE i \in N : Free(i)
  OBVIOUS
<1>5. n \in Nat /\ <<k, n>> \notin S
  BY <1>1, <1>2, <1>4, FreeSuffix
<1>6. Special(k, S) = [key |-> <<k, n>>, points |-> {k}]
  BY <1>3, <1>4
<1> HIDE DEF N, Free
<1>7. Special(k, S).key = <<k, n>> /\ Special(k, S).key \notin S
  BY <1>5, <1>6
<1>8. k \in Points => Special(k, S) \in Draft
  BY <1>5, <1>6 DEF Draft, Key
<1> QED
  BY <1>7, <1>8

LEMMA SpecialsFinite ==
    ASSUME NEW K, IsFiniteSet(K), NEW S PROVE IsFiniteSet({Special(k, S) : k \in K})
<1> DEFINE f == [k \in K |-> Special(k, S)]
<1>1. f \in Surjection(K, {Special(k, S) : k \in K})
  BY DEF Surjection
<1> QED
  BY <1>1, FS_Surjection

----------------------------------------------------------------------------
(* The shape *)

LEMMA ShapeInit == QuestionInit => GenShape
BY RestingIsGood, FS_EmptySet DEF QuestionInit, GenShape, TaskShape

\* The draft grows by special questions, for the knowledge points of K.
LEMMA EnsureStep ==
    ASSUME GenShape, NEW w \in Makers, Ensure(w)
    PROVE  \E K \in SUBSET (maker[w].points \ Covered(bank \cup maker[w].draft)) :
              LET m == [maker[w] EXCEPT !.pc = "commit", !.seen = {}, !.qa = @ + Cardinality(K),
                          !.draft = @ \cup {Special(k, maker[w].seen) : k \in K}] IN
              /\ Go(w, m) /\ GoodMaker(m) /\ maker[w].pc = "ensure"
              /\ \/ K = maker[w].points \ Covered(bank \cup maker[w].draft)
                 \/ maker[w].qa + Cardinality(K) = Quota
<1> DEFINE missing == maker[w].points \ Covered(bank \cup maker[w].draft)
           added(K) == {Special(k, maker[w].seen) : k \in K}
           new(K)  == [maker[w] EXCEPT !.pc = "commit", !.seen = {}, !.qa = @ + Cardinality(K),
                          !.draft = @ \cup added(K)]
<1>1. PICK K \in SUBSET missing : /\ Go(w, new(K)) /\ Cardinality(K) <= Room(maker[w])
                                  /\ K = missing \/ Cardinality(K) = Room(maker[w])
  BY DEF Ensure
<1>2. /\ GoodMaker(maker[w]) /\ maker[w].pc = "ensure" /\ maker[w].task # 0
      /\ maker[w].qa \in 0 .. Quota /\ K \subseteq Points /\ IsFiniteSet(maker[w].seen)
      /\ IsFiniteSet(maker[w].draft) /\ maker[w].draft \subseteq Draft
  BY DEF GenShape, TaskShape, Ensure, GoodMaker, MakerType
<1>3. IsFiniteSet(K) /\ Cardinality(K) \in Nat
  BY <1>2, QuestionAssumption, FS_Subset, FS_CardinalityType
<1>4. IsFiniteSet(added(K)) /\ added(K) \subseteq Draft
  BY <1>2, <1>3, SpecialsFinite, SpecialIsNew
<1>5. IsFiniteSet(maker[w].draft \cup added(K)) /\ maker[w].draft \cup added(K) \subseteq Draft
  BY <1>2, <1>4, FS_Union
<1>6. maker[w].qa + Cardinality(K) \in 0 .. Quota
  BY <1>1, <1>2, <1>3, QuestionAssumption DEF Room
<1>7. GoodMaker(new(K))
  BY <1>2, <1>5, <1>6, FS_EmptySet, GoodTaking
<1>8. Cardinality(K) = Room(maker[w]) => maker[w].qa + Cardinality(K) = Quota
  BY <1>2, <1>3, QuestionAssumption DEF Room
<1> QED
  BY <1>1, <1>2, <1>7, <1>8

\* A question of a batch.
LEMMA BatchStep ==
    ASSUME GenShape, NEW w \in Makers, Batch(w)
    PROVE  \E m : /\ Go(w, m) /\ GoodMaker(m) /\ maker[w].pc = "batch"
                 /\ m.pc = "batch" /\ m.task = maker[w].task
                 /\ \/ m.seen = maker[w].seen /\ m.draft = maker[w].draft
                    \/ \E x : /\ x.key \notin maker[w].seen
                              /\ m.seen = maker[w].seen \cup {x.key}
                              /\ m.draft = maker[w].draft \cup {x}
<1>0. /\ GoodMaker(maker[w]) /\ maker[w].pc = "batch" /\ maker[w].task # 0 /\ maker[w] \in MakerType
      /\ maker[w].batch < MaxBatch
  BY DEF GenShape, TaskShape, Batch, GoodMaker
<1>1. CASE Go(w, [maker[w] EXCEPT !.batch = @ + 1])
  <2>1. GoodMaker([maker[w] EXCEPT !.batch = @ + 1])
    BY <1>0, GoodSteps
  <2> QED
    BY <1>0, <1>1, <2>1 DEF MakerType
<1>2. ASSUME NEW x \in [key : Texts \ maker[w].seen, points : SUBSET maker[w].points],
             NEW qa \in {maker[w].qa, maker[w].qa + 1}, qa <= Quota,
             Go(w, [maker[w] EXCEPT !.batch = @ + 1, !.seen = @ \cup {x.key},
                                    !.draft = @ \cup {x}, !.qa = qa])
      PROVE  \E m : /\ Go(w, m) /\ GoodMaker(m) /\ m.pc = "batch" /\ m.task = maker[w].task
                   /\ x.key \notin maker[w].seen
                   /\ m.seen = maker[w].seen \cup {x.key}
                   /\ m.draft = maker[w].draft \cup {x}
  <2> DEFINE S == maker[w].seen \cup {x.key}
             D == maker[w].draft \cup {x}
             m == [maker[w] EXCEPT !.batch = @ + 1, !.seen = S, !.draft = D, !.qa = qa]
  <2>1. x \in Draft /\ x.key \notin maker[w].seen /\ x.key \in Key
    BY <1>0 DEF Draft, Key, MakerType
  <2>2. IsFiniteSet(S) /\ IsFiniteSet(D)
    BY <1>0, FS_AddElement DEF GoodMaker
  <2>3. S \subseteq Key /\ D \subseteq Draft
    BY <1>0, <2>1 DEF MakerType
  <2>4. qa \in 0 .. Quota
    BY <1>0, <1>2, QuestionAssumption DEF MakerType
  <2>5. GoodMaker(m)
    BY <1>0, <2>2, <2>3, <2>4, GoodTaking
  <2>6. m.pc = "batch" /\ m.task = maker[w].task /\ m.seen = S /\ m.draft = D
    BY <1>0 DEF MakerType
  <2> QED
    BY <1>2, <2>1, <2>5, <2>6
<1> QED
  BY <1>0, <1>1, <1>2 DEF Batch

\* The flush, and the questions of a merged task.
LEMMA FlushStep ==
    ASSUME GenShape, NEW w \in Makers, Flush(w)
    PROVE  \E m : /\ Go(w, m) /\ GoodMaker(m) /\ m.pc = "ensure" /\ m.task = maker[w].task
                 /\ m.draft = maker[w].draft /\ m.seen = maker[w].seen
<1> DEFINE l == maker[w].locked \/ maker[w].draft # {}
           m == [maker[w] EXCEPT !.pc = "ensure", !.batch = 0, !.locked = l]
<1>1. GoodMaker(maker[w]) /\ maker[w].task # 0 /\ maker[w].pc = "batch"
  BY DEF GenShape, TaskShape, Flush, GoodMaker
<1>2. l \in BOOLEAN
  OBVIOUS
<1>3. Go(w, m)
  BY DEF Flush
<1> HIDE DEF l
<1>4. GoodMaker(m)
  BY <1>1, <1>2, GoodSteps
<1>5. m.pc = "ensure" /\ m.task = maker[w].task /\ m.draft = maker[w].draft /\ m.seen = maker[w].seen
  BY <1>1 DEF GoodMaker, MakerType
<1> QED
  BY <1>3, <1>4, <1>5

LEMMA DealStep ==
    ASSUME GenShape, NEW w \in Makers, NEW l \in BOOLEAN,
           NEW D \in SUBSET [key : Texts, points : {{}}], DealOut(w, D, l)
    PROVE  \E m : Go(w, m) /\ GoodMaker(m) /\ m.pc = "dealt" /\ m.task = maker[w].task
<1> DEFINE m == [maker[w] EXCEPT !.pc = "dealt", !.draft = D, !.locked = l]
<1>1. GoodMaker(maker[w]) /\ maker[w].task # 0
  BY DEF GenShape, TaskShape, DealOut, GoodMaker
<1>2. D \in SUBSET Draft /\ IsFiniteSet(D) /\ Go(w, m)
  BY DEF Draft, Key, DealOut
<1>3. GoodMaker(m)
  BY <1>1, <1>2, GoodSteps
<1>4. m.pc = "dealt" /\ m.task = maker[w].task
  BY <1>1 DEF GoodMaker, MakerType
<1> QED
  BY <1>2, <1>3, <1>4

\* Any step that gives the coroutines records they may have, and the bank questions.
LEMMA GoShape ==
    ASSUME GenShape, NEW w \in Makers, NEW m, GoodMaker(m), Go(w, m),
           genRows' \in [Gens -> {"none", "pending", "running", "success", "failed"}],
           bank' = bank \/ bank' = bank \cup maker[w].draft
    PROVE  TaskShape'
BY GoStep, DraftJoins DEF GenShape, TaskShape

\* A step of a coroutine.
LEMMA WorkShape ==
    ASSUME GenShape, NEW w \in Makers, Work(w) \/ \E t \in Gens : SubmitGen(w, t)
    PROVE  TaskShape'
<1>0. GoodMaker(maker[w]) /\ (maker[w].pc # "idle" => maker[w].task \in Gens)
      /\ genRows \in [Gens -> {"none", "pending", "running", "success", "failed"}]
  BY DEF GenShape, TaskShape, GoodMaker, MakerType
<1>00. \A t \in Gens : t # 0
  BY QuestionAssumption DEF Gens
<1>1. ASSUME NEW m, GoodMaker(m), Go(w, m), UNCHANGED <<genRows, bank>> PROVE TaskShape'
  BY <1>0, <1>1, GoShape
<1>2. ASSUME NEW t \in Gens, SubmitGen(w, t) PROVE TaskShape'
  <2>1. genRows' \in [Gens -> {"none", "pending", "running", "success", "failed"}]
    BY <1>0, <1>2 DEF SubmitGen
  <2> QED
    BY <1>2, <2>1, RestingIsGood, GoShape DEF SubmitGen
<1>3. CASE BeginGen(w)
  <2>1. GoodMaker([maker[w] EXCEPT !.pc = "read"])
    BY <1>0, <1>00, <1>3, GoodSteps DEF BeginGen
  <2>2. genRows' \in [Gens -> {"none", "pending", "running", "success", "failed"}]
    BY <1>0, <1>3 DEF BeginGen
  <2> QED
    BY <1>3, <2>1, <2>2, RestingIsGood, GoShape DEF BeginGen, Stop
<1>4. ASSUME NEW K \in SUBSET Points \ {{}}, NEW l \in BOOLEAN, ReadBank(w, K, l) PROVE TaskShape'
  <2>1. GoodMaker([maker[w] EXCEPT !.pc = "batch", !.points = K, !.seen = KeysOf(bank), !.locked = l])
    BY <1>0, <1>00, <1>4, KeysFinite, KeysKnown, GoodSteps DEF ReadBank, GenShape, TaskShape
  <2> QED
    BY <1>1, <1>4, <2>1 DEF ReadBank
<1>5. CASE Batch(w)
  BY <1>1, <1>5, BatchStep DEF Batch
<1>6. CASE Flush(w)
  BY <1>1, <1>6, FlushStep DEF Flush
<1>7. CASE Ensure(w)
  BY <1>1, <1>7, EnsureStep DEF Ensure
<1>8. CASE CommitQuestions(w)
  <2>1. GoodMaker([Resting EXCEPT !.pc = "finish", !.task = maker[w].task])
    BY <1>0, <1>8, RestingIsGood DEF CommitQuestions
  <2> QED
    BY <1>0, <1>8, <2>1, GoShape DEF CommitQuestions
<1>9. ASSUME Finish(w) \/ FinishMerged(w) \/ HandleError(w) \/ Die(w) PROVE TaskShape'
  <2>1. /\ genRows' \in [Gens -> {"none", "pending", "running", "success", "failed"}]
        /\ bank' = bank \/ bank' = bank \cup maker[w].draft
    BY <1>0, <1>9 DEF Finish, FinishMerged, HandleError, Die
  <2> QED
    BY <1>9, <2>1, RestingIsGood, GoShape DEF Finish, FinishMerged, HandleError, Die, Stop
<1>10. ASSUME NEW l \in BOOLEAN, MergeContext(w, l) PROVE TaskShape'
  BY <1>0, <1>00, <1>1, <1>10, GoodSteps DEF MergeContext
<1>11. ASSUME NEW D \in SUBSET [key : Texts, points : {{}}], NEW l \in BOOLEAN, DealOut(w, D, l)
       PROVE  TaskShape'
  BY <1>1, <1>11, DealStep DEF DealOut
<1> QED
  BY <1>2, <1>3, <1>4, <1>5, <1>6, <1>7, <1>8, <1>9, <1>10, <1>11 DEF Work

\* A step of a teacher leaves the coroutines alone.
LEMMA TeacherShape ==
    ASSUME GenShape, TeacherStep
    PROVE  TaskShape' /\ maker' = maker /\ Unlocked /\ (genRows' = genRows \/ DropChapter)
<1>1. ASSUME UNCHANGED <<genRows, maker>>, IsFiniteSet(bank'), bank' \subseteq Draft
      PROVE  TaskShape'
  BY <1>1 DEF GenShape, TaskShape
<1>2. IsFiniteSet(bank) /\ bank \subseteq Draft /\ KeysOf(bank) \subseteq Key
  BY KeysKnown DEF GenShape, TaskShape
<1>3. \A k \in Texts \cup KeysOf(bank), P \in SUBSET Points : [key |-> k, points |-> P] \in Draft
  BY <1>2 DEF Draft, Key
<1>4. ASSUME NEW K \in SUBSET (Texts \cup KeysOf(bank)), ConfirmImport(K) PROVE TaskShape'
  <2> DEFINE N == {[key |-> k, points |-> {}] : k \in K}
             f == [k \in K |-> [key |-> k, points |-> {}]]
  <2>1. f \in Surjection(K, N)
    BY DEF Surjection
  <2>2. IsFiniteSet(N)
    BY <1>4, <2>1, FS_Surjection DEF ConfirmImport
  <2>3. N \subseteq Draft
    BY <1>3
  <2> QED
    BY <1>1, <1>2, <1>4, <2>2, <2>3, FS_Union DEF ConfirmImport
<1>5. ASSUME NEW x \in bank, NEW k \in Texts \cup KeysOf(bank), NEW P \in SUBSET Points,
             UpdateQuestion(x, k, P)
      PROVE  TaskShape'
  <2>1. IsFiniteSet(bank \ {x}) /\ bank \ {x} \subseteq Draft
    BY <1>2, FS_RemoveElement
  <2>2. IsFiniteSet((bank \ {x}) \cup {[key |-> k, points |-> P]})
    BY <2>1, FS_AddElement
  <2> QED
    BY <1>1, <1>3, <1>5, <2>1, <2>2 DEF UpdateQuestion
<1>6. ASSUME NEW Q \in SUBSET bank, NEW match \in [Q -> SUBSET Points], SavePoints(Q, match)
      PROVE  TaskShape'
  <2> DEFINE N == {[x EXCEPT !.points = match[x]] : x \in Q}
             f == [x \in Q |-> [x EXCEPT !.points = match[x]]]
  <2>1. f \in Surjection(Q, N)
    BY DEF Surjection
  <2>2. IsFiniteSet(N)
    BY <1>2, <2>1, FS_Subset, FS_Surjection
  <2>3. N \subseteq Draft
    BY <1>2 DEF Draft
  <2> QED
    BY <1>1, <1>6, <2>2, <2>3 DEF SavePoints
<1>7. ASSUME NEW x \in bank, DeleteQuestion(x) PROVE TaskShape'
  BY <1>1, <1>2, <1>7, FS_RemoveElement DEF DeleteQuestion
<1>8. CASE DropChapter
  BY <1>8, FS_EmptySet DEF DropChapter, GenShape, TaskShape
<1>9. maker' = maker /\ Unlocked /\ (genRows' = genRows \/ DropChapter)
  BY DEF TeacherStep, ConfirmImport, UpdateQuestion, SavePoints, DeleteQuestion, DropChapter
<1> QED
  BY <1>4, <1>5, <1>6, <1>7, <1>8, <1>9 DEF TeacherStep

LEMMA ShapeStep == GenShape /\ [QuestionNext]_genVars => GenShape'
<1> SUFFICES ASSUME GenShape, [QuestionNext]_genVars PROVE GenShape'
  OBVIOUS
<1>1. ASSUME TaskShape', Watch PROVE GenShape'
  <2>1. KeysOf(bank') \subseteq Key
    BY <1>1 DEF TaskShape, KeysOf, Draft
  <2>2. \A w \in Makers : late[w] \subseteq Key
    BY DEF GenShape
  <2> QED
    BY <1>1, <2>1, <2>2 DEF GenShape, Watch
<1>2. ASSUME RestartGen PROVE TaskShape'
  BY <1>2, RestingIsGood DEF RestartGen, GenShape, TaskShape
<1>3. CASE UNCHANGED genVars
  BY <1>3 DEF genVars, GenShape, TaskShape
<1> QED
  BY <1>1, <1>2, <1>3, WorkShape, TeacherShape DEF QuestionNext

\* In every reachable state rows have a status of question_generation_tasks, a coroutine
\* that works has a task, and what it has seen and drafted is finite and of its kind.
THEOREM GenerationShape == QuestionSpec => []GenShape
BY ShapeInit, ShapeStep, PTL DEF QuestionSpec

LEMMA ShapeIsTyped == GenShape => QuestionTypeOK
BY DEF GenShape, TaskShape, GoodMaker, MakerType, Places, QuestionTypeOK

\* Whatever the batches bring, no task counts more batches or short answers than the
\* request allows, and whoever writes to the bank, its questions are of their kind.
THEOREM GenerationTypeCorrect == QuestionSpec => []QuestionTypeOK
BY GenerationShape, ShapeIsTyped, PTL

----------------------------------------------------------------------------
(* A generation is a task of TaskLife *)

WorkOf == [w \in Makers |-> maker[w].task]

\* What the row and the thread show of a step of a coroutine.
LEMMA GoRefines ==
    ASSUME GenShape, NEW w \in Makers, NEW m, GoodMaker(m), Go(w, m)
    PROVE  WorkOf' = [WorkOf EXCEPT ![w] = m.task]
BY GoStep DEF WorkOf

LEMMA WorkRefines ==
    ASSUME GenShape, NEW w \in Makers, Work(w) \/ \E t \in Gens : SubmitGen(w, t)
    PROVE  Life!LifeNext \/ UNCHANGED <<genRows, WorkOf>>
<1> USE DEF Life!Ids, Life!Write, Life!Release, Life!Outcomes
<1>0. /\ GoodMaker(maker[w]) /\ (maker[w].pc # "idle" => maker[w].task \in Gens)
      /\ genRows \in [Gens -> {"none", "pending", "running", "success", "failed"}]
      /\ WorkOf \in [Makers -> Gens \cup {0}] /\ WorkOf[w] = maker[w].task
  BY DEF GenShape, TaskShape, GoodMaker, MakerType, WorkOf
<1>00. Gens = 1 .. MaxGen /\ \A t \in Gens : t # 0
  BY QuestionAssumption DEF Gens
<1>1. ASSUME NEW m, GoodMaker(m), Go(w, m), m.task = maker[w].task PROVE WorkOf' = WorkOf
  BY <1>0, <1>1, GoRefines
<1>b. ASSUME Stop(w) PROVE WorkOf' = [WorkOf EXCEPT ![w] = 0]
  <2>1. Go(w, Resting) /\ GoodMaker(Resting) /\ Resting.task = 0
    BY <1>b, RestingIsGood DEF Stop, Resting
  <2> QED
    BY <2>1, GoRefines
<1>2. ASSUME Stop(w), genRows' = genRows, maker[w].pc # "idle" PROVE Life!LifeNext
  <2>1. WorkOf' = [WorkOf EXCEPT ![w] = 0]
    BY <1>b, <1>2
  <2>2. Life!Quit(w)
    BY <1>0, <1>00, <1>2, <2>1 DEF Life!Quit, WorkOf
  <2> QED
    BY <2>2 DEF Life!LifeNext
<1>3. ASSUME Stop(w), maker[w].pc # "idle", NEW s \in {"success", "failed"},
             genRows[maker[w].task] # "none",
             genRows' = [genRows EXCEPT ![maker[w].task] = s]
      PROVE  Life!LifeNext
  <2>1. WorkOf' = [WorkOf EXCEPT ![w] = 0]
    BY <1>b, <1>3
  <2>2. genRows' = [t \in Gens |-> IF t \in {maker[w].task} THEN s ELSE genRows[t]]
    BY <1>0, <1>3
  <2>3. Life!Settle(w)
    BY <1>0, <1>00, <1>3, <2>1, <2>2 DEF Life!Settle, WorkOf
  <2> QED
    BY <2>3 DEF Life!LifeNext
<1>4. ASSUME NEW t \in Gens, SubmitGen(w, t) PROVE Life!LifeNext
  <2>1. WorkOf' = [WorkOf EXCEPT ![w] = t]
    <3> DEFINE m == [Resting EXCEPT !.pc = "begin", !.task = t]
    <3>1. GoodMaker(m) /\ m.task = t /\ Go(w, m)
      BY <1>4, RestingIsGood DEF SubmitGen, Resting
    <3> HIDE DEF m
    <3> QED
      BY <3>1, GoRefines
  <2>2. genRows' = [u \in Gens |-> IF u \in {t} THEN "pending" ELSE genRows[u]]
    BY <1>0, <1>4 DEF SubmitGen
  <2>3. Life!Submit(w, t)
    <3>1. WorkOf[w] = 0 /\ genRows[t] = "none"
      <4>1. maker[w] = Resting /\ genRows[t] = "none"
        BY <1>4 DEF SubmitGen
      <4>2. Resting.task = 0
        BY DEF Resting
      <4> QED
        BY <1>0, <4>1, <4>2
    <3> QED
      BY <1>00, <2>1, <2>2, <3>1 DEF Life!Submit, WorkOf
  <2> QED
    BY <1>00, <2>3 DEF Life!LifeNext
<1>5. CASE BeginGen(w)
  <2>1. CASE Stop(w) /\ UNCHANGED genRows
    BY <1>2, <1>5, <2>1 DEF BeginGen
  <2>2. CASE /\ genRows[maker[w].task] # "none"
             /\ genRows' = [genRows EXCEPT ![maker[w].task] = "running"]
             /\ Go(w, [maker[w] EXCEPT !.pc = "read"])
    <3>1. GoodMaker([maker[w] EXCEPT !.pc = "read"])
      BY <1>0, <1>00, <1>5, GoodSteps DEF BeginGen
    <3>2. [maker[w] EXCEPT !.pc = "read"].task = maker[w].task
      BY <1>0 DEF GoodMaker, MakerType
    <3>3. WorkOf' = WorkOf
      BY <1>1, <2>2, <3>1, <3>2
    <3>4. genRows' = [t \in Gens |-> IF t \in {maker[w].task} THEN "running" ELSE genRows[t]]
      BY <1>0, <2>2
    <3>5. Life!Begin(w)
      BY <1>0, <1>00, <1>5, <2>2, <3>3, <3>4 DEF BeginGen, Life!Begin, WorkOf
    <3> QED
      BY <3>5 DEF Life!LifeNext
  <2> QED
    BY <1>5, <2>1, <2>2 DEF BeginGen
<1>6. ASSUME NEW K \in SUBSET Points \ {{}}, NEW l \in BOOLEAN, ReadBank(w, K, l)
      PROVE  UNCHANGED <<genRows, WorkOf>>
  <2> DEFINE m == [maker[w] EXCEPT !.pc = "batch", !.points = K, !.seen = KeysOf(bank), !.locked = l]
  <2>1. GoodMaker(m)
    BY <1>0, <1>00, <1>6, KeysFinite, KeysKnown, GoodSteps DEF ReadBank, GenShape, TaskShape
  <2>2. m.task = maker[w].task
    BY <1>0 DEF GoodMaker, MakerType
  <2> QED
    BY <1>1, <1>6, <2>1, <2>2 DEF ReadBank
<1>7. CASE Batch(w)
  BY <1>1, <1>7, BatchStep DEF Batch
<1>8. CASE Flush(w)
  BY <1>1, <1>8, FlushStep DEF Flush
<1>9. CASE Ensure(w)
  <2>1. PICK m : Go(w, m) /\ GoodMaker(m) /\ m.task = maker[w].task
    <3>1. \A q, D : [maker[w] EXCEPT !.pc = "commit", !.seen = {}, !.qa = q, !.draft = D].task
                    = maker[w].task
      BY <1>0 DEF GoodMaker, MakerType
    <3> QED
      BY <1>9, <3>1, EnsureStep
  <2> QED
    BY <1>1, <1>9, <2>1 DEF Ensure
<1>10. CASE CommitQuestions(w)
  <2> DEFINE m == [Resting EXCEPT !.pc = "finish", !.task = maker[w].task]
  <2>1. GoodMaker(m) /\ m.task = maker[w].task
    BY <1>0, <1>10, RestingIsGood DEF CommitQuestions, Resting
  <2> QED
    BY <1>1, <1>10, <2>1 DEF CommitQuestions
<1>11. CASE Finish(w)
  BY <1>2, <1>3, <1>11 DEF Finish
<1>12. CASE FinishMerged(w)
  BY <1>2, <1>3, <1>12 DEF FinishMerged
<1>13. CASE HandleError(w)
  BY <1>2, <1>3, <1>13 DEF HandleError
<1>14. CASE Die(w)
  BY <1>2, <1>14 DEF Die
<1>15. ASSUME NEW l \in BOOLEAN, MergeContext(w, l) PROVE UNCHANGED <<genRows, WorkOf>>
  <2> DEFINE m == [maker[w] EXCEPT !.pc = "merge", !.locked = l]
  <2>1. GoodMaker(m)
    BY <1>0, <1>00, <1>15, GoodSteps DEF MergeContext
  <2>2. m.task = maker[w].task
    BY <1>0 DEF GoodMaker, MakerType
  <2> QED
    BY <1>1, <1>15, <2>1, <2>2 DEF MergeContext
<1>16. ASSUME NEW D \in SUBSET [key : Texts, points : {{}}], NEW l \in BOOLEAN, DealOut(w, D, l)
       PROVE  UNCHANGED <<genRows, WorkOf>>
  BY <1>1, <1>16, DealStep DEF DealOut
<1> QED
  BY <1>4, <1>5, <1>6, <1>7, <1>8, <1>9, <1>10, <1>11, <1>12, <1>13, <1>14, <1>15, <1>16 DEF Work

LEMMA StepRefines ==
    GenShape /\ [QuestionNext]_genVars => [Life!LifeNext]_(Life!lifeVars)
<1> SUFFICES ASSUME GenShape, [QuestionNext]_genVars
             PROVE  Life!LifeNext \/ UNCHANGED <<genRows, WorkOf>>
  BY DEF Life!lifeVars, WorkOf
<1>1. ASSUME TeacherStep, genRows' = genRows PROVE UNCHANGED <<genRows, WorkOf>>
  BY <1>1, TeacherShape DEF WorkOf
<1>2. CASE DropChapter
  <2>1. genRows' = [t \in Gens |-> "none"] /\ WorkOf' = WorkOf
    BY <1>2 DEF DropChapter, WorkOf
  <2>2. Life!Forget(1 .. MaxGen)
    BY <2>1 DEF Life!Forget, Life!Write, Life!Ids, WorkOf, Gens
  <2> QED
    BY <2>2 DEF Life!LifeNext, Life!Ids
<1>3. CASE RestartGen
  <2>1. genRows' = genRows /\ WorkOf' = [w \in Makers |-> 0]
    BY <1>3 DEF RestartGen, WorkOf, Resting
  <2>2. genRows = [t \in Gens |-> IF t \in {} THEN "cancelled" ELSE genRows[t]]
    BY DEF GenShape, TaskShape
  <2>3. Life!Crash({})
    BY <2>1, <2>2 DEF Life!Crash, Life!Write, Life!Ids, WorkOf, Gens
  <2> QED
    BY <2>3 DEF Life!LifeNext
<1>4. CASE UNCHANGED genVars
  BY <1>4 DEF genVars, WorkOf
<1> QED
  BY <1>1, <1>2, <1>3, <1>4, TeacherShape, WorkRefines DEF QuestionNext

\* Whatever happens to the chapter and its tasks, the rows of generations change
\* as TaskLife says: only its own coroutine starts a task or makes it a success.
THEOREM GenerationRefinesTaskLife == QuestionSpec => GenerationIsTaskLife
<1>1. QuestionInit => Life!LifeInit
  BY DEF QuestionInit, Life!LifeInit, Life!Ids, Gens, Resting
<1>2. GenShape /\ [QuestionNext]_genVars => [Life!LifeNext]_(Life!lifeVars)
  BY StepRefines
<1> QED
  BY <1>1, <1>2, GenerationShape, PTL DEF QuestionSpec, GenerationIsTaskLife, Life!LifeSpec

----------------------------------------------------------------------------
(* No text that could be known of *)

\* Whatever others do to the bank, a coroutine that does not move stays aware: a text
\* that is new to the bank comes late.
LEMMA OthersAware ==
    ASSUME Aware, Watch, NEW w \in Between, maker'[w] = maker[w]
    PROVE  /\ NoKeyTwice(maker'[w].draft)
           /\ KeysOf(maker'[w].draft) \cap KeysOf(bank') \subseteq late'[w]
           /\ maker'[w].pc # "commit" =>
                 (KeysOf(bank') \ late'[w]) \cup KeysOf(maker'[w].draft) \subseteq maker'[w].seen
<1>1. w \in Makers /\ w \in Between'
  BY DEF Between
<1>2. late'[w] = late[w] \cup (KeysOf(bank') \ KeysOf(bank))
  BY <1>1 DEF Watch
<1> QED
  BY <1>2 DEF Aware

\* A step of one coroutine w keeps everybody aware, if it leaves w so.
LEMMA OneAware ==
    ASSUME Aware, GenShape, Watch, NEW w \in Makers, NEW m, GoodMaker(m), Go(w, m),
           m.pc \in {"batch", "ensure", "commit"} =>
              /\ NoKeyTwice(m.draft)
              /\ KeysOf(m.draft) \cap KeysOf(bank') \subseteq late'[w]
              /\ m.pc # "commit" => (KeysOf(bank') \ late'[w]) \cup KeysOf(m.draft) \subseteq m.seen
    PROVE  Aware'
<1>1. maker'[w] = m /\ \A v \in Makers \ {w} : maker'[v] = maker[v]
  BY GoStep
<1>2. ASSUME NEW v \in Between'
      PROVE  /\ NoKeyTwice(maker'[v].draft)
             /\ KeysOf(maker'[v].draft) \cap KeysOf(bank') \subseteq late'[v]
             /\ maker'[v].pc # "commit" =>
                   (KeysOf(bank') \ late'[v]) \cup KeysOf(maker'[v].draft) \subseteq maker'[v].seen
  <2>1. v \in Makers /\ maker'[v].pc \in {"batch", "ensure", "commit"}
    BY DEF Between
  <2>2. CASE v = w
    BY <1>1, <2>1, <2>2
  <2>3. CASE v # w
    <3>1. maker'[v] = maker[v] /\ v \in Between
      BY <1>1, <2>1, <2>3 DEF Between
    <3> QED
      BY <3>1, OthersAware
  <2> QED
    BY <2>2, <2>3
<1> QED
  BY <1>2 DEF Aware, NoKeyTwice, KeysOf

LEMMA WorkAware ==
    ASSUME Aware, GenShape, Watch, NEW w \in Makers, Work(w) \/ \E t \in Gens : SubmitGen(w, t)
    PROVE  Aware'
<1>0. /\ GoodMaker(maker[w]) /\ (maker[w].pc # "idle" => maker[w].task \in Gens)
      /\ maker[w] \in MakerType
  BY DEF GenShape, TaskShape, GoodMaker, MakerType
<1>00. \A t \in Gens : t # 0
  BY QuestionAssumption DEF Gens
<1>1. ASSUME NEW t \in Gens, SubmitGen(w, t) PROVE Aware'
  <2>1. [Resting EXCEPT !.pc = "begin", !.task = t].pc = "begin"
    BY DEF Resting
  <2> QED
    BY <1>1, <2>1, RestingIsGood, OneAware DEF SubmitGen
<1>2. ASSUME Stop(w) PROVE Aware'
  <2>1. Resting.pc = "idle"
    BY DEF Resting
  <2> QED
    BY <1>2, <2>1, RestingIsGood, OneAware DEF Stop
<1>3. CASE BeginGen(w)
  <2>1. CASE Go(w, [maker[w] EXCEPT !.pc = "read"])
    <3>1. GoodMaker([maker[w] EXCEPT !.pc = "read"])
      BY <1>0, <1>00, <1>3, GoodSteps DEF BeginGen
    <3>2. [maker[w] EXCEPT !.pc = "read"].pc = "read"
      BY <1>0 DEF MakerType
    <3> QED
      BY <2>1, <3>1, <3>2, OneAware
  <2> QED
    BY <1>2, <1>3, <2>1 DEF BeginGen
<1>4. ASSUME NEW K \in SUBSET Points \ {{}}, NEW l \in BOOLEAN, ReadBank(w, K, l) PROVE Aware'
  <2> DEFINE m == [maker[w] EXCEPT !.pc = "batch", !.points = K, !.seen = KeysOf(bank), !.locked = l]
  <2>1. GoodMaker(m)
    BY <1>0, <1>00, <1>4, KeysFinite, KeysKnown, GoodSteps DEF ReadBank, GenShape, TaskShape
  <2>2. m.draft = {} /\ m.seen = KeysOf(bank)
    BY <1>0, <1>4 DEF MakerType, GoodMaker, ReadBank
  <2>3. Go(w, m) /\ bank' = bank
    BY <1>4 DEF ReadBank
  <2> HIDE DEF m
  <2>4. NoKeyTwice(m.draft) /\ KeysOf(m.draft) = {}
    BY <2>2 DEF NoKeyTwice, KeysOf
  <2> QED
    BY <2>1, <2>2, <2>3, <2>4, OneAware
<1>5. ASSUME maker[w].pc \in {"batch", "ensure", "commit"}, bank' = bank,
             NEW m, GoodMaker(m), Go(w, m), m.pc \in {"batch", "ensure", "commit"}
      PROVE  /\ late'[w] = late[w] /\ NoKeyTwice(maker[w].draft)
             /\ KeysOf(maker[w].draft) \cap KeysOf(bank) \subseteq late[w]
             /\ maker[w].pc # "commit" =>
                   (KeysOf(bank) \ late[w]) \cup KeysOf(maker[w].draft) \subseteq maker[w].seen
  <2>1. maker'[w] = m
    BY <1>5, GoStep
  <2>2. w \in Between /\ w \in Between'
    BY <1>5, <2>1 DEF Between
  <2>3. late'[w] = late[w]
    BY <1>5, <2>2 DEF Watch
  <2> QED
    BY <2>2, <2>3 DEF Aware
<1>6. CASE Batch(w)
  <2>1. PICK m : /\ Go(w, m) /\ GoodMaker(m) /\ maker[w].pc = "batch" /\ m.pc = "batch"
                 /\ \/ m.seen = maker[w].seen /\ m.draft = maker[w].draft
                    \/ \E x : /\ x.key \notin maker[w].seen
                              /\ m.seen = maker[w].seen \cup {x.key}
                              /\ m.draft = maker[w].draft \cup {x}
    BY <1>6, BatchStep
  <2>2. bank' = bank
    BY <1>6 DEF Batch
  <2>3. /\ late'[w] = late[w] /\ NoKeyTwice(maker[w].draft)
        /\ KeysOf(maker[w].draft) \cap KeysOf(bank) \subseteq late[w]
        /\ (KeysOf(bank) \ late[w]) \cup KeysOf(maker[w].draft) \subseteq maker[w].seen
    BY <1>5, <2>1, <2>2
  <2>4. ASSUME NEW x, x.key \notin maker[w].seen, m.seen = maker[w].seen \cup {x.key},
               m.draft = maker[w].draft \cup {x}
        PROVE  /\ NoKeyTwice(m.draft) /\ KeysOf(m.draft) \cap KeysOf(bank) \subseteq late[w]
               /\ (KeysOf(bank) \ late[w]) \cup KeysOf(m.draft) \subseteq m.seen
    <3>1. KeysOf(m.draft) = KeysOf(maker[w].draft) \cup {x.key}
      BY <2>4 DEF KeysOf
    <3>2. NoKeyTwice(m.draft)
      BY <2>3, <2>4 DEF NoKeyTwice, KeysOf
    <3> QED
      BY <2>3, <2>4, <3>1, <3>2
  <2>5. /\ NoKeyTwice(m.draft) /\ KeysOf(m.draft) \cap KeysOf(bank) \subseteq late[w]
        /\ (KeysOf(bank) \ late[w]) \cup KeysOf(m.draft) \subseteq m.seen
    BY <2>1, <2>3, <2>4
  <2> QED
    BY <2>1, <2>2, <2>3, <2>5, OneAware
<1>7. CASE Flush(w)
  <2>1. PICK m : /\ Go(w, m) /\ GoodMaker(m) /\ m.pc = "ensure"
                 /\ m.draft = maker[w].draft /\ m.seen = maker[w].seen
    BY <1>7, FlushStep
  <2>2. bank' = bank /\ maker[w].pc = "batch"
    BY <1>7 DEF Flush
  <2> QED
    BY <1>5, <2>1, <2>2, OneAware
<1>8. CASE Ensure(w)
  <2>1. PICK K, m :
               /\ Go(w, m) /\ GoodMaker(m) /\ m.pc = "commit" /\ maker[w].pc = "ensure"
               /\ m.draft = maker[w].draft \cup {Special(k, maker[w].seen) : k \in K}
    <3> DEFINE new(K) == [maker[w] EXCEPT !.pc = "commit", !.seen = {}, !.qa = @ + Cardinality(K),
                            !.draft = @ \cup {Special(k, maker[w].seen) : k \in K}]
    <3>1. PICK K \in SUBSET (maker[w].points \ Covered(bank \cup maker[w].draft)) :
                Go(w, new(K)) /\ GoodMaker(new(K)) /\ maker[w].pc = "ensure"
      BY <1>8, EnsureStep
    <3>2. new(K).pc = "commit"
          /\ new(K).draft = maker[w].draft \cup {Special(k, maker[w].seen) : k \in K}
      BY <1>0 DEF MakerType
    <3> QED
      BY <3>1, <3>2
  <2>2. bank' = bank
    BY <1>8 DEF Ensure
  <2>3. /\ late'[w] = late[w] /\ NoKeyTwice(maker[w].draft)
        /\ KeysOf(maker[w].draft) \cap KeysOf(bank) \subseteq late[w]
        /\ (KeysOf(bank) \ late[w]) \cup KeysOf(maker[w].draft) \subseteq maker[w].seen
    BY <1>5, <2>1, <2>2
  <2>4. \A k : Special(k, maker[w].seen).key \notin maker[w].seen /\ Special(k, maker[w].seen).key[1] = k
    BY <1>0, SpecialIsNew DEF GoodMaker
  <2> DEFINE N == {Special(k, maker[w].seen) : k \in K}
  <2>5. (\A x \in N : x.key \notin maker[w].seen) /\ NoKeyTwice(N)
    BY <2>4 DEF NoKeyTwice
  <2>6. m.draft = maker[w].draft \cup N
    BY <2>1
  <2> HIDE DEF N
  <2>7. NoKeyTwice(m.draft) /\ KeysOf(m.draft) \cap KeysOf(bank) \subseteq late[w]
    BY <2>3, <2>5, <2>6 DEF NoKeyTwice, KeysOf
  <2> QED
    BY <2>1, <2>2, <2>3, <2>7, OneAware
<1>9. CASE CommitQuestions(w)
  <2> DEFINE m == [Resting EXCEPT !.pc = "finish", !.task = maker[w].task]
  <2>1. GoodMaker(m) /\ m.pc = "finish"
    BY <1>0, <1>9, RestingIsGood DEF CommitQuestions, Resting
  <2> QED
    BY <1>9, <2>1, OneAware DEF CommitQuestions
<1>10. ASSUME Finish(w) \/ FinishMerged(w) \/ HandleError(w) \/ Die(w) PROVE Aware'
  BY <1>2, <1>10 DEF Finish, FinishMerged, HandleError, Die
<1>11. ASSUME NEW l \in BOOLEAN, MergeContext(w, l) PROVE Aware'
  <2> DEFINE m == [maker[w] EXCEPT !.pc = "merge", !.locked = l]
  <2>1. GoodMaker(m) /\ m.pc = "merge" /\ Go(w, m)
    BY <1>0, <1>00, <1>11, GoodSteps DEF MergeContext, MakerType
  <2> QED
    BY <2>1, OneAware
<1>12. ASSUME NEW D \in SUBSET [key : Texts, points : {{}}], NEW l \in BOOLEAN, DealOut(w, D, l)
       PROVE  Aware'
  BY <1>12, DealStep, OneAware
<1> QED
  BY <1>1, <1>3, <1>4, <1>6, <1>7, <1>8, <1>9, <1>10, <1>11, <1>12 DEF Work

LEMMA AwareStep == GenShape /\ Aware /\ [QuestionNext]_genVars => Aware'
<1> SUFFICES ASSUME GenShape, Aware, [QuestionNext]_genVars PROVE Aware'
  OBVIOUS
<1>1. ASSUME TeacherStep, Watch PROVE Aware'
  <2>1. maker' = maker /\ Between' = Between
    BY <1>1, TeacherShape DEF Between
  <2> QED
    BY <1>1, <2>1, OthersAware DEF Aware, NoKeyTwice, KeysOf
<1>2. CASE RestartGen
  <2>1. Between' = {}
    BY <1>2 DEF RestartGen, Between, Resting
  <2> QED
    BY <2>1 DEF Aware
<1>3. CASE UNCHANGED genVars
  BY <1>3 DEF genVars, Aware, Between, NoKeyTwice, KeysOf
<1> QED
  BY <1>1, <1>2, <1>3, WorkAware DEF QuestionNext

LEMMA AwareInit == QuestionInit => Aware
BY DEF QuestionInit, Aware, Between, Resting

\* Whatever the model repeats, whoever else writes into the chapter and wherever a task
\* fails, what it adds is new to the bank as far as it could know.
THEOREM TasksAddNewTexts == QuestionSpec => TextsAreNew
<1>1. Aware => \A w \in Between : CommitQuestions(w) \/ HandleError(w) =>
                  /\ \A x, y \in maker[w].draft : x.key = y.key => x = y
                  /\ \A x \in maker[w].draft : x.key \in KeysOf(bank) => x.key \in late[w]
  BY DEF Aware, NoKeyTwice, KeysOf
<1>2. Aware /\ [QuestionNext]_genVars =>
        [\A w \in Between : CommitQuestions(w) \/ HandleError(w) =>
                  /\ \A x, y \in maker[w].draft : x.key = y.key => x = y
                  /\ \A x \in maker[w].draft : x.key \in KeysOf(bank) => x.key \in late[w]]_genVars
  BY <1>1
<1> QED
  BY <1>2, AwareInit, AwareStep, GenerationShape, PTL DEF QuestionSpec, TextsAreNew

----------------------------------------------------------------------------
(* A question for each knowledge point *)

\* A coroutine that leaves the bank alone, and does not come to its commit.
LEMMA QuietCover ==
    ASSUME CoverKept, GenShape, NEW w \in Makers, NEW m, GoodMaker(m), Go(w, m), bank' = bank,
           m.pc = "commit" =>
               m.points \subseteq Covered(bank \cup m.draft) \/ m.qa = Quota
    PROVE  CoverKept'
<1>1. maker'[w] = m /\ \A v \in Makers \ {w} : maker'[v] = maker[v]
  BY GoStep
<1>2. ASSUME NEW v \in Makers, maker'[v].pc = "commit", maker'[v].locked
      PROVE  maker'[v].points \subseteq Covered(bank \cup maker'[v].draft) \/ maker'[v].qa = Quota
  BY <1>1, <1>2 DEF CoverKept
<1> QED
  BY <1>2 DEF CoverKept, Covered

\* The bank changes only when nobody else holds the lock.
LEMMA CommitCover ==
    ASSUME CoverKept, GenShape, NEW w \in Makers, NEW m, GoodMaker(m), Go(w, m), Writable(w),
           m.pc # "commit"
    PROVE  CoverKept'
<1>1. maker'[w] = m /\ \A v \in Makers \ {w} : maker'[v] = maker[v]
  BY GoStep
<1>2. \A v \in Makers \ {w} : ~maker'[v].locked
  BY <1>1 DEF Writable
<1> QED
  BY <1>1, <1>2 DEF CoverKept

LEMMA WorkCover ==
    ASSUME CoverKept, GenShape, NEW w \in Makers, Work(w) \/ \E t \in Gens : SubmitGen(w, t)
    PROVE  CoverKept'
<1>0. /\ GoodMaker(maker[w]) /\ (maker[w].pc # "idle" => maker[w].task \in Gens)
      /\ maker[w] \in MakerType
  BY DEF GenShape, TaskShape, GoodMaker, MakerType
<1>00. \A t \in Gens : t # 0
  BY QuestionAssumption DEF Gens
<1>1. ASSUME NEW t \in Gens, SubmitGen(w, t) PROVE CoverKept'
  <2>1. [Resting EXCEPT !.pc = "begin", !.task = t].pc = "begin"
    BY DEF Resting
  <2> QED
    BY <1>1, <2>1, RestingIsGood, QuietCover DEF SubmitGen
<1>2. ASSUME Stop(w), bank' = bank PROVE CoverKept'
  <2>1. Resting.pc = "idle"
    BY DEF Resting
  <2> QED
    BY <1>2, <2>1, RestingIsGood, QuietCover DEF Stop
<1>3. CASE BeginGen(w)
  <2>1. CASE Go(w, [maker[w] EXCEPT !.pc = "read"])
    <3>1. GoodMaker([maker[w] EXCEPT !.pc = "read"])
      BY <1>0, <1>00, <1>3, GoodSteps DEF BeginGen
    <3>2. [maker[w] EXCEPT !.pc = "read"].pc = "read"
      BY <1>0 DEF MakerType
    <3> QED
      BY <1>3, <2>1, <3>1, <3>2, QuietCover DEF BeginGen
  <2> QED
    BY <1>2, <1>3, <2>1 DEF BeginGen
<1>4. ASSUME NEW K \in SUBSET Points \ {{}}, NEW l \in BOOLEAN, ReadBank(w, K, l) PROVE CoverKept'
  <2> DEFINE m == [maker[w] EXCEPT !.pc = "batch", !.points = K, !.seen = KeysOf(bank), !.locked = l]
  <2>1. GoodMaker(m)
    BY <1>0, <1>00, <1>4, KeysFinite, KeysKnown, GoodSteps DEF ReadBank, GenShape, TaskShape
  <2>2. m.pc = "batch"
    BY <1>0 DEF MakerType
  <2> QED
    BY <1>4, <2>1, <2>2, QuietCover DEF ReadBank
<1>5. CASE Batch(w)
  <2>1. PICK m : Go(w, m) /\ GoodMaker(m) /\ m.pc = "batch"
    BY <1>5, BatchStep
  <2> QED
    BY <1>5, <2>1, QuietCover DEF Batch
<1>6. CASE Flush(w)
  <2>1. PICK m : Go(w, m) /\ GoodMaker(m) /\ m.pc = "ensure"
    BY <1>6, FlushStep
  <2> QED
    BY <1>6, <2>1, QuietCover DEF Flush
<1>7. CASE Ensure(w)
  <2> DEFINE new(K) == [maker[w] EXCEPT !.pc = "commit", !.seen = {}, !.qa = @ + Cardinality(K),
                          !.draft = @ \cup {Special(k, maker[w].seen) : k \in K}]
             missing == maker[w].points \ Covered(bank \cup maker[w].draft)
  <2>1. PICK K \in SUBSET missing :
              /\ Go(w, new(K)) /\ GoodMaker(new(K))
              /\ K = missing \/ maker[w].qa + Cardinality(K) = Quota
    BY <1>7, EnsureStep
  <2> DEFINE added == {Special(k, maker[w].seen) : k \in K}
             m == new(K)
  <2>2. m.draft = maker[w].draft \cup added /\ m.points = maker[w].points
        /\ m.qa = maker[w].qa + Cardinality(K)
    BY <1>0 DEF MakerType
  <2>3. ASSUME K = missing PROVE m.points \subseteq Covered(bank \cup m.draft)
    <3>1. \A Q, p : p \in Covered(Q) <=> \E x \in Q : p \in x.points
      BY DEF Covered
    <3>2. \A k \in K : Special(k, maker[w].seen).points = {k}
      BY DEF Special
    <3>3. \A p \in missing : p \in Covered(added)
      BY <2>3, <3>1, <3>2
    <3>4. Covered(added) \subseteq Covered(bank \cup m.draft)
      BY <2>2, <3>1
    <3>5. Covered(bank \cup maker[w].draft) \subseteq Covered(bank \cup m.draft)
      BY <2>2, <3>1
    <3> QED
      BY <2>2, <3>3, <3>4, <3>5
  <2>4. m.points \subseteq Covered(bank \cup m.draft) \/ m.qa = Quota
    BY <2>1, <2>2, <2>3
  <2>5. bank' = bank
    BY <1>7 DEF Ensure
  <2> HIDE DEF m
  <2> QED
    BY <2>1, <2>4, <2>5, QuietCover DEF m
<1>8. CASE CommitQuestions(w)
  <2> DEFINE m == [Resting EXCEPT !.pc = "finish", !.task = maker[w].task]
  <2>1. GoodMaker(m) /\ m.pc = "finish"
    BY <1>0, <1>8, RestingIsGood DEF CommitQuestions, Resting
  <2> QED
    BY <1>8, <2>1, CommitCover DEF CommitQuestions
<1>9. CASE Finish(w)
  BY <1>2, <1>9 DEF Finish
<1>10. ASSUME HandleError(w) \/ FinishMerged(w) PROVE CoverKept'
  <2>1. GoodMaker(Resting) /\ Resting.pc = "idle"
    BY RestingIsGood DEF Resting
  <2> QED
    BY <1>10, <2>1, CommitCover DEF HandleError, FinishMerged, Stop
<1>11. CASE Die(w)
  BY <1>2, <1>11 DEF Die
<1>12. ASSUME NEW l \in BOOLEAN, MergeContext(w, l) PROVE CoverKept'
  <2> DEFINE m == [maker[w] EXCEPT !.pc = "merge", !.locked = l]
  <2>1. GoodMaker(m) /\ m.pc = "merge" /\ Go(w, m)
    BY <1>0, <1>00, <1>12, GoodSteps DEF MergeContext, MakerType
  <2> QED
    BY <1>12, <2>1, QuietCover DEF MergeContext
<1>13. ASSUME NEW D \in SUBSET [key : Texts, points : {{}}], NEW l \in BOOLEAN, DealOut(w, D, l)
       PROVE  CoverKept'
  <2>1. PICK m : Go(w, m) /\ GoodMaker(m) /\ m.pc = "dealt"
    BY <1>13, DealStep
  <2> QED
    BY <1>13, <2>1, QuietCover DEF DealOut
<1> QED
  BY <1>1, <1>3, <1>4, <1>5, <1>6, <1>7, <1>8, <1>9, <1>10, <1>11, <1>12, <1>13 DEF Work

LEMMA CoverStep == GenShape /\ CoverKept /\ [QuestionNext]_genVars => CoverKept'
<1> SUFFICES ASSUME GenShape, CoverKept, [QuestionNext]_genVars PROVE CoverKept'
  OBVIOUS
<1>1. CASE TeacherStep
  <2>1. maker' = maker /\ \A w \in Makers : ~maker[w].locked
    BY <1>1, TeacherShape DEF Unlocked
  <2> QED
    BY <2>1 DEF CoverKept
<1>2. CASE RestartGen
  BY <1>2 DEF RestartGen, CoverKept, Resting
<1>3. CASE UNCHANGED genVars
  BY <1>3 DEF genVars, CoverKept, Covered
<1> QED
  BY <1>1, <1>2, <1>3, WorkCover DEF QuestionNext

\* A task that commits questions of its own has a question for each knowledge point
\* it worked on, or has used up the quota of short answers.
THEOREM PointsAreCovered == QuestionSpec => EveryPointCovered
<1>1. QuestionInit => CoverKept
  BY DEF QuestionInit, CoverKept, Resting
<1>2. GenShape /\ CoverKept /\ [QuestionNext]_genVars => CoverKept'
  BY CoverStep
<1>3. CoverKept => \A w \in Makers : CommitQuestions(w) /\ maker[w].locked =>
                        maker[w].points \subseteq Covered(bank') \/ maker[w].qa = Quota
  <2> SUFFICES ASSUME CoverKept, NEW w \in Makers, CommitQuestions(w), maker[w].locked
               PROVE  maker[w].points \subseteq Covered(bank') \/ maker[w].qa = Quota
    OBVIOUS
  <2>1. bank' = bank \cup maker[w].draft /\ maker[w].pc = "commit"
    BY DEF CommitQuestions
  <2> QED
    BY <2>1 DEF CoverKept
<1>4. CoverKept /\ [QuestionNext]_genVars =>
        [\A w \in Makers : CommitQuestions(w) /\ maker[w].locked =>
            maker[w].points \subseteq Covered(bank') \/ maker[w].qa = Quota]_genVars
  BY <1>3
<1> QED
  BY <1>1, <1>2, <1>4, GenerationShape, PTL DEF QuestionSpec, EveryPointCovered
=============================================================================
