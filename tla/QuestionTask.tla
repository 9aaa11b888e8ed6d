---------------------------- MODULE QuestionTask ----------------------------
(***************************************************************************)
(* The questions of one chapter (api/teacher.py).  A request submits a     *)
(* task; its coroutine reads the questions the chapter has, asks the model *)
(* batch by batch, adds a question for each knowledge point that has none, *)
(* and commits the questions before the outcome.  A task for several       *)
(* chapters at once takes what the model writes as it comes, and so do the *)
(* import and the teacher's edits.  Nothing keeps these writers apart,     *)
(* nothing resets a task at startup, and the chapter can be deleted at any *)
(* time.                                                                   *)
(***************************************************************************)
EXTENDS Naturals, FiniteSets

CONSTANTS Makers,    \* coroutines of _run_question_generation_task
          MaxGen,    \* bound on the ids of question_generation_tasks
          Texts,     \* normalised texts the model writes
          Points,    \* knowledge points of the chapter
          MaxBatch,  \* batches of a task
          Quota,     \* qa_max of the request
          MaxBank    \* bound on the questions of the chapter when a teacher adds or changes some

ASSUME QuestionAssumption ==
    /\ MaxGen \in Nat /\ MaxBatch \in Nat /\ Quota \in Nat /\ MaxBank \in Nat
    /\ IsFiniteSet(Points) /\ \A x \in Texts : x \notin Points \X Nat

VARIABLES
    genRows,   \* status of each row
    bank,      \* questions of the chapter; one member stands for all rows that are alike
    maker,     \* the coroutines
    late       \* history: texts that came into the bank since a coroutine read it

genVars == <<genRows, bank, maker, late>>

Gens    == 1 .. MaxGen
Key     == Texts \cup (Points \X Nat)
Draft   == [key : Key, points : SUBSET Points]
Resting == [pc |-> "idle", task |-> 0, seen |-> {}, points |-> {}, batch |-> 0, qa |-> 0,
            draft |-> {}, locked |-> FALSE]

KeysOf(Q)   == {x.key : x \in Q}
Covered(Q)  == UNION {x.points : x \in Q}
Go(w, m)    == maker' = [maker EXCEPT ![w] = m]
Stop(w)     == Go(w, Resting)

\* Coroutines that compare their texts with those they have read, and have not committed.
Between     == {w \in Makers : maker[w].pc \in {"batch", "ensure", "commit"}}

\* A flush holds SQLite's write lock until the commit.
Writable(w) == \A v \in Makers \ {w} : ~maker[v].locked
Unlocked    == \A v \in Makers : ~maker[v].locked

QuestionInit ==
    /\ genRows = [t \in Gens |-> "none"]
    /\ bank = {}
    /\ maker = [w \in Makers |-> Resting]
    /\ late = [w \in Makers |-> {}]

----------------------------------------------------------------------------
(* The task *)

\* create_generate_teacher_chapter_questions_task: the ids of deleted rows are free.
SubmitGen(w, t) ==
    /\ Writable(w)
    /\ maker[w] = Resting /\ genRows[t] = "none"
    /\ genRows' = [genRows EXCEPT ![t] = "pending"]
    /\ Go(w, [Resting EXCEPT !.pc = "begin", !.task = t])
    /\ UNCHANGED bank

BeginGen(w) ==
    /\ maker[w].pc = "begin" /\ Writable(w)
    /\ LET t == maker[w].task IN
       IF genRows[t] = "none" THEN Stop(w) /\ UNCHANGED genRows
       ELSE /\ genRows' = [genRows EXCEPT ![t] = "running"]
            /\ Go(w, [maker[w] EXCEPT !.pc = "read"])
    /\ UNCHANGED bank

\* Mutant: the texts of the chapter are not read.
ReadNothing(w, K, fresh) ==
    /\ maker[w].pc = "read"
    /\ fresh => Writable(w)
    /\ Go(w, [maker[w] EXCEPT !.pc = "batch", !.points = K, !.locked = fresh])
    /\ UNCHANGED <<genRows, bank>>

\* The knowledge points of the request, or all of them, or fresh ones for a chapter
\* that had none, whose flush takes the lock; then existing_keys.
ReadBank(w, K, fresh) ==
    /\ maker[w].pc = "read"
    /\ fresh => Writable(w)
    /\ Go(w, [maker[w] EXCEPT !.pc = "batch", !.points = K, !.seen = KeysOf(bank),
                              !.locked = fresh])
    /\ UNCHANGED <<genRows, bank>>

\* A batch: the model repeats what is there, or a new question is taken.
Batch(w) ==
    LET m == maker[w] IN
    /\ m.pc = "batch" /\ m.batch < MaxBatch
    /\ \/ Go(w, [m EXCEPT !.batch = @ + 1])
       \/ \E x \in [key : Texts \ m.seen, points : SUBSET m.points] : \E qa \in {m.qa, m.qa + 1} :
             /\ qa <= Quota
             /\ Go(w, [m EXCEPT !.batch = @ + 1, !.seen = @ \cup {x.key}, !.draft = @ \cup {x},
                                !.qa = qa])
    /\ UNCHANGED <<genRows, bank>>

\* The flush, which needs the lock when there is something to write.
Flush(w) ==
    LET m == maker[w] IN
    /\ m.pc = "batch" /\ m.batch > 0
    /\ m.draft # {} => Writable(w)
    /\ Go(w, [m EXCEPT !.pc = "ensure", !.batch = 0, !.locked = @ \/ m.draft # {}])
    /\ UNCHANGED <<genRows, bank>>

\* A special question, with the first suffix that is not taken.
Special(k, seen) ==
    [key |-> <<k, CHOOSE n \in 1 .. Cardinality(seen) + 1 :
                    /\ <<k, n>> \notin seen
                    /\ \A i \in 1 .. n - 1 : <<k, i>> \in seen>>,
     points |-> {k}]

\* Mutant: the loop stops one question before the quota.
RoomShort(m) == IF m.qa + 1 < Quota THEN Quota - m.qa - 1 ELSE 0

\* Questions the quota leaves for _ensure_each_kp_has_question.
Room(m) == Quota - m.qa

\* It goes through the knowledge points without a question, until the quota is full.
Ensure(w) ==
    LET m       == maker[w]
        missing == m.points \ Covered(bank \cup m.draft) IN
    /\ m.pc = "ensure"
    /\ \E K \in SUBSET missing :
          /\ K = missing \/ Cardinality(K) = Room(m)
          /\ Cardinality(K) <= Room(m)
          /\ Go(w, [m EXCEPT !.pc = "commit", !.seen = {}, !.qa = @ + Cardinality(K),
                             !.draft = @ \cup {Special(k, m.seen) : k \in K}])
    /\ UNCHANGED <<genRows, bank>>

\* The questions are committed on their own, also those of a chapter that is gone.
CommitQuestions(w) ==
    /\ maker[w].pc = "commit" /\ Writable(w)
    /\ bank' = bank \cup maker[w].draft
    /\ Go(w, [Resting EXCEPT !.pc = "finish", !.task = maker[w].task])
    /\ UNCHANGED genRows

\* Mutant: the outcome is written whether the row is there or not.
FinishUpsert(w) ==
    /\ maker[w].pc = "finish" /\ Writable(w)
    /\ genRows' = [genRows EXCEPT ![maker[w].task] = "success"]
    /\ Stop(w)
    /\ UNCHANGED bank

\* The outcome; an UPDATE of a row that is gone raises, and nobody catches it.
Finish(w) ==
    LET t == maker[w].task IN
    /\ maker[w].pc = "finish" /\ Writable(w)
    /\ genRows' = IF genRows[t] = "none" THEN genRows ELSE [genRows EXCEPT ![t] = "success"]
    /\ Stop(w)
    /\ UNCHANGED bank

\* The context of several chapters: fresh knowledge points of a chapter that had none
\* take the lock, before the model is asked.
MergeContext(w, fresh) ==
    /\ maker[w].pc = "read"
    /\ fresh => Writable(w)
    /\ Go(w, [maker[w] EXCEPT !.pc = "merge", !.locked = fresh])
    /\ UNCHANGED <<genRows, bank>>

\* What the model wrote is dealt out to the chapters; this one gets D, and the flush
\* takes the lock if any of them got something.  Nothing is compared with the bank.
DealOut(w, D, flushed) ==
    /\ maker[w].pc = "merge" /\ IsFiniteSet(D)
    /\ D # {} \/ maker[w].locked => flushed
    /\ flushed => Writable(w)
    /\ Go(w, [maker[w] EXCEPT !.pc = "dealt", !.draft = D, !.locked = flushed])
    /\ UNCHANGED <<genRows, bank>>

\* Questions and outcome in one commit, or neither when the row is gone.
FinishMerged(w) ==
    LET t == maker[w].task IN
    /\ maker[w].pc = "dealt" /\ Writable(w)
    /\ IF genRows[t] = "none" THEN UNCHANGED <<genRows, bank>>
       ELSE /\ genRows' = [genRows EXCEPT ![t] = "success"]
            /\ bank' = bank \cup maker[w].draft
    /\ Stop(w)

\* An error before the flush: the handler commits "failed", and with it the
\* questions taken so far, unless the row is gone.
HandleError(w) ==
    LET t == maker[w].task IN
    /\ maker[w].pc \in {"read", "batch", "merge"} /\ Writable(w)
    /\ IF genRows[t] = "none" THEN UNCHANGED <<genRows, bank>>
       ELSE /\ genRows' = [genRows EXCEPT ![t] = "failed"]
            /\ bank' = bank \cup maker[w].draft
    /\ Stop(w)

\* An error of a flush or a commit: the session refuses the commit of the handler,
\* the coroutine dies and its row stays open.
Die(w) ==
    /\ maker[w].pc # "idle"
    /\ Stop(w)
    /\ UNCHANGED <<genRows, bank>>

----------------------------------------------------------------------------
(* Everybody else *)

\* confirm_import_teacher_questions: new texts or copies, as the table has them.
ConfirmImport(K) ==
    /\ Unlocked /\ IsFiniteSet(K)
    /\ bank' = bank \cup {[key |-> k, points |-> {}] : k \in K}
    /\ Cardinality(bank') <= MaxBank
    /\ UNCHANGED <<genRows, maker>>

\* update_teacher_question: any text and any of the chapter's knowledge points.
UpdateQuestion(x, k, P) ==
    /\ Unlocked /\ Cardinality(bank) <= MaxBank
    /\ bank' = (bank \ {x}) \cup {[key |-> k, points |-> P]}
    /\ UNCHANGED <<genRows, maker>>

\* save_teacher_chapter_knowledge_points: the questions of removed points go, the
\* others are matched with the new points.
SavePoints(Q, match) ==
    /\ Unlocked /\ Cardinality(bank) <= MaxBank
    /\ \A x \in bank \ Q : x.points # {}
    /\ bank' = {[x EXCEPT !.points = match[x]] : x \in Q}
    /\ UNCHANGED <<genRows, maker>>

\* A teacher deletes a question.
DeleteQuestion(x) ==
    /\ Unlocked
    /\ bank' = bank \ {x}
    /\ UNCHANGED <<genRows, maker>>

\* The chapter is deleted with its course: its tasks and its questions go.
DropChapter ==
    /\ Unlocked
    /\ genRows' = [t \in Gens |-> "none"]
    /\ bank' = {}
    /\ UNCHANGED maker

\* A restart ends the coroutines; init_db leaves their rows as they are.
RestartGen ==
    /\ maker' = [w \in Makers |-> Resting]
    /\ UNCHANGED <<genRows, bank>>

Work(w) ==
    \/ BeginGen(w) \/ Batch(w) \/ Flush(w) \/ Ensure(w) \/ CommitQuestions(w) \/ Finish(w)
    \/ FinishMerged(w) \/ HandleError(w) \/ Die(w)
    \/ \E fresh \in BOOLEAN :
          \/ MergeContext(w, fresh)
          \/ \E K \in SUBSET Points \ {{}} : ReadBank(w, K, fresh)
          \/ \E D \in SUBSET [key : Texts, points : {{}}] : DealOut(w, D, fresh)

\* The teacher's own changes; a text may be one that is there.
TeacherStep ==
    \/ \E K \in SUBSET (Texts \cup KeysOf(bank)) : ConfirmImport(K)
    \/ \E x \in bank, k \in Texts \cup KeysOf(bank), P \in SUBSET Points : UpdateQuestion(x, k, P)
    \/ \E Q \in SUBSET bank : \E match \in [Q -> SUBSET Points] : SavePoints(Q, match)
    \/ \E x \in bank : DeleteQuestion(x)
    \/ DropChapter

\* What a coroutine cannot know: the texts that others bring after its read.
Watch ==
    late' = [w \in Makers |-> IF w \in Between /\ w \in Between'
                              THEN late[w] \cup (KeysOf(bank') \ KeysOf(bank)) ELSE {}]

QuestionNext ==
    /\ \/ \E w \in Makers : Work(w) \/ \E t \in Gens : SubmitGen(w, t)
       \/ TeacherStep \/ RestartGen
    /\ Watch

QuestionSpec == QuestionInit /\ [][QuestionNext]_genVars

----------------------------------------------------------------------------
(* Properties *)

QuestionTypeOK ==
    /\ genRows \in [Gens -> {"none", "pending", "running", "success", "failed"}]
    /\ bank \subseteq Draft
    /\ maker \in [Makers -> [pc : {"idle", "begin", "read", "batch", "ensure", "commit", "finish",
                                   "merge", "dealt"},
                             task : Gens \cup {0}, seen : SUBSET Key, points : SUBSET Points,
                             batch : 0 .. MaxBatch, qa : 0 .. Quota, draft : SUBSET Draft,
                             locked : BOOLEAN]]
    /\ late \in [Makers -> SUBSET Key]

\* A task of one chapter adds no text that the chapter has, and none twice, whether it
\* commits its questions or fails half way, and whatever imports, edits, merged tasks and
\* deletions do meanwhile; only a text that others brought after it read the bank can
\* escape it.
TextsAreNew ==
    [][\A w \in Between : CommitQuestions(w) \/ HandleError(w) =>
          /\ \A x, y \in maker[w].draft : x.key = y.key => x = y
          /\ \A x \in maker[w].draft : x.key \in KeysOf(bank) => x.key \in late[w]]_genVars

\* The comment "强制覆盖：每个知识点至少保留 1 道题" holds up to the quota of short
\* answers: a task that commits questions of its own leaves no knowledge point it
\* worked on without one, unless it has written as many as the request allows.
EveryPointCovered ==
    [][\A w \in Makers : CommitQuestions(w) /\ maker[w].locked =>
          maker[w].points \subseteq Covered(bank') \/ maker[w].qa = Quota]_genVars

Life == INSTANCE TaskLife WITH
    Threads <- Makers, MaxId <- MaxGen,
    status <- genRows, work <- [w \in Makers |-> maker[w].task]

\* To whoever sees its row, a generation is a task like any other.
GenerationIsTaskLife == Life!LifeSpec
=============================================================================
