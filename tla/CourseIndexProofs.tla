-------------------------- MODULE CourseIndexProofs --------------------------
(***************************************************************************)
(* Theorems about CourseIndex, for every set of courses, rows, rebuilds    *)
(* and requests and every bound.                                           *)
(***************************************************************************)
EXTENDS CourseIndex, FiniteSetTheorems, TLAPS

\* A rebuild in progress has a course and a number of its own; only the thread of
\* a task has a task.
Good(x) ==
    /\ x \in Rebuild
    /\ x.pc = "idle" => x = NoRebuild
    /\ x.pc # "idle" => x.course \in Courses /\ x.run \in 1 .. MaxRun
    /\ x.pc \in {"queued", "markfail"} => x.kind = "task"
    /\ x.kind = "task" <=> x.task # 0

TypeInv == TypeOK /\ \A b \in Builders : Good(bld[b])

Becomes(b, y) == bld' = [bld EXCEPT ![b] = y]

\* What a rebuild takes with it from its start to its end.
Keeps(x, y) ==
    /\ y.kind = x.kind /\ y.course = x.course /\ y.task = x.task
    /\ y.new = x.new /\ y.old = x.old /\ y.run = x.run

----------------------------------------------------------------------------
(* Rebuilds *)

LEMMA NoRebuildGood == Good(NoRebuild)
BY IndexAssumption DEF Good, NoRebuild, Rebuild, Pcs, Kinds, Dims

LEMMA BecomesGood ==
    ASSUME TypeInv, NEW b \in Builders, NEW y, Good(y), Becomes(b, y)
    PROVE  bld' \in [Builders -> Rebuild] /\ \A v \in Builders : Good(bld[v])'
<1>1. bld' \in [Builders -> Rebuild]
    BY DEF TypeInv, TypeOK, Good, Becomes
<1>2. \A v \in Builders : bld'[v] = IF v = b THEN y ELSE bld[v]
    BY DEF TypeInv, TypeOK, Becomes
<1>. QED
    BY <1>1, <1>2 DEF TypeInv, Good

\* A rebuild that moves on keeps what it was started for.
LEMMA KeepsGood ==
    ASSUME NEW x, Good(x), x.pc # "idle", NEW y \in Rebuild, Keeps(x, y),
           y.pc \notin {"idle", "queued"}, y.pc = "markfail" => x.kind = "task"
    PROVE  Good(y)
BY DEF Good, Keeps

\* The rebuild b goes on to the label l, as y.
Move(b, l, y) ==
    /\ Becomes(b, y) /\ Good(y) /\ Keeps(bld[b], y)
    /\ bld[b].pc # "idle" /\ y.pc = l

SameView(b, y) == y.view = bld[b].view

LEMMA StepMoves ==
    ASSUME TypeInv, NEW b \in Builders, bld[b].pc # "idle",
           NEW l \in Pcs \ {"idle", "queued"}, l = "markfail" => bld[b].kind = "task", Step(b, l)
    PROVE  \E y : Move(b, l, y) /\ SameView(b, y) /\ y.ok = bld[b].ok
<1>. DEFINE x == bld[b]
            y == [x EXCEPT !.pc = l]
<1>1. Good(x) /\ x \in Rebuild /\ x.pc # "idle"
    BY DEF TypeInv, Good
<1>2. y \in Rebuild /\ Keeps(x, y) /\ y.pc = l /\ y.view = x.view /\ y.ok = x.ok
    BY <1>1 DEF Rebuild, Keeps, Pcs
<1>3. Becomes(b, y)
    BY DEF Becomes, Step
<1>. HIDE DEF y
<1>4. Good(y)
    BY <1>1, <1>2, KeepsGood
<1>. QED
    BY <1>1, <1>2, <1>3, <1>4 DEF Move, SameView

LEMMA FailMoves ==
    ASSUME TypeInv, NEW b \in Builders, bld[b].pc # "idle", Fail(b)
    PROVE  \E y : Move(b, "done", y) /\ SameView(b, y) /\ ~y.ok
<1>. DEFINE x == bld[b]
            y == [x EXCEPT !.pc = "done", !.ok = FALSE]
<1>1. Good(x) /\ x \in Rebuild /\ x.pc # "idle"
    BY DEF TypeInv, Good
<1>2. y \in Rebuild /\ Keeps(x, y) /\ y.pc = "done" /\ y.view = x.view /\ ~y.ok
    BY <1>1 DEF Rebuild, Keeps, Pcs
<1>3. Becomes(b, y)
    BY DEF Becomes, Fail
<1>. HIDE DEF y
<1>4. Good(y)
    BY <1>1, <1>2, KeepsGood
<1>. QED
    BY <1>1, <1>2, <1>3, <1>4 DEF Move, SameView

LEMMA DropMoves ==
    ASSUME TypeInv, NEW b \in Builders, Drop(b), bld[b].kind # "sweep"
    PROVE  \E y : Move(b, "embed", y) /\ SameView(b, y)
<1>. DEFINE x == bld[b]
            y == [x EXCEPT !.pc = "embed", !.hold = coll]
<1>1. Good(x) /\ x \in Rebuild /\ x.pc # "idle"
    BY DEF TypeInv, Good, Drop
<1>2. y \in Rebuild /\ Keeps(x, y) /\ y.pc = "embed" /\ y.view = x.view
    BY <1>1 DEF Rebuild, Keeps, Pcs, TypeInv, TypeOK
<1>3. Becomes(b, y)
    BY DEF Becomes, Drop
<1>. HIDE DEF y
<1>4. Good(y)
    BY <1>1, <1>2, KeepsGood
<1>. QED
    BY <1>1, <1>2, <1>3, <1>4 DEF Move, SameView

LEMMA ResetMoves ==
    ASSUME TypeInv, NEW b \in Builders, ResetCollection(b)
    PROVE  \E y : Move(b, "readd", y) /\ SameView(b, y)
<1>. DEFINE x == bld[b]
            h == coll + 1
            y == [x EXCEPT !.pc = "readd", !.hold = h]
<1>1. Good(x) /\ x \in Rebuild /\ x.pc # "idle" /\ h \in Nat
    BY DEF TypeInv, TypeOK, Good, ResetCollection
<1>2. Becomes(b, y)
    BY DEF Becomes, ResetCollection
<1>. HIDE DEF h
<1>3. y \in Rebuild /\ Keeps(x, y) /\ y.pc = "readd" /\ y.view = x.view
    BY <1>1 DEF Rebuild, Keeps, Pcs
<1>. HIDE DEF y
<1>4. Good(y)
    BY <1>1, <1>3, KeepsGood
<1>. QED
    BY <1>1, <1>2, <1>3, <1>4 DEF Move, SameView

LEMMA EmbedMoves ==
    ASSUME TypeInv, NEW b \in Builders, bld[b].pc = "embed",
           bld' = [bld EXCEPT ![b].pc = "add", ![b].dim = embDim]
    PROVE  \E y : Move(b, "add", y) /\ SameView(b, y)
<1>. DEFINE x == bld[b]
            y == [x EXCEPT !.pc = "add", !.dim = embDim]
<1>1. Good(x) /\ x \in Rebuild /\ x.pc # "idle"
    BY DEF TypeInv, Good
<1>2. y \in Rebuild /\ Keeps(x, y) /\ y.pc = "add" /\ y.view = x.view
    BY <1>1 DEF Rebuild, Keeps, Pcs, TypeInv, TypeOK
<1>3. Becomes(b, y)
    BY DEF Becomes
<1>. HIDE DEF y
<1>4. Good(y)
    BY <1>1, <1>2, KeepsGood
<1>. QED
    BY <1>1, <1>2, <1>3, <1>4 DEF Move, SameView

LEMMA ReadMoves ==
    ASSUME TypeInv, NEW b \in Builders, Read(b)
    PROVE  \E y : Move(b, IF Seen(b) = {} THEN "done" ELSE "drop", y) /\ y.view = Seen(b)
<1>. DEFINE x == bld[b]
            l == IF Seen(b) = {} THEN "done" ELSE "drop"
            y == [x EXCEPT !.view = Seen(b), !.pc = l]
<1>1. Good(x) /\ x \in Rebuild /\ x.pc # "idle" /\ x.course \in Courses
    BY DEF TypeInv, Good, Read
<1>2. Seen(b) \in SUBSET Items /\ l \in Pcs \ {"idle", "queued", "markfail"}
    BY <1>1 DEF Rebuild, Seen, TypeInv, TypeOK, Pcs
<1>3. Becomes(b, y)
    BY DEF Becomes, Read
<1>. HIDE DEF l
<1>4. y \in Rebuild /\ Keeps(x, y) /\ y.pc = l /\ y.view = Seen(b)
    BY <1>1, <1>2 DEF Rebuild, Keeps
<1>. HIDE DEF y
<1>5. Good(y)
    BY <1>1, <1>2, <1>4, KeepsGood
<1>6. Move(b, l, y)
    BY <1>1, <1>3, <1>4, <1>5 DEF Move
<1>. QED
    BY <1>4, <1>6 DEF l

\* Every step of a rebuild moves it on or ends it.
LEMMA BuildMoves ==
    ASSUME TypeInv, NEW b \in Builders, BuildStep(b)
    PROVE  Becomes(b, NoRebuild) \/ \E l \in Pcs \ {"idle", "queued"} : \E y : Move(b, l, y)
<1>. DEFINE Moves == \E l \in Pcs \ {"idle", "queued"} : \E y : Move(b, l, y)
<1>. HIDE DEF Moves
<1>. SUFFICES Becomes(b, NoRebuild) \/ Moves
    BY DEF Moves
<1>1. ASSUME NEW l \in Pcs \ {"idle", "queued"}, \E y : Move(b, l, y) PROVE Moves
    BY <1>1 DEF Moves
<1>2. ASSUME Finish(b) PROVE Becomes(b, NoRebuild)
    BY <1>2 DEF Finish, Becomes
<1>3. ASSUME NEW l \in Pcs \ {"idle", "queued"}, l = "markfail" => bld[b].kind = "task",
             bld[b].pc # "idle", Step(b, l)
      PROVE  Moves
    BY <1>1, <1>3, StepMoves
<1>4. ASSUME bld[b].pc # "idle", Fail(b) PROVE Moves
    BY <1>1, <1>4, FailMoves DEF Pcs
<1>5. CASE StartTask(b)
    BY <1>2, <1>3, <1>5 DEF StartTask, Pcs
<1>6. CASE Read(b)
    BY <1>1, <1>6, ReadMoves DEF Pcs
<1>7. CASE Drop(b)
    <2>1. CASE bld[b].kind = "sweep"
        BY <1>7, <2>1 DEF Drop, Becomes
    <2>2. CASE bld[b].kind # "sweep"
        BY <1>1, <1>7, <2>2, DropMoves DEF Pcs
    <2>. QED
        BY <2>1, <2>2
<1>8. CASE Embed(b)
    <2>1. CASE bld' = [bld EXCEPT ![b].pc = "add", ![b].dim = embDim]
        BY <1>1, <1>8, <2>1, EmbedMoves DEF Embed, Pcs
    <2>. QED
        BY <1>4, <1>8, <2>1 DEF Embed
<1>9. CASE Add(b)
    BY <1>3, <1>9 DEF Add, Pcs
<1>10. CASE AddFails(b)
    BY <1>3, <1>4, <1>10 DEF AddFails, Pcs
<1>11. CASE ResetCollection(b)
    BY <1>1, <1>11, ResetMoves DEF Pcs
<1>12. CASE Done(b)
    BY <1>2, <1>12 DEF Done
<1>13. CASE TaskCrash(b)
    BY <1>3, <1>13 DEF TaskCrash, Pcs
<1>14. CASE MarkFailed(b)
    BY <1>2, <1>14 DEF MarkFailed
<1>. QED
    BY <1>5, <1>6, <1>7, <1>8, <1>9, <1>10, <1>11, <1>12, <1>13, <1>14 DEF BuildStep

\* A rebuild that starts does so in an idle place.
LEMMA BeginMoves ==
    ASSUME TypeInv, NEW b \in Builders, NEW l \in {"queued", "read", "drop"},
           NEW k \in Kinds, NEW c \in Courses, NEW t \in TaskIds \cup {0},
           NEW new \in SUBSET Items, NEW old \in SUBSET Items,
           l = "queued" => k = "task", k = "task" <=> t # 0, Begin(b, l, k, c, t, new, old)
    PROVE  /\ runs' \in 0 .. MaxRun
           /\ bld[b] = NoRebuild
           /\ \E y : /\ Becomes(b, y) /\ Good(y)
                     /\ y.pc = l /\ y.kind = k /\ y.course = c /\ y.task = t
                     /\ y.new = new /\ y.old = old
<1>. DEFINE n == runs + 1
            y == [NoRebuild EXCEPT !.pc = l, !.kind = k, !.course = c, !.task = t,
                                   !.new = new, !.old = old, !.run = n]
<1>1. n \in 1 .. MaxRun /\ runs' \in 0 .. MaxRun
    BY IndexAssumption DEF Begin, TypeInv, TypeOK
<1>2. bld[b] = NoRebuild /\ Becomes(b, y)
    BY DEF Begin, TypeInv, Good, Becomes
<1>3. l \in Pcs \ {"idle", "markfail"}
    BY DEF Pcs
<1>. HIDE DEF n
<1>4. n \in 0 .. MaxRun
    BY <1>1
<1>5. /\ y \in Rebuild
      /\ y.pc = l /\ y.kind = k /\ y.course = c /\ y.task = t
      /\ y.new = new /\ y.old = old /\ y.run = n
    BY <1>3, <1>4 DEF NoRebuild, Rebuild, Dims
<1>. HIDE DEF y
<1>6. Good(y)
    BY <1>1, <1>3, <1>5 DEF Good
<1>. QED
    BY <1>1, <1>2, <1>5, <1>6

----------------------------------------------------------------------------
(* Type correctness *)

RowsOK ==
    /\ courses \subseteq Courses
    /\ items \in [Courses -> SUBSET Items]
    /\ rtask \in [TaskIds -> TaskRow]
    /\ req \in [Requests -> Courses \cup {NoCourse}]

StoreOK ==
    /\ chunks \subseteq [course : Courses, item : Items, run : 1 .. MaxRun]
    /\ coll \in Nat /\ collDim \in {0} \cup Dims /\ embDim \in Dims

HoldersOK ==
    /\ lock \in Builders \cup {NoOne} /\ loop \in Builders \cup {NoOne}
    /\ runs \in 0 .. MaxRun /\ events \in 0 .. MaxEvents
    /\ clean \in [Builders -> BOOLEAN]
    /\ lost \subseteq TaskIds

BuildsOK == bld \in [Builders -> Rebuild] /\ \A b \in Builders : Good(bld[b])

LEMMA TypeParts == TypeInv <=> RowsOK /\ StoreOK /\ HoldersOK /\ BuildsOK
BY DEF TypeInv, TypeOK, RowsOK, StoreOK, HoldersOK, BuildsOK

LEMMA StatusType ==
    ASSUME NEW row \in TaskRow, NEW s \in {"pending", "running", "success", "failed"}
    PROVE  [row EXCEPT !.status = s] \in TaskRow /\ [row EXCEPT !.status = s].status = s
BY DEF TaskRow

LEMMA DisturbType ==
    ASSUME HoldersOK, NEW b \in Builders, NEW hit
    PROVE  Disturb(b, hit) \in [Builders -> BOOLEAN]
BY DEF HoldersOK, Disturb

LEMMA BuildRows ==
    ASSUME TypeInv, NEW b \in Builders, BuildStep(b)
    PROVE  RowsOK'
<1>. USE DEF RowsOK, dbVars
<1>0. RowsOK /\ Good(bld[b]) /\ bld[b] \in Rebuild
    BY TypeParts DEF BuildsOK, Good
<1>1. ASSUME NEW s \in {"pending", "running", "success", "failed"}, NEW t \in TaskIds,
             rtask' = [rtask EXCEPT ![t].status = s]
      PROVE  rtask' \in [TaskIds -> TaskRow]
    BY <1>0, <1>1, StatusType
<1>2. bld[b].kind = "task" => bld[b].task \in TaskIds
    BY <1>0 DEF Good, Rebuild
<1>3. CASE StartTask(b)
    BY <1>0, <1>1, <1>2, <1>3 DEF StartTask, Good
<1>4. CASE Done(b)
    <2>1. CASE bld[b].kind = "task"
        BY <1>0, <1>1, <1>2, <1>4, <2>1 DEF Done, Outcome
    <2>2. CASE bld[b].kind \in {"doc", "delete"}
        BY <1>0, <1>4, <2>2 DEF Done, Rebuild
    <2>. QED
        BY <1>0, <1>4, <2>1, <2>2 DEF Done
<1>5. CASE MarkFailed(b)
    BY <1>0, <1>1, <1>2, <1>5 DEF MarkFailed, Good
<1>. QED
    BY <1>0, <1>3, <1>4, <1>5
       DEF BuildStep, Read, Drop, Embed, Add, AddFails, ResetCollection, TaskCrash

LEMMA BuildStore ==
    ASSUME TypeInv, NEW b \in Builders, BuildStep(b)
    PROVE  StoreOK'
<1>. USE DEF StoreOK, storeVars, cfgVars
<1>0. StoreOK /\ Good(bld[b]) /\ bld[b] \in Rebuild
    BY TypeParts DEF BuildsOK, Good
<1>1. CASE Add(b)
    <2>1. NewChunks(b) \subseteq [course : Courses, item : Items, run : 1 .. MaxRun]
        BY <1>0, <1>1 DEF Add, NewChunks, Good, Rebuild
    <2>. QED
        BY <1>0, <1>1, <2>1 DEF Add, Rebuild
<1>2. CASE Drop(b)
    BY <1>0, <1>2 DEF Drop, DeleteByCourse, ChunksOf
<1>3. CASE ResetCollection(b)
    BY <1>0, <1>3 DEF ResetCollection
<1>. QED
    BY <1>0, <1>1, <1>2, <1>3
       DEF BuildStep, StartTask, Read, Embed, AddFails, Done, TaskCrash, MarkFailed

LEMMA BuildHolders ==
    ASSUME TypeInv, NEW b \in Builders, BuildStep(b)
    PROVE  HoldersOK'
<1>. USE DEF HoldersOK, cfgVars
<1>0. HoldersOK /\ Good(bld[b]) /\ bld[b] \in Rebuild
    BY TypeParts DEF BuildsOK, Good
<1>1. ASSUME Finish(b) PROVE clean' \in [Builders -> BOOLEAN]
    BY <1>0, <1>1 DEF Finish
<1>2. ASSUME Unblock(b) PROVE loop' \in Builders \cup {NoOne}
    BY <1>0, <1>2 DEF Unblock
<1>3. CASE StartTask(b)
    BY <1>0, <1>1, <1>3 DEF StartTask
<1>4. CASE Drop(b)
    <2>1. Disturb(b, {bld[b].course}) \in [Builders -> BOOLEAN]
        BY <1>0, DisturbType
    <2>2. clean' \in [Builders -> BOOLEAN] /\ loop' \in Builders \cup {NoOne}
        BY <1>0, <1>4, <2>1 DEF Drop
    <2>. QED
        BY <1>0, <1>4, <2>2 DEF Drop
<1>5. CASE Embed(b)
    BY <1>0, <1>2, <1>5 DEF Embed
<1>6. CASE Add(b)
    BY <1>0, <1>2, <1>6, DisturbType DEF Add
<1>7. CASE AddFails(b)
    BY <1>0, <1>2, <1>7 DEF AddFails
<1>8. CASE ResetCollection(b)
    BY <1>0, <1>8, DisturbType DEF ResetCollection
<1>9. CASE Done(b)
    BY <1>0, <1>1, <1>9 DEF Done
<1>10. CASE MarkFailed(b)
    <2>1. lost' \subseteq TaskIds
        BY <1>0, <1>10 DEF MarkFailed, Good, Rebuild
    <2>. QED
        BY <1>0, <1>1, <1>10, <2>1 DEF MarkFailed
<1>. QED
    BY <1>0, <1>3, <1>4, <1>5, <1>6, <1>7, <1>8, <1>9, <1>10
       DEF BuildStep, Read, TaskCrash

LEMMA BuildTyped ==
    ASSUME TypeInv, NEW b \in Builders, BuildStep(b)
    PROVE  TypeInv'
<1>1. BuildsOK'
    BY BuildMoves, BecomesGood, NoRebuildGood DEF BuildsOK, Move
<1>. QED
    BY <1>1, BuildRows, BuildStore, BuildHolders, TypeParts DEF TypeInv, TypeOK, RowsOK, StoreOK, HoldersOK, BuildsOK

Opening ==
    \/ \E r \in Requests : ReqInsert(r)
    \/ \E b \in Builders, c \in Courses :
         \/ DeleteCourse(b, c)
         \/ \E S \in SUBSET Items : DeleteSome(b, c, S)
         \/ \E i \in Items : BeginDelete(b, c, i)
         \/ \E i \in Items, old \in SUBSET Items : BeginDoc(b, c, i, old)

Aside ==
    \/ \E r \in Requests, c \in Courses : ReqCheck(r, c)
    \/ \E c \in Courses, S \in SUBSET Items : EditItems(c, S)
    \/ SwitchModel

\* A rebuild takes a step or starts, the process restarts, or none of it happens.
LEMMA NextSplit ==
    ASSUME [Next]_vars
    PROVE  \/ \E b \in Builders : BuildStep(b)
           \/ Opening \/ Aside \/ Restart \/ UNCHANGED vars
BY DEF Next, Opening, Aside

\* What every opening has in common: one idle place is taken by a rebuild whose
\* task, if it has one, gets its row in the same step.
Opens(b, y) ==
    /\ Becomes(b, y) /\ Good(y) /\ bld[b] = NoRebuild /\ y.pc \in {"queued", "read", "drop"}
    /\ UNCHANGED <<storeVars, embDim, loop, clean, lost>>
    /\ \/ /\ y.kind = "task" /\ y.pc = "queued"
          /\ rtask[y.task].status = "none" /\ lock = NoOne /\ UNCHANGED <<lock, items, courses>>
          /\ rtask' = [rtask EXCEPT ![y.task] = [status |-> "pending", course |-> y.course]]
       \/ /\ y.kind \in {"doc", "delete"} /\ y.pc = "read"
          /\ lock = NoOne /\ lock' = b /\ UNCHANGED dbVars
          /\ y.new \cap y.old = {}
          /\ y.kind = "delete" => y.new = {}
       \/ /\ y.kind = "after" /\ y.pc = "read"
          /\ lock = NoOne /\ UNCHANGED <<lock, rtask, courses>>
          /\ items' \in [Courses -> SUBSET Items]
       \/ /\ y.kind = "sweep" /\ y.pc = "drop"
          /\ lock = NoOne /\ UNCHANGED lock
          /\ rtask' = [t \in TaskIds |-> IF rtask[t].course = y.course THEN NoTaskRow ELSE rtask[t]]
          /\ items' \in [Courses -> SUBSET Items] /\ courses' \subseteq courses

LEMMA OpeningOpens ==
    ASSUME TypeInv, Opening
    PROVE  /\ runs' \in 0 .. MaxRun /\ events' \in 0 .. MaxEvents
           /\ req' \in [Requests -> Courses \cup {NoCourse}]
           /\ \E b \in Builders : \E y : Opens(b, y)
<1>. USE DEF storeVars, cfgVars, dbVars
<1>0. /\ items \in [Courses -> SUBSET Items] /\ rtask \in [TaskIds -> TaskRow]
      /\ req \in [Requests -> Courses \cup {NoCourse}]
      /\ courses \subseteq Courses /\ events \in 0 .. MaxEvents
    BY DEF TypeInv, TypeOK
<1>1. ASSUME CountEvent PROVE events' \in 0 .. MaxEvents
    BY <1>0, <1>1, IndexAssumption DEF CountEvent
<1>2. ASSUME NEW r \in Requests, ReqInsert(r)
      PROVE  /\ runs' \in 0 .. MaxRun /\ events' \in 0 .. MaxEvents
             /\ req' \in [Requests -> Courses \cup {NoCourse}]
             /\ \E b \in Builders : \E y : Opens(b, y)
    <2>1. PICK t \in TaskIds, b \in Builders :
             /\ NextId(t)
             /\ rtask' = [rtask EXCEPT ![t] = [status |-> "pending", course |-> req[r]]]
             /\ Begin(b, "queued", "task", req[r], t, {}, {})
        BY <1>2 DEF ReqInsert
    <2>2. req[r] \in Courses /\ t # 0 /\ t \in TaskIds \cup {0}
        BY <1>0, <1>2, IndexAssumption DEF ReqInsert, TaskIds
    <2>3. rtask[t].status = "none"
        BY <2>1, IndexAssumption DEF NextId, TaskIds
    <2>4. "queued" \in {"queued", "read", "drop"} /\ "task" \in Kinds /\ {} \in SUBSET Items
        BY DEF Kinds
    <2>5. /\ runs' \in 0 .. MaxRun /\ bld[b] = NoRebuild
          /\ \E y : /\ Becomes(b, y) /\ Good(y) /\ y.pc = "queued" /\ y.kind = "task"
                    /\ y.course = req[r] /\ y.task = t /\ y.new = {} /\ y.old = {}
        BY <2>1, <2>2, <2>4, BeginMoves
    <2>6. PICK y : /\ Becomes(b, y) /\ Good(y) /\ y.pc = "queued" /\ y.kind = "task"
                   /\ y.course = req[r] /\ y.task = t
        BY <2>5
    <2>7. Opens(b, y)
        BY <1>2, <2>1, <2>3, <2>5, <2>6 DEF Opens, ReqInsert
    <2>. QED
        BY <1>0, <1>2, <2>5, <2>7 DEF ReqInsert
<1>3. ASSUME NEW b \in Builders, NEW l \in {"read", "drop"}, NEW k \in Kinds \ {"task"},
             NEW c \in Courses, NEW new \in SUBSET Items, NEW old \in SUBSET Items,
             Begin(b, l, k, c, 0, new, old)
      PROVE  /\ runs' \in 0 .. MaxRun /\ bld[b] = NoRebuild
             /\ \E y : /\ Becomes(b, y) /\ Good(y) /\ y.pc = l /\ y.kind = k
                       /\ y.course = c /\ y.task = 0 /\ y.new = new /\ y.old = old
    BY <1>3, BeginMoves
<1>4. ASSUME NEW b \in Builders, NEW c \in Courses, DeleteCourse(b, c)
      PROVE  /\ runs' \in 0 .. MaxRun /\ events' \in 0 .. MaxEvents
             /\ req' \in [Requests -> Courses \cup {NoCourse}]
             /\ \E y : Opens(b, y)
    <2>1. "sweep" \in Kinds \ {"task"} /\ Begin(b, "drop", "sweep", c, 0, {}, {})
        BY <1>4 DEF DeleteCourse, Kinds
    <2>2. /\ runs' \in 0 .. MaxRun /\ bld[b] = NoRebuild
          /\ \E y : /\ Becomes(b, y) /\ Good(y) /\ y.pc = "drop" /\ y.kind = "sweep" /\ y.course = c
        BY <2>1, <1>3
    <2>3. items' \in [Courses -> SUBSET Items]
        BY <1>0, <1>4 DEF DeleteCourse
    <2>. QED
        BY <1>0, <1>1, <1>4, <2>2, <2>3 DEF DeleteCourse, Opens
<1>5. ASSUME NEW b \in Builders, NEW c \in Courses, NEW S \in SUBSET Items, DeleteSome(b, c, S)
      PROVE  /\ runs' \in 0 .. MaxRun /\ events' \in 0 .. MaxEvents
             /\ req' \in [Requests -> Courses \cup {NoCourse}]
             /\ \E y : Opens(b, y)
    <2>1. "after" \in Kinds \ {"task"} /\ Begin(b, "read", "after", c, 0, {}, {})
        BY <1>5 DEF DeleteSome, Kinds
    <2>2. /\ runs' \in 0 .. MaxRun /\ bld[b] = NoRebuild
          /\ \E y : /\ Becomes(b, y) /\ Good(y) /\ y.pc = "read" /\ y.kind = "after" /\ y.course = c
        BY <2>1, <1>3
    <2>3. items' \in [Courses -> SUBSET Items]
        BY <1>0, <1>5 DEF DeleteSome
    <2>. QED
        BY <1>0, <1>1, <1>5, <2>2, <2>3 DEF DeleteSome, Opens
<1>6. ASSUME NEW b \in Builders, NEW c \in Courses, NEW i \in Items, BeginDelete(b, c, i)
      PROVE  /\ runs' \in 0 .. MaxRun /\ events' \in 0 .. MaxEvents
             /\ req' \in [Requests -> Courses \cup {NoCourse}]
             /\ \E y : Opens(b, y)
    <2>1. "delete" \in Kinds \ {"task"} /\ Begin(b, "read", "delete", c, 0, {}, {i})
        BY <1>6 DEF BeginDelete, Kinds
    <2>2. /\ runs' \in 0 .. MaxRun /\ bld[b] = NoRebuild
          /\ \E y : /\ Becomes(b, y) /\ Good(y) /\ y.pc = "read" /\ y.kind = "delete"
                    /\ y.new = {} /\ y.old = {i}
        BY <2>1, <1>3
    <2>. QED
        BY <1>0, <1>1, <1>6, <2>2 DEF BeginDelete, Opens
<1>7. ASSUME NEW b \in Builders, NEW c \in Courses, NEW i \in Items, NEW old \in SUBSET Items,
             BeginDoc(b, c, i, old)
      PROVE  /\ runs' \in 0 .. MaxRun /\ events' \in 0 .. MaxEvents
             /\ req' \in [Requests -> Courses \cup {NoCourse}]
             /\ \E y : Opens(b, y)
    <2>1. "doc" \in Kinds \ {"task"} /\ Begin(b, "read", "doc", c, 0, {i}, old)
        BY <1>7 DEF BeginDoc, Kinds
    <2>2. /\ runs' \in 0 .. MaxRun /\ bld[b] = NoRebuild
          /\ \E y : /\ Becomes(b, y) /\ Good(y) /\ y.pc = "read" /\ y.kind = "doc"
                    /\ y.new = {i} /\ y.old = old
        BY <2>1, <1>3
    <2>. QED
        BY <1>0, <1>7, <2>2 DEF BeginDoc, Opens
<1>. QED
    BY <1>2, <1>4, <1>5, <1>6, <1>7 DEF Opening

LEMMA OpeningTyped ==
    ASSUME TypeInv, Opening
    PROVE  TypeInv'
<1>. USE DEF storeVars, cfgVars, dbVars
<1>0. PICK b \in Builders : \E y : Opens(b, y)
    BY OpeningOpens
<1>1. PICK y : Opens(b, y)
    BY <1>0
<1>2. BuildsOK'
    BY <1>1, BecomesGood DEF Opens, BuildsOK
<1>3. StoreOK'
    BY <1>1, TypeParts DEF StoreOK, Opens
<1>4. HoldersOK'
    BY <1>1, OpeningOpens, TypeParts DEF HoldersOK, Opens
<1>5. rtask' \in [TaskIds -> TaskRow]
    <2>1. y.kind = "task" => y.task \in TaskIds /\ y.course \in Courses
        BY <1>1 DEF Opens, Good, Rebuild
    <2>. QED
        BY <1>1, <2>1, TypeParts DEF RowsOK, Opens, TaskRow, NoTaskRow
<1>6. RowsOK'
    BY <1>1, <1>5, OpeningOpens, TypeParts DEF RowsOK, Opens
<1>. QED
    BY <1>2, <1>3, <1>4, <1>6 DEF TypeInv, TypeOK, RowsOK, StoreOK, HoldersOK, BuildsOK

LEMMA OtherTyped ==
    ASSUME TypeInv, Aside \/ Restart \/ UNCHANGED vars
    PROVE  TypeInv'
<1>. USE DEF storeVars, cfgVars, dbVars
<1>1. CASE Aside
    <2>1. bld' = bld /\ UNCHANGED <<chunks, coll, collDim, lock, loop, runs, clean, lost, courses, rtask>>
        BY <1>1 DEF Aside, ReqCheck, EditItems, SwitchModel
    <2>2. RowsOK'
        BY <1>1, <2>1, TypeParts DEF Aside, ReqCheck, EditItems, SwitchModel, RowsOK
    <2>3. embDim' \in Dims /\ events' \in 0 .. MaxEvents
        BY <1>1, IndexAssumption
           DEF Aside, ReqCheck, EditItems, SwitchModel, CountEvent, TypeInv, TypeOK
    <2>. QED
        BY <2>1, <2>2, <2>3 DEF TypeInv, TypeOK, RowsOK, Good
<1>2. CASE Restart
    <2>1. BuildsOK'
        BY <1>2, NoRebuildGood DEF Restart, BuildsOK, Good
    <2>2. events' \in 0 .. MaxEvents
        BY <1>2, IndexAssumption DEF Restart, CountEvent, TypeInv, TypeOK
    <2>. QED
        BY <1>2, <2>1, <2>2 DEF Restart, BuildsOK, TypeInv, TypeOK
<1>3. CASE UNCHANGED vars
    BY <1>3 DEF vars, TypeInv, TypeOK, Good
<1>. QED
    BY <1>1, <1>2, <1>3

LEMMA InitTyped == Init => TypeInv
<1>. SUFFICES ASSUME Init PROVE TypeInv
    OBVIOUS
<1>1. BuildsOK
    BY NoRebuildGood DEF Init, BuildsOK, Good
<1>2. RowsOK
    BY DEF Init, RowsOK, NoTaskRow, TaskRow
<1>3. StoreOK /\ HoldersOK
    BY IndexAssumption DEF Init, StoreOK, HoldersOK, Dims
<1>. QED
    BY <1>1, <1>2, <1>3, TypeParts

LEMMA NextTyped == ASSUME TypeInv, [Next]_vars PROVE TypeInv'
BY NextSplit, BuildTyped, OpeningTyped, OtherTyped

\* The rows, the collection and the rebuilds keep their shape; a rebuild in progress
\* has a course, and only the thread of a task has a task.
THEOREM TypeCorrect == Spec => []TypeInv
BY InitTyped, NextTyped, PTL DEF Spec

\* A task's status is one of the words of the column, whichever path of the thread
\* wrote it.
THEOREM IndexTypes == Spec => []TypeOK
BY TypeCorrect, PTL DEF TypeInv

----------------------------------------------------------------------------
(* Tasks and their threads *)

SameThreads == \A v \in Builders : bld'[v].kind = bld[v].kind /\ bld'[v].task = bld[v].task

\* The thread of a task, b, marks its row, ends with an outcome, or ends without
\* one: the row is gone, or the task is written down as lost.
Marks(b) ==
    /\ bld[b].kind = "task" /\ rtask[bld[b].task].status # "none" /\ SameThreads
    /\ rtask' = [rtask EXCEPT ![bld[b].task].status = "running"]

Settles(b) ==
    /\ bld[b].kind = "task" /\ rtask[bld[b].task].status # "none" /\ Becomes(b, NoRebuild)
    /\ \E s \in {"success", "failed"} : rtask' = [rtask EXCEPT ![bld[b].task].status = s]

Quits(b) ==
    /\ bld[b].kind = "task" /\ rtask' = rtask /\ Becomes(b, NoRebuild)
    /\ rtask[bld[b].task].status = "none" \/ bld[b].task \in lost'

\* A rebuild that has no task ends, or any rebuild moves on.
Works(b) ==
    /\ rtask' = rtask
    /\ SameThreads \/ (bld[b].kind # "task" /\ Becomes(b, NoRebuild))

LEMMA MoveKeepsThreads ==
    ASSUME TypeInv, NEW b \in Builders, NEW l, NEW y, Move(b, l, y)
    PROVE  SameThreads
BY DEF Move, Becomes, Keeps, SameThreads, TypeInv, TypeOK

LEMMA BuildSeenAsThread ==
    ASSUME TypeInv, NEW b \in Builders, BuildStep(b)
    PROVE  /\ lost \subseteq lost'
           /\ Marks(b) \/ Settles(b) \/ Quits(b) \/ Works(b)
<1>. USE DEF dbVars
<1>0. Good(bld[b])
    BY DEF TypeInv
<1>1. ASSUME Finish(b) PROVE Becomes(b, NoRebuild)
    BY <1>1 DEF Finish, Becomes
<1>2. CASE StartTask(b)
    <2>1. bld[b].kind = "task"
        BY <1>0, <1>2 DEF Good, StartTask
    <2>2. CASE rtask[bld[b].task].status = "none"
        BY <1>1, <1>2, <2>1, <2>2 DEF StartTask, Quits
    <2>3. CASE rtask[bld[b].task].status # "none"
        <3>1. "read" \in Pcs \ {"idle", "queued"} /\ bld[b].pc # "idle" /\ Step(b, "read")
            BY <1>2, <2>3 DEF StartTask, Pcs
        <3>2. SameThreads
            BY <3>1, StepMoves, MoveKeepsThreads
        <3>. QED
            BY <1>2, <2>1, <2>3, <3>2 DEF StartTask, Marks
    <2>. QED
        BY <1>2, <2>2, <2>3 DEF StartTask
<1>3. CASE Done(b)
    <2>1. Becomes(b, NoRebuild) /\ lost' = lost
        BY <1>1, <1>3 DEF Done
    <2>2. CASE bld[b].kind = "task"
        <3>1. rtask[bld[b].task].status # "none"
              /\ rtask' = [rtask EXCEPT ![bld[b].task].status = Outcome(b)]
            BY <1>3, <2>2 DEF Done
        <3>. QED
            BY <2>1, <2>2, <3>1 DEF Settles, Outcome
    <2>3. CASE bld[b].kind # "task"
        BY <1>3, <2>1, <2>3 DEF Done, Works
    <2>. QED
        BY <2>2, <2>3
<1>4. CASE MarkFailed(b)
    <2>1. Becomes(b, NoRebuild) /\ bld[b].kind = "task" /\ lost \subseteq lost'
        BY <1>0, <1>1, <1>4 DEF MarkFailed, Good
    <2>. QED
        BY <1>4, <2>1 DEF MarkFailed, Settles, Quits
<1>5. CASE Drop(b)
    <2>1. CASE bld[b].kind = "sweep"
        BY <1>5, <2>1 DEF Drop, Works, Becomes
    <2>2. CASE bld[b].kind # "sweep"
        BY <1>5, <2>2, DropMoves, MoveKeepsThreads DEF Drop, Works
    <2>. QED
        BY <1>5, <2>1, <2>2 DEF Drop
<1>6. ASSUME bld[b].pc # "idle", NEW l \in Pcs \ {"idle", "queued"},
             l = "markfail" => bld[b].kind = "task", Step(b, l)
      PROVE  SameThreads
    BY <1>6, StepMoves, MoveKeepsThreads
<1>7. ASSUME bld[b].pc # "idle", Fail(b) PROVE SameThreads
    BY <1>7, FailMoves, MoveKeepsThreads
<1>8. CASE Read(b)
    BY <1>8, ReadMoves, MoveKeepsThreads DEF Read, Works
<1>9. CASE Embed(b)
    <2>1. SameThreads
        BY <1>7, <1>9, EmbedMoves, MoveKeepsThreads DEF Embed
    <2>. QED
        BY <1>9, <2>1 DEF Embed, Works
<1>10. CASE Add(b)
    BY <1>6, <1>10 DEF Add, Works, Pcs
<1>11. CASE AddFails(b)
    BY <1>6, <1>7, <1>11 DEF AddFails, Works, Pcs
<1>12. CASE ResetCollection(b)
    BY <1>12, ResetMoves, MoveKeepsThreads DEF ResetCollection, Works
<1>13. CASE TaskCrash(b)
    BY <1>6, <1>13 DEF TaskCrash, Works, Pcs
<1>. QED
    BY <1>2, <1>3, <1>4, <1>5, <1>8, <1>9, <1>10, <1>11, <1>12, <1>13 DEF BuildStep

LEMMA BuildKeepsThread ==
    ASSUME TypeInv, ActiveReindexHasThread, NEW b \in Builders, BuildStep(b)
    PROVE  ActiveReindexHasThread'
<1>. SUFFICES ASSUME NEW t \in TaskIds, rtask'[t].status \in Active, t \notin lost'
             PROVE  \E v \in Builders : bld'[v].kind = "task" /\ bld'[v].task = t
    BY DEF ActiveReindexHasThread
<1>0. /\ rtask \in [TaskIds -> TaskRow] /\ bld \in [Builders -> Rebuild] /\ Good(bld[b])
      /\ bld[b].kind = "task" => bld[b].task \in TaskIds
    BY DEF TypeInv, TypeOK, Good, Rebuild
<1>1. ASSUME rtask[t].status \in Active
      PROVE  \E v \in Builders : bld[v].kind = "task" /\ bld[v].task = t
    BY <1>1, BuildSeenAsThread DEF ActiveReindexHasThread
<1>2. ASSUME Becomes(b, NoRebuild) PROVE \A v \in Builders \ {b} : bld'[v] = bld[v]
    BY <1>0, <1>2 DEF Becomes
<1>3. CASE Marks(b)
    <2>1. CASE t = bld[b].task
        BY <1>3, <2>1 DEF Marks, SameThreads
    <2>2. CASE t # bld[b].task
        BY <1>0, <1>1, <1>3, <2>2 DEF Marks, SameThreads
    <2>. QED
        BY <2>1, <2>2
<1>4. CASE Settles(b)
    <2>1. t # bld[b].task /\ rtask[t].status \in Active
        BY <1>0, <1>4 DEF Settles, Active, TaskRow
    <2>. QED
        BY <1>1, <1>2, <1>4, <2>1 DEF Settles
<1>5. CASE Quits(b)
    <2>1. t # bld[b].task /\ rtask[t].status \in Active
        BY <1>5 DEF Quits, Active
    <2>. QED
        BY <1>1, <1>2, <1>5, <2>1 DEF Quits
<1>6. CASE Works(b)
    BY <1>1, <1>2, <1>6 DEF Works, SameThreads
<1>. QED
    BY <1>3, <1>4, <1>5, <1>6, BuildSeenAsThread

LEMMA OtherKeepsThread ==
    ASSUME TypeInv, ActiveReindexHasThread, Opening \/ Aside \/ Restart \/ UNCHANGED vars
    PROVE  ActiveReindexHasThread'
<1>. SUFFICES ASSUME NEW t \in TaskIds, rtask'[t].status \in Active, t \notin lost'
             PROVE  \E v \in Builders : bld'[v].kind = "task" /\ bld'[v].task = t
    BY DEF ActiveReindexHasThread
<1>0. rtask \in [TaskIds -> TaskRow] /\ bld \in [Builders -> Rebuild]
    BY DEF TypeInv, TypeOK
<1>1. CASE Opening
    <2>0. PICK b \in Builders : \E y : Opens(b, y)
        BY <1>1, OpeningOpens
    <2>1. PICK y : Opens(b, y)
        BY <2>0
    <2>2. \A v \in Builders : bld'[v] = IF v = b THEN y ELSE bld[v]
        BY <1>0, <2>1 DEF Opens, Becomes
    <2>3. lost' = lost /\ bld[b].kind # "task"
        BY <2>1 DEF Opens, NoRebuild
    <2>4. CASE rtask[t].status \in Active
        BY <2>2, <2>3, <2>4 DEF ActiveReindexHasThread
    <2>5. CASE rtask[t].status \notin Active
        <3>1. y.kind = "task" /\ y.task = t
            BY <1>0, <2>1, <2>5 DEF Opens, dbVars, NoTaskRow, Active
        <3>. QED
            BY <2>2, <3>1
    <2>. QED
        BY <2>4, <2>5
<1>2. CASE Aside
    BY <1>2 DEF Aside, ReqCheck, EditItems, SwitchModel, dbVars, ActiveReindexHasThread
<1>3. CASE Restart
    BY <1>3 DEF Restart, dbVars
<1>4. CASE UNCHANGED vars
    BY <1>4 DEF vars, dbVars, ActiveReindexHasThread
<1>. QED
    BY <1>1, <1>2, <1>3, <1>4

\* A reindex task that is pending or running has the thread that will settle it,
\* unless a restart or a failed _mark_task_failed took it away: nothing else that
\* the requests, the rebuilds and the deletions do can leave one behind.
THEOREM ReindexHasThread == Spec => []ActiveReindexHasThread
<1>1. Init => ActiveReindexHasThread
    BY DEF Init, ActiveReindexHasThread, NoTaskRow, Active
<1>2. TypeInv /\ ActiveReindexHasThread /\ [Next]_vars => ActiveReindexHasThread'
    BY NextSplit, BuildKeepsThread, OtherKeepsThread
<1>. QED
    BY <1>1, <1>2, TypeCorrect, PTL DEF Spec

----------------------------------------------------------------------------
(* A reindex task is a task of TaskLife *)

StatusOf == [t \in TaskIds |-> rtask[t].status]
WorkOf   == [b \in Builders |-> IF bld[b].kind = "task" THEN bld[b].task ELSE 0]

LEMMA SameWork ==
    ASSUME TypeInv, SameThreads
    PROVE  WorkOf' = WorkOf
BY DEF SameThreads, WorkOf

LEMMA Released ==
    ASSUME TypeInv, NEW b \in Builders, Becomes(b, NoRebuild)
    PROVE  WorkOf' = [WorkOf EXCEPT ![b] = 0]
<1>1. \A v \in Builders : bld'[v] = IF v = b THEN NoRebuild ELSE bld[v]
    BY DEF TypeInv, TypeOK, Becomes
<1>2. NoRebuild.kind # "task"
    BY DEF NoRebuild
<1>3. \A v \in Builders : WorkOf'[v] = IF v = b THEN 0 ELSE WorkOf[v]
    BY <1>1, <1>2 DEF WorkOf
<1>. QED
    BY <1>3 DEF WorkOf

LEMMA BuildRefines ==
    ASSUME TypeInv, NEW b \in Builders, BuildStep(b)
    PROVE  Life!LifeNext \/ UNCHANGED <<StatusOf, WorkOf>>
<1>. DEFINE t == bld[b].task
<1>0. /\ rtask \in [TaskIds -> TaskRow]
      /\ bld[b].kind = "task" => t \in TaskIds /\ t # 0
    BY DEF TypeInv, TypeOK, Good, Rebuild
<1>1. bld[b].kind = "task" => WorkOf[b] # 0 /\ WorkOf[b] = t
    BY <1>0 DEF WorkOf
<1>2. ASSUME NEW s, bld[b].kind = "task", rtask' = [rtask EXCEPT ![t].status = s]
      PROVE  StatusOf' = [u \in TaskIds |-> IF u \in {t} THEN s ELSE StatusOf[u]]
    BY <1>0, <1>2 DEF StatusOf, TaskRow
<1>3. CASE Marks(b)
    <2>1. StatusOf[t] # "none" /\ WorkOf' = WorkOf
        BY <1>0, <1>3, SameWork DEF Marks, StatusOf
    <2>2. StatusOf' = [u \in TaskIds |-> IF u \in {t} THEN "running" ELSE StatusOf[u]]
        BY <1>2, <1>3 DEF Marks
    <2>3. bld[b].kind = "task"
        BY <1>3 DEF Marks
    <2>4. Life!Begin(b)
        BY <1>1, <2>1, <2>2, <2>3
           DEF Life!Begin, Life!Write, Life!Ids, StatusOf, WorkOf, TaskIds
    <2>. QED
        BY <2>4 DEF Life!LifeNext
<1>4. CASE Settles(b)
    <2>1. StatusOf[t] # "none" /\ WorkOf' = [WorkOf EXCEPT ![b] = 0]
        BY <1>0, <1>4, Released DEF Settles, StatusOf
    <2>2. PICK s \in {"success", "failed"} : rtask' = [rtask EXCEPT ![t].status = s]
        BY <1>4 DEF Settles
    <2>3. StatusOf' = [u \in TaskIds |-> IF u \in {t} THEN s ELSE StatusOf[u]]
        BY <1>2, <1>4, <2>2 DEF Settles
    <2>4. Life!Settle(b)
        BY <1>1, <1>4, <2>1, <2>3
           DEF Settles, Life!Settle, Life!Write, Life!Release, Life!Outcomes, Life!Ids,
               StatusOf, WorkOf, TaskIds
    <2>. QED
        BY <2>4 DEF Life!LifeNext
<1>5. CASE Quits(b)
    <2>1. StatusOf' = StatusOf /\ WorkOf' = [WorkOf EXCEPT ![b] = 0]
        BY <1>5, Released DEF Quits, StatusOf
    <2>2. Life!Quit(b)
        BY <1>1, <1>5, <2>1 DEF Quits, Life!Quit, Life!Release, StatusOf, WorkOf
    <2>. QED
        BY <2>2 DEF Life!LifeNext
<1>6. CASE Works(b)
    <2>1. StatusOf' = StatusOf
        BY <1>6 DEF Works, StatusOf
    <2>2. CASE SameThreads
        BY <2>1, <2>2, SameWork
    <2>3. CASE bld[b].kind # "task" /\ Becomes(b, NoRebuild)
        <3>1. WorkOf' = [WorkOf EXCEPT ![b] = 0] /\ WorkOf[b] = 0
            BY <2>3, Released DEF WorkOf
        <3>. QED
            BY <2>1, <3>1 DEF WorkOf
    <2>. QED
        BY <1>6, <2>2, <2>3 DEF Works
<1>. QED
    BY <1>3, <1>4, <1>5, <1>6, BuildSeenAsThread

LEMMA OpeningRefines ==
    ASSUME TypeInv, Opening
    PROVE  Life!LifeNext \/ UNCHANGED <<StatusOf, WorkOf>>
<1>0. PICK b \in Builders : \E y : Opens(b, y)
    BY OpeningOpens
<1>1. PICK y : Opens(b, y)
    BY <1>0
<1>2. rtask \in [TaskIds -> TaskRow] /\ Good(y) /\ bld[b].kind # "task"
    BY <1>1 DEF TypeInv, TypeOK, Opens, NoRebuild
<1>3. \A v \in Builders : bld'[v] = IF v = b THEN y ELSE bld[v]
    BY <1>1 DEF Opens, Becomes, TypeInv, TypeOK
<1>4. y.kind # "task" => WorkOf' = WorkOf
    BY <1>2, <1>3 DEF WorkOf
<1>5. CASE y.kind = "task"
    <2>0. y.task \in TaskIds
        BY <1>2, <1>5 DEF Good, Rebuild
    <2>. DEFINE n == y.task
    <2>1. \A v \in Builders : WorkOf'[v] = IF v = b THEN n ELSE WorkOf[v]
        BY <1>3, <1>5 DEF WorkOf
    <2>. HIDE DEF n
    <2>2. WorkOf' = [WorkOf EXCEPT ![b] = n] /\ WorkOf[b] = 0
        BY <1>2, <2>1 DEF WorkOf
    <2>3. /\ rtask[y.task].status = "none"
          /\ rtask' = [rtask EXCEPT ![y.task] = [status |-> "pending", course |-> y.course]]
        BY <1>1, <1>5 DEF Opens
    <2>4. /\ StatusOf[y.task] = "none"
          /\ StatusOf' = [u \in TaskIds |-> IF u \in {y.task} THEN "pending" ELSE StatusOf[u]]
        BY <1>2, <2>0, <2>3 DEF StatusOf
    <2>5. Life!Submit(b, y.task)
        BY <2>2, <2>4 DEF n, Life!Submit, Life!Write, Life!Ids, StatusOf, WorkOf, TaskIds
    <2>. QED
        BY <2>0, <2>5 DEF Life!LifeNext, Life!Ids, TaskIds
<1>6. CASE y.kind \in {"doc", "delete", "after"}
    <2>1. rtask' = rtask
        BY <1>1, <1>6 DEF Opens, dbVars
    <2>. QED
        BY <1>4, <1>6, <2>1 DEF StatusOf
<1>7. CASE y.kind = "sweep"
    <2>0. PICK T \in SUBSET Life!Ids : T = {t \in TaskIds : rtask[t].course = y.course}
        BY DEF Life!Ids, TaskIds
    <2>1. rtask' = [t \in TaskIds |-> IF rtask[t].course = y.course THEN NoTaskRow ELSE rtask[t]]
        BY <1>1, <1>7 DEF Opens
    <2>2. StatusOf' = [t \in TaskIds |-> IF t \in T THEN "none" ELSE StatusOf[t]]
        BY <2>0, <2>1 DEF StatusOf, NoTaskRow
    <2>3. WorkOf' = WorkOf
        BY <1>4, <1>7
    <2>4. Life!Forget(T)
        BY <2>2, <2>3 DEF Life!Forget, Life!Write, Life!Ids, StatusOf, WorkOf, TaskIds
    <2>. QED
        BY <2>4 DEF Life!LifeNext
<1>. QED
    BY <1>1, <1>5, <1>6, <1>7 DEF Opens

\* A restart takes the threads and leaves their tasks open: the Crash of TaskLife
\* that resets nothing.
LEMMA RestartRefines ==
    ASSUME TypeInv, Restart
    PROVE  Life!LifeNext
<1>0. PICK T \in SUBSET Life!Ids : T = {}
    OBVIOUS
<1>1. StatusOf' = [t \in TaskIds |-> IF t \in T THEN "cancelled" ELSE StatusOf[t]]
    BY <1>0 DEF Restart, dbVars, StatusOf
<1>2. WorkOf' = [b \in Builders |-> 0]
    BY DEF Restart, NoRebuild, WorkOf
<1>3. Life!Crash(T)
    BY <1>0, <1>1, <1>2 DEF Life!Crash, Life!Write, Life!Ids, StatusOf, WorkOf, TaskIds
<1>. QED
    BY <1>3 DEF Life!LifeNext

\* Seen from its row and its thread, a reindex task does nothing that TaskLife does
\* not allow, whatever else the index is rebuilt for: the promise that document
\* tasks keep too, and that the pages of the frontend rely on.
THEOREM ReindexRefinesTaskLife == Spec => ReindexIsTaskLife
<1>1. Init => Life!LifeInit
    BY DEF Init, Life!LifeInit, Life!Ids, NoTaskRow, NoRebuild, TaskIds
<1>2. TypeInv /\ [Next]_vars => [Life!LifeNext]_(Life!lifeVars)
    <2>. SUFFICES ASSUME TypeInv, [Next]_vars
                 PROVE  Life!LifeNext \/ UNCHANGED <<StatusOf, WorkOf>>
        BY DEF Life!lifeVars, StatusOf, WorkOf
    <2>1. CASE Aside \/ UNCHANGED vars
        BY <2>1 DEF Aside, ReqCheck, EditItems, SwitchModel, vars, dbVars, StatusOf, WorkOf
    <2>. QED
        BY <2>1, NextSplit, BuildRefines, OpeningRefines, RestartRefines
<1>. QED
    BY <1>1, <1>2, TypeCorrect, PTL DEF Spec, ReindexIsTaskLife, Life!LifeSpec

----------------------------------------------------------------------------
(* The index after a rebuild *)

\* The strengthening of RebuildExact: the mark clean[b] is set by the drop, and from
\* there to the add the collection holds nothing of the course.
CleanAt(b) ==
    /\ bld[b].pc \in {"idle", "queued", "read", "drop"} => ~clean[b]
    /\ bld[b].pc \in {"embed", "add", "reset", "readd"} /\ clean[b]
         => ChunksOf(bld[b].course) = {}
    /\ bld[b].pc = "done" /\ bld[b].ok /\ clean[b]
         => Exactly(ChunksOf(bld[b].course), bld[b].view)

CleanInv == \A b \in Builders : CleanAt(b)

\* The chunks that a rebuild adds: one for each item that it read.
LEMMA NewChunksExact ==
    ASSUME TypeInv, NEW b \in Builders, bld[b].pc # "idle"
    PROVE  Exactly(NewChunks(b), bld[b].view)
<1>. DEFINE V == bld[b].view
            c == bld[b].course
            r == bld[b].run
            f == [i \in V |-> [course |-> c, item |-> i, run |-> r]]
<1>1. V \in SUBSET Items
    BY DEF TypeInv, Good, Rebuild
<1>. HIDE DEF V, c, r
<1>2. NewChunks(b) = [course : {c}, item : V, run : {r}]
    BY DEF NewChunks, V, c, r
<1>3. ItemsOf(NewChunks(b)) = V
    <2>1. \A i \in V : [course |-> c, item |-> i, run |-> r] \in NewChunks(b)
        BY <1>2
    <2>2. \A i \in V : [course |-> c, item |-> i, run |-> r].item = i
        OBVIOUS
    <2>3. \A x \in NewChunks(b) : x.item \in V
        BY <1>2
    <2>. QED
        BY <2>1, <2>2, <2>3 DEF ItemsOf
<1>4. f \in Bijection(V, NewChunks(b))
    BY <1>2 DEF Bijection, Injection, Surjection, IsInjective
<1>5. IsFiniteSet(V)
    BY <1>1, FS_Subset, IndexAssumption
<1>6. Cardinality(NewChunks(b)) = Cardinality(V)
    BY <1>4, <1>5, FS_Bijection DEF ExistsBijection
<1>. QED
    BY <1>3, <1>6 DEF Exactly, V

\* Whoever keeps the mark while another rebuild takes a step keeps its chunks.
LEMMA Undisturbed ==
    ASSUME TypeInv, CleanInv, NEW b \in Builders, BuildStep(b),
           NEW v \in Builders \ {b}, clean'[v]
    PROVE  clean[v] /\ ChunksOf(bld[v].course)' = ChunksOf(bld[v].course) /\ bld'[v] = bld[v]
<1>. USE DEF storeVars
<1>1. bld'[v] = bld[v]
    BY BuildMoves DEF Becomes, Move, TypeInv, TypeOK
<1>2. ASSUME chunks' = chunks, clean'[v] = clean[v] PROVE clean[v] /\ ChunksOf(bld[v].course)' = ChunksOf(bld[v].course)
    BY <1>1, <1>2 DEF ChunksOf
<1>3. clean \in [Builders -> BOOLEAN] /\ Good(bld[b]) /\ Good(bld[v])
    BY DEF TypeInv, TypeOK
<1>4. Finish(b) => clean'[v] = clean[v]
    BY <1>3 DEF Finish
<1>5. CASE Drop(b)
    <2>1. clean[v] /\ bld[v].course # bld[b].course
        BY <1>3, <1>5 DEF Drop, Disturb
    <2>2. chunks' = {x \in chunks : x.course # bld[b].course}
        BY <1>5 DEF Drop, DeleteByCourse, ChunksOf
    <2>. QED
        BY <1>1, <2>1, <2>2 DEF ChunksOf
<1>6. CASE Add(b)
    <2>1. clean[v] /\ bld[v].course # bld[b].course /\ chunks' = chunks \cup NewChunks(b)
        BY <1>3, <1>6 DEF Add, Disturb
    <2>2. \A x \in NewChunks(b) : x.course = bld[b].course
        BY DEF NewChunks
    <2>. QED
        BY <1>1, <2>1, <2>2 DEF ChunksOf
<1>7. CASE ResetCollection(b)
    <2>1. clean[v] /\ bld[v].course \notin Courses
        BY <1>3, <1>7 DEF ResetCollection, Disturb
    <2>2. bld[v].pc = "idle"
        BY <1>3, <2>1 DEF Good
    <2>. QED
        BY <2>1, <2>2 DEF CleanInv, CleanAt
<1>8. CASE StartTask(b) \/ Done(b) \/ MarkFailed(b)
    BY <1>1, <1>2, <1>4, <1>8 DEF StartTask, Done, MarkFailed
<1>9. CASE Read(b) \/ Embed(b) \/ AddFails(b) \/ TaskCrash(b)
    BY <1>1, <1>2, <1>9 DEF Read, Embed, AddFails, TaskCrash
<1>. QED
    BY <1>1, <1>5, <1>6, <1>7, <1>8, <1>9 DEF BuildStep

LEMMA OwnStepClean ==
    ASSUME TypeInv, CleanInv, NEW b \in Builders, BuildStep(b)
    PROVE  CleanAt(b)'
<1>. USE DEF storeVars
<1>0. /\ clean \in [Builders -> BOOLEAN] /\ bld \in [Builders -> Rebuild] /\ Good(bld[b])
      /\ CleanAt(b)
    BY DEF TypeInv, TypeOK, CleanInv
<1>1. ASSUME Becomes(b, NoRebuild), ~clean'[b] PROVE CleanAt(b)'
    BY <1>0, <1>1 DEF CleanAt, Becomes, NoRebuild
<1>2. ASSUME Finish(b) PROVE CleanAt(b)'
    BY <1>0, <1>1, <1>2 DEF Finish, Becomes
<1>3. ASSUME NEW l, NEW y, Move(b, l, y)
      PROVE  bld'[b] = y /\ y.pc = l /\ y.course = bld[b].course
    BY <1>0, <1>3 DEF Move, Becomes, Keeps
<1>4. ASSUME bld[b].pc # "idle", NEW l \in Pcs \ {"idle", "queued"},
             l = "markfail" => bld[b].kind = "task", Step(b, l)
      PROVE  /\ bld'[b].pc = l /\ bld'[b].course = bld[b].course
             /\ bld'[b].view = bld[b].view /\ bld'[b].ok = bld[b].ok
    BY <1>3, <1>4, StepMoves DEF SameView
<1>5. ASSUME bld[b].pc # "idle", Fail(b) PROVE CleanAt(b)'
    BY <1>3, <1>5, FailMoves DEF CleanAt
<1>6. CASE StartTask(b)
    <2>1. CASE Step(b, "read") /\ clean' = clean
        <3>1. ~clean'[b]
            BY <1>0, <1>6, <2>1 DEF StartTask, CleanAt
        <3>2. bld'[b].pc = "read"
            BY <1>4, <1>6, <2>1 DEF StartTask, Pcs
        <3>. QED
            BY <3>1, <3>2 DEF CleanAt
    <2>. QED
        BY <1>2, <1>6, <2>1 DEF StartTask
<1>7. CASE Read(b)
    <2>1. ~clean'[b]
        BY <1>0, <1>7 DEF Read, CleanAt
    <2>. QED
        BY <2>1 DEF CleanAt
<1>8. CASE Drop(b)
    <2>1. CASE bld[b].kind = "sweep"
        <3>1. clean'[b] = FALSE
            BY <1>0, <1>8, <2>1 DEF Drop, Disturb
        <3>2. Becomes(b, NoRebuild)
            BY <1>8, <2>1 DEF Drop, Becomes
        <3>. QED
            BY <1>1, <3>1, <3>2
    <2>2. CASE bld[b].kind # "sweep"
        <3>1. bld'[b].pc = "embed" /\ bld'[b].course = bld[b].course
            BY <1>3, <1>8, <2>2, DropMoves
        <3>2. {x \in chunks' : x.course = bld[b].course} = {}
            BY <1>8 DEF Drop, DeleteByCourse, ChunksOf
        <3>. QED
            BY <3>1, <3>2 DEF CleanAt, ChunksOf
    <2>. QED
        BY <2>1, <2>2
<1>9. CASE Embed(b)
    <2>1. CASE bld' = [bld EXCEPT ![b].pc = "add", ![b].dim = embDim]
        <3>1. bld'[b].pc = "add" /\ bld'[b].course = bld[b].course
            BY <1>3, <1>9, <2>1, EmbedMoves DEF Embed
        <3>. QED
            BY <1>0, <1>9, <3>1 DEF Embed, CleanAt, ChunksOf
    <2>. QED
        BY <1>5, <1>9, <2>1 DEF Embed
<1>10. CASE Add(b)
    <2>1. /\ bld'[b].pc = "done" /\ bld'[b].course = bld[b].course
          /\ bld'[b].view = bld[b].view /\ clean'[b] = clean[b]
          /\ bld[b].pc \in {"add", "readd"}
        BY <1>0, <1>4, <1>10 DEF Add, Pcs, Disturb
    <2>2. ASSUME clean[b] PROVE {x \in chunks' : x.course = bld[b].course} = NewChunks(b)
        <3>1. ChunksOf(bld[b].course) = {} /\ chunks' = chunks \cup NewChunks(b)
            BY <1>0, <1>10, <2>1, <2>2 DEF CleanAt, Add
        <3>2. \A x \in NewChunks(b) : x.course = bld[b].course
            BY DEF NewChunks
        <3>. QED
            BY <3>1, <3>2 DEF ChunksOf
    <2>3. Exactly(NewChunks(b), bld[b].view)
        BY <2>1, NewChunksExact
    <2>. QED
        BY <2>1, <2>2, <2>3 DEF CleanAt, ChunksOf, Exactly, ItemsOf
<1>11. CASE AddFails(b)
    <2>1. CASE Step(b, "reset")
        <3>1. bld'[b].pc = "reset" /\ bld'[b].course = bld[b].course
            BY <1>4, <1>11, <2>1 DEF AddFails, Pcs
        <3>. QED
            BY <1>0, <1>11, <3>1 DEF AddFails, CleanAt, ChunksOf
    <2>. QED
        BY <1>5, <1>11, <2>1 DEF AddFails
<1>12. CASE ResetCollection(b)
    <2>1. bld'[b].pc = "readd"
        BY <1>3, <1>12, ResetMoves
    <2>. QED
        BY <1>12, <2>1 DEF ResetCollection, CleanAt, ChunksOf
<1>13. CASE Done(b) \/ MarkFailed(b)
    BY <1>2, <1>13 DEF Done, MarkFailed
<1>14. CASE TaskCrash(b)
    <2>1. bld'[b].pc = "markfail"
        BY <1>4, <1>14 DEF TaskCrash, Pcs
    <2>. QED
        BY <2>1 DEF CleanAt
<1>. QED
    BY <1>6, <1>7, <1>8, <1>9, <1>10, <1>11, <1>12, <1>13, <1>14 DEF BuildStep

LEMMA BuildClean ==
    ASSUME TypeInv, CleanInv, NEW b \in Builders, BuildStep(b)
    PROVE  CleanInv'
<1>. SUFFICES ASSUME NEW v \in Builders PROVE CleanAt(v)'
    BY DEF CleanInv
<1>1. CASE v = b
    BY <1>1, OwnStepClean
<1>2. CASE v # b
    <2>1. bld'[v] = bld[v]
        BY <1>2, BuildMoves DEF Becomes, Move, TypeInv, TypeOK
    <2>2. CASE clean'[v]
        <3>1. clean[v] /\ ChunksOf(bld[v].course)' = ChunksOf(bld[v].course) /\ CleanAt(v)
            BY <1>2, <2>2, Undisturbed DEF CleanInv
        <3>2. bld'[v].pc \notin {"idle", "queued", "read", "drop"}
            BY <2>1, <3>1 DEF CleanAt
        <3>. QED
            BY <2>1, <3>1, <3>2 DEF CleanAt, Exactly, ItemsOf
    <2>3. CASE ~clean'[v]
        BY <2>3 DEF CleanAt
    <2>. QED
        BY <2>2, <2>3
<1>. QED
    BY <1>1, <1>2

LEMMA OtherClean ==
    ASSUME TypeInv, CleanInv, Opening \/ Aside \/ Restart \/ UNCHANGED vars
    PROVE  CleanInv'
<1>. USE DEF storeVars, cfgVars
<1>1. CASE Opening
    <2>0. PICK b \in Builders : \E y : Opens(b, y)
        BY <1>1, OpeningOpens
    <2>1. PICK y : Opens(b, y)
        BY <2>0
    <2>2. /\ \A v \in Builders : bld'[v] = IF v = b THEN y ELSE bld[v]
          /\ clean' = clean /\ chunks' = chunks /\ y.pc \in {"queued", "read", "drop"}
          /\ bld[b].pc = "idle"
        BY <2>1 DEF Opens, Becomes, TypeInv, TypeOK, NoRebuild
    <2>3. CleanAt(b)'
        BY <2>2 DEF CleanInv, CleanAt
    <2>4. ASSUME NEW v \in Builders, v # b PROVE CleanAt(v)'
        BY <2>2, <2>4 DEF CleanInv, CleanAt, ChunksOf, Exactly, ItemsOf
    <2>. QED
        BY <2>3, <2>4 DEF CleanInv
<1>2. CASE Aside
    BY <1>2 DEF Aside, ReqCheck, EditItems, SwitchModel, CleanInv, CleanAt, ChunksOf, Exactly, ItemsOf
<1>3. CASE Restart
    BY <1>3 DEF Restart, CleanInv, CleanAt, NoRebuild
<1>4. CASE UNCHANGED vars
    BY <1>4 DEF vars, CleanInv, CleanAt, ChunksOf, Exactly, ItemsOf
<1>. QED
    BY <1>1, <1>2, <1>3, <1>4

\* Disturbed rebuilds lose their mark: whoever still has it between its drop and its
\* add finds the collection empty of its course.
THEOREM CleanHolds == Spec => []CleanInv
<1>1. Init => CleanInv
    BY DEF Init, CleanInv, CleanAt, NoRebuild
<1>2. TypeInv /\ CleanInv /\ [Next]_vars => CleanInv'
    BY NextSplit, BuildClean, OtherClean
<1>. QED
    BY <1>1, <1>2, TypeCorrect, PTL DEF Spec

\* However the drops, adds and resets of other rebuilds interleave with it, a rebuild
\* that succeeded and that nobody disturbed since its drop leaves one chunk for each
\* item it read, and nothing else of its course.
THEOREM RebuildIsExact == Spec => []RebuildExact
<1>1. CleanInv => RebuildExact
    BY DEF CleanInv, CleanAt, RebuildExact
<1>. QED
    BY <1>1, CleanHolds, PTL

\* The strengthening of LockedRebuildExact: a rebuild inside the transaction of its
\* change holds the write lock from its start to its commit, and so what it read is
\* still what its session sees.
LockedAt(b) ==
    bld[b].kind \in {"doc", "delete"} =>
        /\ lock = b
        /\ bld[b].new \cap bld[b].old = {}
        /\ bld[b].kind = "delete" => bld[b].new = {}
        /\ bld[b].pc # "read" => bld[b].view = Seen(b)

LockedInv == \A b \in Builders : LockedAt(b)

\* A step of a rebuild that is not the end of its caller's work.
LEMMA StepHolds ==
    ASSUME TypeInv, NEW b \in Builders, BuildStep(b), ~Done(b)
    PROVE  /\ lock' = lock /\ items' = items
           /\ \/ Becomes(b, NoRebuild)
              \/ \E l \in Pcs : \E y :
                   /\ Move(b, l, y)
                   /\ y.view = Seen(b) \/ (bld[b].pc # "read" /\ SameView(b, y))
<1>. USE DEF dbVars
<1>. DEFINE Moves == \E l \in Pcs : \E y :
                       /\ Move(b, l, y)
                       /\ y.view = Seen(b) \/ (bld[b].pc # "read" /\ SameView(b, y))
<1>1. ASSUME bld[b].pc \notin {"idle", "read"}, NEW l \in Pcs \ {"idle", "queued"},
             l = "markfail" => bld[b].kind = "task", Step(b, l)
      PROVE  Moves
    BY <1>1, StepMoves
<1>2. ASSUME bld[b].pc \notin {"idle", "read"}, Fail(b) PROVE Moves
    BY <1>2, FailMoves DEF Pcs
<1>3. ASSUME Finish(b) PROVE Becomes(b, NoRebuild)
    BY <1>3 DEF Finish, Becomes
<1>4. CASE StartTask(b)
    <2>1. lock' = lock /\ items' = items
        BY <1>4 DEF StartTask
    <2>2. CASE Step(b, "read")
        BY <1>1, <1>4, <2>1, <2>2 DEF StartTask, Pcs
    <2>. QED
        BY <1>3, <1>4, <2>1, <2>2 DEF StartTask
<1>5. CASE Read(b)
    <2>1. (IF Seen(b) = {} THEN "done" ELSE "drop") \in Pcs
        BY DEF Pcs
    <2>. QED
        BY <1>5, <2>1, ReadMoves DEF Read
<1>6. CASE Drop(b)
    <2>1. CASE bld[b].kind = "sweep"
        BY <1>6, <2>1 DEF Drop, Becomes
    <2>2. CASE bld[b].kind # "sweep"
        BY <1>6, <2>2, DropMoves DEF Drop, Pcs
    <2>. QED
        BY <2>1, <2>2
<1>7. CASE Embed(b)
    <2>1. CASE bld' = [bld EXCEPT ![b].pc = "add", ![b].dim = embDim]
        BY <1>7, <2>1, EmbedMoves DEF Embed, Pcs
    <2>. QED
        BY <1>2, <1>7, <2>1 DEF Embed
<1>8. CASE Add(b)
    BY <1>1, <1>8 DEF Add, Pcs
<1>9. CASE AddFails(b)
    BY <1>1, <1>2, <1>9 DEF AddFails, Pcs
<1>10. CASE ResetCollection(b)
    BY <1>10, ResetMoves DEF ResetCollection, Pcs
<1>11. CASE TaskCrash(b)
    BY <1>1, <1>11 DEF TaskCrash, Pcs
<1>12. CASE MarkFailed(b)
    BY <1>3, <1>12 DEF MarkFailed
<1>. QED
    BY <1>4, <1>5, <1>6, <1>7, <1>8, <1>9, <1>10, <1>11, <1>12 DEF BuildStep

LEMMA BuildLocked ==
    ASSUME TypeInv, LockedInv, NEW b \in Builders, BuildStep(b)
    PROVE  LockedInv'
<1>. SUFFICES ASSUME NEW v \in Builders, bld'[v].kind \in {"doc", "delete"} PROVE LockedAt(v)'
    BY DEF LockedInv, LockedAt
<1>0. bld \in [Builders -> Rebuild] /\ LockedAt(b) /\ LockedAt(v)
    BY DEF TypeInv, TypeOK, LockedInv
<1>1. v # b => bld'[v] = bld[v]
    BY BuildMoves DEF Becomes, Move, TypeInv, TypeOK
<1>2. ~Becomes(b, NoRebuild) \/ v # b
    BY <1>0 DEF Becomes, NoRebuild
<1>3. CASE Done(b)
    <2>1. v # b
        BY <1>2, <1>3 DEF Done, Finish, Becomes
    <2>2. bld[b].kind \notin {"doc", "delete"}
        BY <1>0, <1>1, <2>1 DEF LockedAt
    <2>3. lock' = lock /\ items' = items
        BY <1>3, <2>2 DEF Done
    <2>. QED
        BY <1>0, <1>1, <2>1, <2>3 DEF LockedAt, Seen
<1>4. CASE ~Done(b) /\ v # b
    BY <1>0, <1>1, <1>4, StepHolds DEF LockedAt, Seen
<1>5. CASE ~Done(b) /\ v = b
    <2>0. PICK l \in Pcs : \E y : /\ Move(b, l, y)
                                  /\ y.view = Seen(b) \/ (bld[b].pc # "read" /\ SameView(b, y))
        BY <1>2, <1>5, StepHolds
    <2>1. PICK y : /\ Move(b, l, y)
                   /\ y.view = Seen(b) \/ (bld[b].pc # "read" /\ SameView(b, y))
        BY <2>0
    <2>2. bld'[b] = y /\ Keeps(bld[b], y)
        BY <1>0, <2>1 DEF Move, Becomes
    <2>3. /\ lock' = lock /\ items' = items
          /\ lock = b /\ y.new \cap y.old = {} /\ (y.kind = "delete" => y.new = {})
          /\ bld[b].pc # "read" => bld[b].view = Seen(b)
        BY <1>0, <1>5, <2>2, StepHolds DEF LockedAt, Keeps
    <2>4. y.view = Seen(b)
        BY <2>1, <2>3 DEF SameView
    <2>5. Seen(b)' = Seen(b)
        BY <2>2, <2>3 DEF Seen, Keeps
    <2>. QED
        BY <1>5, <2>2, <2>3, <2>4, <2>5 DEF LockedAt
<1>. QED
    BY <1>3, <1>4, <1>5

LEMMA OtherLocked ==
    ASSUME TypeInv, LockedInv, Opening \/ Aside \/ Restart \/ UNCHANGED vars
    PROVE  LockedInv'
<1>. USE DEF dbVars, cfgVars
<1>1. ASSUME lock = NoOne PROVE \A v \in Builders : bld[v].kind \notin {"doc", "delete"}
    BY <1>1, IndexAssumption DEF LockedInv, LockedAt
<1>2. CASE Opening
    <2>0. PICK b \in Builders : \E y : Opens(b, y)
        BY <1>2, OpeningOpens
    <2>1. PICK y : Opens(b, y)
        BY <2>0
    <2>2. /\ \A v \in Builders : bld'[v] = IF v = b THEN y ELSE bld[v]
          /\ \A v \in Builders : bld[v].kind \notin {"doc", "delete"}
        BY <1>1, <2>1 DEF Opens, Becomes, TypeInv, TypeOK
    <2>3. LockedAt(b)'
        BY <2>1, <2>2 DEF Opens, LockedAt
    <2>. QED
        BY <2>2, <2>3 DEF LockedInv, LockedAt
<1>3. CASE Aside
    <2>1. CASE \E c \in Courses, S \in SUBSET Items : EditItems(c, S)
        BY <1>1, <2>1 DEF EditItems, LockedInv, LockedAt
    <2>2. CASE SwitchModel \/ \E r \in Requests, c \in Courses : ReqCheck(r, c)
        BY <2>2 DEF SwitchModel, ReqCheck, LockedInv, LockedAt, Seen
    <2>. QED
        BY <1>3, <2>1, <2>2 DEF Aside
<1>4. CASE Restart
    BY <1>4 DEF Restart, LockedInv, LockedAt, NoRebuild
<1>5. CASE UNCHANGED vars
    BY <1>5 DEF vars, LockedInv, LockedAt, Seen
<1>. QED
    BY <1>2, <1>3, <1>4, <1>5

\* A rebuild inside the transaction of its change keeps SQLite's write lock from its
\* flush to its commit, whatever the store and the embedding call do in between.
THEOREM LockHolds == Spec => []LockedInv
<1>1. Init => LockedInv
    BY DEF Init, LockedInv, LockedAt, NoRebuild
<1>2. TypeInv /\ LockedInv /\ [Next]_vars => LockedInv'
    BY NextSplit, BuildLocked, OtherLocked
<1>. QED
    BY <1>1, <1>2, TypeCorrect, PTL DEF Spec

LEMMA DoneExact ==
    ASSUME TypeInv, CleanInv, LockedInv, NEW b \in Builders,
           bld[b].pc = "done", bld[b].ok, clean[b], Done(b),
           NEW cs, cs = {x \in chunks' : x.course = bld[b].course}
    PROVE  /\ bld[b].kind = "delete" => Exactly(cs, items'[bld[b].course])
           /\ bld[b].kind = "doc" => /\ bld[b].new \subseteq ItemsOf(cs) \cap items'[bld[b].course]
                                     /\ bld[b].old \cap ItemsOf(cs) = {}
<1>. DEFINE c == bld[b].course
<1>1. cs = ChunksOf(c) /\ Exactly(cs, bld[b].view)
    BY DEF Done, storeVars, ChunksOf, CleanInv, CleanAt
<1>2. c \in Courses /\ items \in [Courses -> SUBSET Items]
    BY DEF TypeInv, TypeOK, Good
<1>3. bld[b].kind \in {"doc", "delete"} =>
        /\ bld[b].new \cap bld[b].old = {} /\ (bld[b].kind = "delete" => bld[b].new = {})
        /\ bld[b].view = (items[c] \ bld[b].old) \cup bld[b].new
    BY DEF LockedInv, LockedAt, Seen
<1>4. CASE bld[b].kind = "delete"
    <2>1. items'[c] = items[c] \ bld[b].old
        BY <1>2, <1>4 DEF Done
    <2>2. items'[c] = bld[b].view
        BY <1>3, <1>4, <2>1
    <2>. QED
        BY <1>1, <1>4, <2>2
<1>5. CASE bld[b].kind = "doc"
    <2>1. bld[b].new \subseteq items'[c]
        BY <1>2, <1>5 DEF Done
    <2>2. ItemsOf(cs) = bld[b].view
        BY <1>1 DEF Exactly
    <2>. QED
        BY <1>3, <1>5, <2>1, <2>2
<1>. QED
    BY <1>4, <1>5

\* Because the rebuild of a deleted or processed document runs inside the transaction
\* of that change, no other session can make what it read obsolete before the commit:
\* the index then agrees with the committed rows, for every interleaving.
THEOREM LockedRebuildIsExact == Spec => LockedRebuildExact
<1>1. TypeInv /\ CleanInv /\ LockedInv /\ [Next]_vars
        => [\A b \in Builders :
              bld[b].pc = "done" /\ bld[b].ok /\ clean[b] /\ Done(b) =>
                LET c  == bld[b].course
                    cs == {x \in chunks' : x.course = c}
                IN  /\ bld[b].kind = "delete" => Exactly(cs, items'[c])
                    /\ bld[b].kind = "doc" => /\ bld[b].new \subseteq ItemsOf(cs) \cap items'[c]
                                              /\ bld[b].old \cap ItemsOf(cs) = {}]_vars
    BY DoneExact
<1>. QED
    BY <1>1, TypeCorrect, CleanHolds, LockHolds, PTL DEF Spec, LockedRebuildExact
=============================================================================
