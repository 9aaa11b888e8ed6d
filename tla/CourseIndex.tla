----------------------------- MODULE CourseIndex -----------------------------
(***************************************************************************)
(* The vector index of a course and everything that rebuilds it:           *)
(* services/rag_index_service.py reads the course's rows,                  *)
(* rag/indexer.py drops the course's chunks, embeds and adds new ones in   *)
(* rag/store/chroma_store.py.  Callers: the reindex task of a course       *)
(* (services/course_reindex_task_service.py, a thread), the write-back of  *)
(* a processed document (a thread that holds SQLite's write lock), and the *)
(* delete handlers (on the event loop, which the indexing call blocks).    *)
(***************************************************************************)
EXTENDS Naturals, FiniteSets

CONSTANTS Courses,    \* ids of courses
          Items,      \* documents, knowledge points and slides that have text
          Builders,   \* threads and handlers that can rebuild at once
          Requests,   \* reindex requests in flight at once
          MaxTask,    \* bound on the ids of course_reindex_tasks
          MaxRun,     \* bound on the number of rebuilds
          MaxEvents,  \* bound on deletions, model switches and restarts
          NoOne, NoCourse

ASSUME IndexAssumption ==
    /\ MaxTask \in Nat /\ MaxRun \in Nat /\ MaxEvents \in Nat
    /\ IsFiniteSet(Items)
    /\ NoOne \notin Builders
    /\ NoCourse \notin Courses

VARIABLES
    courses,   \* rows of courses
    items,     \* committed rows with text, by course
    rtask,     \* course_reindex_tasks
    req,       \* a reindex request between its SELECT and its INSERT
    chunks,    \* the Chroma collection: [course, item, run]
    coll,      \* generation of the collection (reset_collection makes a new one)
    collDim,   \* embedding dimension of the collection, 0 when it is new
    embDim,    \* dimension of the configured embedding model
    lock,      \* holder of SQLite's write lock
    loop,      \* the handler whose indexing call is blocking the event loop
    bld,       \* the rebuilds in progress
    runs,      \* number of rebuilds so far
    events,    \* number of deletions, switches and restarts so far
    clean,     \* history: nobody touched the course's chunks since my drop
    lost       \* history: tasks whose thread was killed or gave up

dbVars    == <<courses, items, rtask>>
storeVars == <<chunks, coll, collDim>>
cfgVars   == <<embDim, events>>
vars      == <<dbVars, req, storeVars, cfgVars, lock, loop, bld, runs, clean, lost>>

TaskIds == 1 .. MaxTask
Active  == {"pending", "running"}
Dims    == {1, 2}

\* "task": thread of a reindex task.  "doc": write-back of a processed document.
\* "delete": DELETE of a document.  "after": rebuild after a commit (chapter
\* deletion, clear-knowledge).  "sweep": vector clean-up of a deleted course.
Kinds   == {"none", "task", "doc", "delete", "after", "sweep"}
Pcs     == {"idle", "queued", "read", "drop", "embed", "add", "reset", "readd",
            "done", "markfail"}

\* new and old are the texts that a rebuild's own transaction adds and removes.
Rebuild == [pc : Pcs, kind : Kinds, course : Courses \cup {NoCourse}, task : TaskIds \cup {0},
            new : SUBSET Items, old : SUBSET Items, view : SUBSET Items, hold : Nat,
            dim : {0} \cup Dims, run : 0 .. MaxRun, ok : BOOLEAN]
NoRebuild == [pc |-> "idle", kind |-> "none", course |-> NoCourse, task |-> 0,
              new |-> {}, old |-> {}, view |-> {}, hold |-> 0,
              dim |-> 0, run |-> 0, ok |-> TRUE]

TaskRow   == [status : {"none", "pending", "running", "success", "failed"},
              course : Courses \cup {NoCourse}]
NoTaskRow == [status |-> "none", course |-> NoCourse]

ActiveOf(c) == {t \in TaskIds : rtask[t].course = c /\ rtask[t].status \in Active}
NextId(t)   == /\ \A u \in TaskIds : rtask[u].status # "none" => u < t
               /\ t = 1 \/ \E u \in TaskIds : u = t - 1 /\ rtask[u].status # "none"

ChunksOf(c) == {x \in chunks : x.course = c}
OnLoop(b)   == bld[b].kind \in {"delete", "after", "sweep"}

Init ==
    /\ courses = Courses
    /\ items \in [Courses -> SUBSET Items]
    /\ rtask = [t \in TaskIds |-> NoTaskRow]
    /\ req = [r \in Requests |-> NoCourse]
    /\ chunks = {} /\ coll = 0 /\ collDim = 0
    /\ embDim = 1
    /\ lock = NoOne /\ loop = NoOne
    /\ bld = [b \in Builders |-> NoRebuild]
    /\ runs = 0 /\ events = 0
    /\ clean = [b \in Builders |-> FALSE]
    /\ lost = {}

----------------------------------------------------------------------------
(* Starting a rebuild *)

CountEvent == events < MaxEvents /\ events' = events + 1

Begin(b, l, k, c, t, new, old) ==
    /\ bld[b].pc = "idle"
    /\ runs < MaxRun
    /\ runs' = runs + 1
    /\ bld' = [bld EXCEPT ![b] = [NoRebuild EXCEPT !.pc = l, !.kind = k, !.course = c, !.task = t,
                                  !.new = new, !.old = old, !.run = runs + 1]]

\* POST /courses/{course_id}/reindex: SELECT the active task of the course; one is
\* returned as it is, several are a 500, none leads to an INSERT and a thread.
ReqCheck(r, c) ==
    /\ loop = NoOne
    /\ req[r] = NoCourse
    /\ c \in courses
    /\ ActiveOf(c) = {}
    /\ req' = [req EXCEPT ![r] = c]
    /\ UNCHANGED <<dbVars, storeVars, cfgVars, lock, loop, bld, runs, clean, lost>>

ReqInsert(r) ==
    /\ loop = NoOne /\ lock = NoOne
    /\ req[r] # NoCourse
    /\ \E t \in TaskIds, b \in Builders :
         /\ NextId(t)
         /\ rtask' = [rtask EXCEPT ![t] = [status |-> "pending", course |-> req[r]]]
         /\ Begin(b, "queued", "task", req[r], t, {}, {})
    /\ req' = [req EXCEPT ![r] = NoCourse]
    /\ UNCHANGED <<courses, items, storeVars, cfgVars, lock, loop, clean, lost>>

\* The write-back of a processed document: the SELECTs of the rebuild flush the new
\* text of its row (which may replace a text of the row, its title), and from then
\* on the session holds the write lock.
BeginDoc(b, c, i, old) ==
    /\ lock = NoOne /\ lock' = b
    /\ c \in courses
    /\ i \notin old /\ old \subseteq items[c]
    /\ Begin(b, "read", "doc", c, 0, {i}, old)
    /\ UNCHANGED <<dbVars, req, storeVars, cfgVars, loop, clean, lost>>

\* Mutant: the rebuild runs before the flush, outside the transaction.
BeginDeleteUnlocked(b, c, i) ==
    /\ loop = NoOne
    /\ CountEvent
    /\ i \in items[c]
    /\ Begin(b, "read", "delete", c, 0, {}, {i})
    /\ UNCHANGED <<dbVars, req, storeVars, embDim, lock, loop, clean, lost>>

\* DELETE of a document: delete and flush, rebuild, commit.
BeginDelete(b, c, i) ==
    /\ loop = NoOne
    /\ lock = NoOne /\ lock' = b
    /\ CountEvent
    /\ i \in items[c]
    /\ Begin(b, "read", "delete", c, 0, {}, {i})
    /\ UNCHANGED <<dbVars, req, storeVars, embDim, loop, clean, lost>>

\* DELETE of a chapter, or clear-knowledge: commit, then rebuild.
DeleteSome(b, c, S) ==
    /\ loop = NoOne /\ lock = NoOne
    /\ CountEvent
    /\ c \in courses
    /\ items' = [items EXCEPT ![c] = @ \ S]
    /\ Begin(b, "read", "after", c, 0, {}, {})
    /\ UNCHANGED <<courses, rtask, req, storeVars, embDim, lock, loop, clean, lost>>

\* DELETE of a course: commit, then delete_by_course.
DeleteCourse(b, c) ==
    /\ loop = NoOne /\ lock = NoOne
    /\ CountEvent
    /\ c \in courses
    /\ courses' = courses \ {c}
    /\ items' = [items EXCEPT ![c] = {}]
    /\ rtask' = [t \in TaskIds |-> IF rtask[t].course = c THEN NoTaskRow ELSE rtask[t]]
    /\ Begin(b, "drop", "sweep", c, 0, {}, {})
    /\ UNCHANGED <<req, storeVars, embDim, lock, loop, clean, lost>>

\* Knowledge points are saved, a document is uploaded: nothing is indexed.
EditItems(c, S) ==
    /\ loop = NoOne /\ lock = NoOne
    /\ c \in courses
    /\ items' = [items EXCEPT ![c] = S]
    /\ UNCHANGED <<courses, rtask, req, storeVars, cfgVars, lock, loop, bld, runs, clean, lost>>

\* The administrator switches to an embedding model of another dimension.
SwitchModel ==
    /\ loop = NoOne
    /\ CountEvent
    /\ \E d \in Dims \ {embDim} : embDim' = d
    /\ UNCHANGED <<dbVars, req, storeVars, lock, loop, bld, runs, clean, lost>>

----------------------------------------------------------------------------
(* A rebuild *)

Step(b, l) == bld' = [bld EXCEPT ![b].pc = l]
Fail(b)    == bld' = [bld EXCEPT ![b].pc = "done", ![b].ok = FALSE]
Finish(b)  == bld' = [bld EXCEPT ![b] = NoRebuild] /\ clean' = [clean EXCEPT ![b] = FALSE]

\* The indexing call returns or raises: a handler lets the event loop go.
Unblock(b) == loop' = IF loop = b THEN NoOne ELSE loop

\* Mutant: the row is upserted, whether the deletion of its course took it or not.
StartTaskUpsert(b) ==
    /\ bld[b].pc = "queued"
    /\ lock = NoOne
    /\ rtask' = [rtask EXCEPT ![bld[b].task] = [status |-> "running", course |-> bld[b].course]]
    /\ Step(b, "read")
    /\ UNCHANGED <<courses, items, req, storeVars, cfgVars, lock, loop, runs, clean, lost>>

\* run_course_reindex_task: the row, then status "running".
StartTask(b) ==
    LET t == bld[b].task IN
    /\ bld[b].pc = "queued"
    /\ IF rtask[t].status = "none"
       THEN Finish(b) /\ UNCHANGED rtask
       ELSE /\ lock = NoOne
            /\ rtask' = [rtask EXCEPT ![t].status = "running"]
            /\ Step(b, "read")
            /\ UNCHANGED clean
    /\ UNCHANGED <<courses, items, req, storeVars, cfgVars, lock, loop, runs, lost>>

\* Mutant: the rebuild opens a session of its own.
SeenCommitted(b) == items[bld[b].course]

\* What the session sees: the committed rows and its own flushed change.
Seen(b) == (items[bld[b].course] \ bld[b].old) \cup bld[b].new

\* build_index_for_course reads; with nothing to index it returns 0 at once.
Read(b) ==
    /\ bld[b].pc = "read"
    /\ OnLoop(b) => loop = NoOne
    /\ bld' = [bld EXCEPT ![b].view = Seen(b),
                          ![b].pc = IF Seen(b) = {} THEN "done" ELSE "drop"]
    /\ UNCHANGED <<dbVars, req, storeVars, cfgVars, lock, loop, runs, clean, lost>>

\* Others that were between their drop and their end can no longer rely on it.
Disturb(b, hit) ==
    [x \in Builders |-> IF x # b /\ bld[x].course \in hit THEN FALSE ELSE clean[x]]

\* Mutant: replace=False, the old chunks stay.
KeepAll(c) == chunks

DeleteByCourse(c) == chunks \ ChunksOf(c)

\* Open the collection and delete_by_course.  A handler keeps the event loop
\* from here to the end of the indexing call; the sweep of a course ends here.
Drop(b) ==
    LET c == bld[b].course IN
    /\ bld[b].pc = "drop"
    /\ OnLoop(b) => loop = NoOne
    /\ chunks' = DeleteByCourse(c)
    /\ IF bld[b].kind = "sweep"
       THEN /\ bld' = [bld EXCEPT ![b] = NoRebuild]
            /\ clean' = [Disturb(b, {c}) EXCEPT ![b] = FALSE]
            /\ UNCHANGED loop
       ELSE /\ bld' = [bld EXCEPT ![b].pc = "embed", ![b].hold = coll]
            /\ clean' = [Disturb(b, {c}) EXCEPT ![b] = TRUE]
            /\ loop' = IF OnLoop(b) THEN b ELSE loop
    /\ UNCHANGED <<dbVars, req, coll, collDim, cfgVars, lock, runs, lost>>

\* The embedding call answers with vectors of the configured model, or raises.
Embed(b) ==
    /\ bld[b].pc = "embed"
    /\ \/ /\ bld' = [bld EXCEPT ![b].pc = "add", ![b].dim = embDim]
          /\ UNCHANGED loop
       \/ Fail(b) /\ Unblock(b)
    /\ UNCHANGED <<dbVars, req, storeVars, cfgVars, lock, runs, clean, lost>>

NewChunks(b) == [course : {bld[b].course}, item : bld[b].view, run : {bld[b].run}]

Fits(b) == bld[b].hold = coll /\ collDim \in {0, bld[b].dim}

\* store.add, into the collection the rebuild opened or the one it reset ...
Add(b) ==
    /\ bld[b].pc \in {"add", "readd"}
    /\ Fits(b)
    /\ chunks' = chunks \cup NewChunks(b)
    /\ collDim' = bld[b].dim
    /\ clean' = Disturb(b, {bld[b].course})
    /\ Step(b, "done") /\ Unblock(b)
    /\ UNCHANGED <<dbVars, req, coll, cfgVars, lock, runs, lost>>

\* ... raises on a dimension mismatch, which is retried once after a reset, and on
\* a collection that another rebuild has deleted, which is not.
AddFails(b) ==
    /\ bld[b].pc \in {"add", "readd"}
    /\ ~Fits(b)
    /\ IF bld[b].pc = "add" /\ bld[b].hold = coll
       THEN Step(b, "reset") /\ UNCHANGED loop
       ELSE Fail(b) /\ Unblock(b)
    /\ UNCHANGED <<dbVars, req, storeVars, cfgVars, lock, runs, clean, lost>>

\* reset_collection deletes the collection by name, whoever made it, with the
\* chunks of every course.
ResetCollection(b) ==
    /\ bld[b].pc = "reset"
    /\ chunks' = {}
    /\ coll' = coll + 1
    /\ collDim' = 0
    /\ clean' = Disturb(b, Courses)
    /\ bld' = [bld EXCEPT ![b].pc = "readd", ![b].hold = coll + 1]
    /\ UNCHANGED <<dbVars, req, cfgVars, lock, loop, runs, lost>>

\* Mutant: the vocabulary of parse_status.
OutcomeDone(b) == IF bld[b].ok THEN "done" ELSE "failed"

\* Mutant: the exception is logged and the row is left as it is.
OutcomeLogged(b) == IF bld[b].ok THEN "success" ELSE "running"

Outcome(b) == IF bld[b].ok THEN "success" ELSE "failed"

\* The caller goes on: an indexing error fails a task and nothing else.  The
\* write-back of a document may generate knowledge points in place of the
\* chapter's before it commits, and does not index them.
Done(b) ==
    LET c == bld[b].course
        t == bld[b].task
    IN
    /\ bld[b].pc = "done"
    /\ CASE bld[b].kind = "task" ->
              /\ lock = NoOne /\ rtask[t].status # "none"
              /\ rtask' = [rtask EXCEPT ![t].status = Outcome(b)]
              /\ UNCHANGED <<items, lock>>
         [] bld[b].kind = "doc" ->
              /\ \E S \in SUBSET Items : items' = [items EXCEPT ![c] = S \cup bld[b].new]
              /\ lock' = NoOne /\ UNCHANGED rtask
         [] bld[b].kind = "delete" ->
              /\ items' = [items EXCEPT ![c] = @ \ bld[b].old]
              /\ lock' = NoOne /\ UNCHANGED rtask
         [] OTHER -> UNCHANGED <<rtask, items, lock>>
    /\ Finish(b)
    /\ UNCHANGED <<courses, req, storeVars, cfgVars, loop, runs, lost>>

\* A commit of the task's session times out on the lock or finds no row; the
\* thread wrapper then runs _mark_task_failed.
TaskCrash(b) ==
    /\ bld[b].kind = "task"
    /\ bld[b].pc \in {"queued", "done"}
    /\ rtask[bld[b].task].status = "none" => bld[b].pc = "done"
    /\ lock # NoOne \/ rtask[bld[b].task].status = "none"
    /\ Step(b, "markfail")
    /\ UNCHANGED <<dbVars, req, storeVars, cfgVars, lock, loop, runs, clean, lost>>

\* Mutant: the wrapper only logs, as the one of the document tasks does.
MarkNothing(b) ==
    /\ bld[b].pc = "markfail"
    /\ Finish(b)
    /\ UNCHANGED <<dbVars, req, storeVars, cfgVars, lock, loop, runs, lost>>

\* _mark_task_failed: the row if it is there; its own lock timeout is only logged.
MarkFailed(b) ==
    LET t == bld[b].task IN
    /\ bld[b].pc = "markfail"
    /\ \/ /\ lock = NoOne \/ rtask[t].status = "none"
          /\ rtask' = IF rtask[t].status = "none" THEN rtask
                      ELSE [rtask EXCEPT ![t].status = "failed"]
          /\ UNCHANGED lost
       \/ /\ lock # NoOne
          /\ lost' = lost \cup {t}
          /\ UNCHANGED rtask
    /\ Finish(b)
    /\ UNCHANGED <<courses, items, req, storeVars, cfgVars, lock, loop, runs>>

BuildStep(b) ==
    \/ StartTask(b) \/ Read(b) \/ Drop(b) \/ Embed(b) \/ Add(b) \/ AddFails(b)
    \/ ResetCollection(b) \/ Done(b) \/ TaskCrash(b) \/ MarkFailed(b)

\* The process restarts: rebuilds and open transactions vanish, the collection and
\* the task rows stay; unlike document tasks, nothing resets reindex tasks.
Restart ==
    /\ CountEvent
    /\ lock' = NoOne /\ loop' = NoOne
    /\ bld' = [b \in Builders |-> NoRebuild]
    /\ req' = [r \in Requests |-> NoCourse]
    /\ clean' = [b \in Builders |-> FALSE]
    /\ lost' = lost \cup {t \in TaskIds : rtask[t].status \in Active}
    /\ UNCHANGED <<dbVars, storeVars, embDim, runs>>

Next ==
    \/ \E b \in Builders : BuildStep(b)
    \/ \E r \in Requests : ReqInsert(r) \/ \E c \in Courses : ReqCheck(r, c)
    \/ \E c \in Courses, S \in SUBSET Items : EditItems(c, S)
    \/ \E b \in Builders, c \in Courses :
         \/ DeleteCourse(b, c)
         \/ \E S \in SUBSET Items : DeleteSome(b, c, S)
         \/ \E i \in Items : BeginDelete(b, c, i)
         \/ \E i \in Items, old \in SUBSET Items : BeginDoc(b, c, i, old)
    \/ SwitchModel
    \/ Restart

Spec == Init /\ [][Next]_vars

\* Threads run and the embedding call returns; handlers get the event loop back.
FairSpec == Spec /\ \A b \in Builders : WF_vars(BuildStep(b))

----------------------------------------------------------------------------
(* Properties *)

\* The rows, the collection and the rebuilds keep their shape; a task's status is
\* one of the words of the column, whichever path of the thread wrote it.
TypeOK ==
    /\ courses \subseteq Courses
    /\ items \in [Courses -> SUBSET Items]
    /\ rtask \in [TaskIds -> TaskRow]
    /\ req \in [Requests -> Courses \cup {NoCourse}]
    /\ chunks \subseteq [course : Courses, item : Items, run : 1 .. MaxRun]
    /\ coll \in Nat /\ collDim \in {0} \cup Dims /\ embDim \in Dims
    /\ lock \in Builders \cup {NoOne} /\ loop \in Builders \cup {NoOne}
    /\ bld \in [Builders -> Rebuild]
    /\ runs \in 0 .. MaxRun /\ events \in 0 .. MaxEvents
    /\ clean \in [Builders -> BOOLEAN]
    /\ lost \subseteq TaskIds

ItemsOf(cs) == {x.item : x \in cs}

\* One chunk for each item, from one and the same rebuild.
Exactly(cs, S) ==
    /\ ItemsOf(cs) = S
    /\ Cardinality(cs) = Cardinality(S)

\* A rebuild that succeeded and that no other rebuild disturbed between its drop
\* and its end leaves the index with what it read, without duplicates, even when
\* it met a change of embedding dimension.
RebuildExact ==
    \A b \in Builders :
        bld[b].pc = "done" /\ bld[b].ok /\ clean[b]
            => Exactly(ChunksOf(bld[b].course), bld[b].view)

\* The rebuilds that run inside the transaction of their own change see rows that
\* no other session can change before they commit.  A deleted document leaves the
\* index equal to the committed rows; a processed one leaves its text there and
\* the text it replaced not.
LockedRebuildExact ==
    [][\A b \in Builders :
         bld[b].pc = "done" /\ bld[b].ok /\ clean[b] /\ Done(b) =>
             LET c  == bld[b].course
                 cs == {x \in chunks' : x.course = c}
             IN  /\ bld[b].kind = "delete" => Exactly(cs, items'[c])
                 /\ bld[b].kind = "doc" => /\ bld[b].new \subseteq ItemsOf(cs) \cap items'[c]
                                           /\ bld[b].old \cap ItemsOf(cs) = {}]_vars

\* An active reindex task has its thread, unless a restart or a failed
\* _mark_task_failed took it away.
ActiveReindexHasThread ==
    \A t \in TaskIds : rtask[t].status \in Active =>
        t \in lost \/ \E b \in Builders : bld[b].kind = "task" /\ bld[b].task = t

\* Every reindex task ends in success or failure, with the same exceptions.
ReindexSettles ==
    \A t \in TaskIds : rtask[t].status \in Active ~> (rtask[t].status \notin Active \/ t \in lost)

\* Seen from its row and its thread, a reindex task is a task of TaskLife too: a
\* rebuild made for another reason never writes to a task, and a restart forgets
\* the threads without settling their tasks.
Life == INSTANCE TaskLife WITH
            Threads <- Builders, MaxId <- MaxTask,
            status <- [t \in TaskIds |-> rtask[t].status],
            work <- [b \in Builders |-> IF bld[b].kind = "task" THEN bld[b].task ELSE 0]

ReindexIsTaskLife == Life!LifeSpec

\* The docstring of index_course_documents: "replace=True 时先删除该 course_id 下旧数据再写入".
\* A rebuild that succeeded leaves no chunk of an item it did not read.
RebuildReplaces ==
    \A b \in Builders :
        bld[b].pc = "done" /\ bld[b].ok
            => \A x \in ChunksOf(bld[b].course) : x.item \in bld[b].view
=============================================================================
