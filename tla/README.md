# QAStudio: TLA+ models, checks and proofs

QAStudio is a FastAPI backend (`src/backend/app`, 18k lines of Python) with a React
frontend (`src/frontend/src`) for teaching: teachers upload documents, get them parsed,
indexed and turned into questions and papers; students preview, practise and ask
questions answered from a vector index. Everything is kept in one SQLite database reached
through asynchronous SQLAlchemy sessions, in a Chroma vector store, in a few module-level
variables, and in the browser's React state and localStorage. The code has no tests. This
directory models the parts whose correctness depends on the order of steps, checks them
with TLC and proves the main results with TLAPS.

Backend paths below are relative to `src/backend/app`, frontend paths to
`src/frontend/src`; the lines of every definition are in `PROJECT.json`.

## 1. What the models take from the platform

These facts come from how the code configures and calls SQLAlchemy, SQLite, asyncio,
Chroma and React, not from code under `src/`.

* SQLite in WAL mode (`db/session.py`): a SELECT sees the last commit and takes no lock.
  The first flush of a transaction takes the only write lock and keeps it until commit or
  rollback. A writer that waits longer than `connect_args["timeout"]` (120 s) fails with
  "database is locked".
* Sessions are created with `expire_on_commit=False`: an object keeps the columns it was
  loaded with. A flush writes the columns that differ from the loaded ones, and nothing
  else (`OrmMerge`). A SELECT flushes first (autoflush), and does not refresh an object
  the session already holds. An UPDATE that meets no row raises `StaleDataError`. A
  session whose flush failed refuses everything until a rollback.
* No foreign key is enforced. `create_all` makes the tables of a new database without
  AUTOINCREMENT, so the id of a deleted last row is given out again (`IsNextId`). In a
  database that an older version has made, `db/session.py` creates the missing tables
  (lines 208, 344, 381, 467 and others) and a rebuilt `document_process_tasks` (433) with
  AUTOINCREMENT; ids that come back are the harder case, and the one that is modelled.
* A coroutine is interrupted only at an await; a `BackgroundTasks` function without
  `async` runs in a thread of a pool.
* A Chroma collection has the dimension of its first vectors, and is addressed by an
  internal id: a handle to a deleted collection raises.
* React drops a set-state of an unmounted page. Its promises and timers of `await` go on
  running, and their writes to localStorage, toasts and requests are real. Effects of a
  mount run in order after its first render; a state they set is rendered later.

## 2. Inventory

| Component | State | Operations | Hard behaviour | What makes it correct |
|---|---|---|---|---|
| Document processing (`api/teacher.py`) | `document_process_tasks`, `knowledge_documents`, `document_chapters`, two in-memory sets of ids, threads | reprocess, worker, cancel, status, list, detail, PATCH, deletions, startup reset | handlers race with threads and with each other; crash; stale tasks; ids reused; write lock held for long | no task forgotten, a cancel in time wins, outcomes final, one thread per task, what is shown is alive |
| Course index (`services/rag_index_service.py`, `rag/indexer.py`, `rag/store/chroma_store.py`, `services/course_reindex_task_service.py`) | rows with text, the collection, `course_reindex_tasks` | reindex task, rebuild after parse / deletion / clear, sweep of a deleted course | no lock around drop, embed, add; dimension change resets the collection of all courses; failures half-way | the index is what some rebuild read, without duplicates; tasks settle |
| Question generation (`api/teacher.py`) | `question_generation_tasks`, question bank | submit, run in batches or for several chapters, cover knowledge points, settle; import, edit, match anew, delete | no startup reset, other writers during the batches, commit on a broken session | no text a task could know of, every point covered, a task only its coroutine makes a success |
| RAG configuration (`rag/config_store.py`, `rag/config.py`, `rag/embedding/factory.py`, `pages/admin/AdminRag.tsx`) | `rag_config`, `_cache`, `_embedding_cache`, the page's form | load, save, providers, clear, build a client | memory changed before the commit; cache key without the API key; masked and outdated forms | memory = table; the client used is the one configured; keys survive |
| Chunking (`rag/chunking.py`) | a window of units | collect, flush, overlap | the last flush, windows that only repeat, heavy units | no text lost, budget kept up to one unit |
| Papers (`api/teacher.py`) | candidates, what is picked | request, rounds of de-duplication and refill | a round's result replaces the one before; one type short, another not | no text twice, short only when exhausted |
| Class rosters (`api/teacher.py`, `api/admin.py`, `db/session.py`) | `student_class_memberships`, `classes.student_count`, `users.class_id` | create, assign, import, remove, delete, administrator's deletions, migrations | counters written from stale reads; left-over rows; order of migrations | counter = number of rows |
| Teacher's course page (`pages/teacher/TeacherCourses.tsx`) | entries per course, poll loops, refs, localStorage | reindex, poll, sync every 5 s, recover, delete | answers in any order, lost ones, pages left, loops that give up | a spinner is polled and ends; a task is announced or remembered |
| Chats (`pages/student/InClass.tsx`) | sessions, questions in flight, localStorage | ask, edit, delete, rename, switch, new, load | effects of a mount, answers after a switch, trimming | answers come home, history is kept |
| Preview (`pages/student/Preview.tsx`, `api/questions.py`, `api/preview.py`) | chapter, task, answers, results; records | pick, study, grade one by one, complete | tasks arriving late, loops failing half-way, chapter switched meanwhile | completed means graded; a grade has its record |
| Chapter and course clean-up | all tables of a course, files, index | delete chapter / course, clear-knowledge | runs under live threads and rebuilds | nothing left behind |
| Offerings, accounts, pipeline, feedback, practice, retrieval, providers, seed, other pages, `ragflow-main` | see `PROJECT.json` | | | not modelled, section 7 |

How they interact: a reprocess request commits a task row and dispatches a thread; the
thread rebuilds the course's index inside its own write transaction; deletions rebuild
or sweep the index on the event loop; the reindex task rebuilds in another thread;
rebuilds cut their texts into chunks and take the embedding client from the RAG
configuration; question generation fills the bank that previews and papers draw on; the
pages see all of this only through rows they poll; startup (`main.py`) runs the
migrations, loads the RAG configuration and resets the document tasks, and nothing else.

The hazards found in the code, each at its line, with the properties that cover it or the
reason none does, are in `PROJECT.json`.

## 3. Modules

    TaskLife  <=refines=  DocTask, CourseIndex, QuestionTask
    Tab       <=extends=  CoursesPage, ChatPage, PreviewPage
    Lists     <=extends=  CoursesPage, ChatPage, PreviewPage
    Parts     =extends=>  ChatPage, PreviewPage, RagConfig, QuestionTask, Chunking, PaperPick

    DataLemmas      <=extends=  QuestionTaskProofs, PagesProofs
    PagesProofs     =extends=>  CoursesPage, ChatPage, PreviewPage
    PartsProofs     =extends=>  Parts, PagesProofs, QuestionTaskProofs, RagConfigProofs
    DocTaskProofs, CourseIndexProofs, ClassRosterProofs: each its component

### TaskLife

What all three kinds of background task promise to somebody who sees only their rows:
`Submit` inserts a row together with the thread that will work on it; only that thread
can begin it or make it a success (`Begin`, `Settle`), or it leaves without an outcome
(`Quit`); others can fail rows (`Reap`), delete them (`Forget`), or take all threads away
(`Crash`). `DocTask`, `CourseIndex` and `QuestionTask` each instantiate it as `Life` with
the status column and the task of each thread, and state `Life!LifeSpec` as a property.

### DocTask

One course, its chapters and uploaded documents. `task` and `doc` are the tables (a
status "none" is a row that is not there), `running` and `cancelled` the two sets of
`api/teacher.py`, `lock` the holder of the write lock. A worker thread is a program
counter `pc[w]`, the task it selected (`job[w]`), and the document it selected
(`snap[w]`); its actions are the stretches of `_run_document_process_task` between two
points where another session can commit:

    Pick, Start, Load | LoadFail, Mark, Check, Parse | ParseFail, Check,
    FinishRead | FinishMissing, FinishFlush, FinishCommit     and  CancelCommit

`LockTimeout` and `RowVanished` are the two database errors that end a thread by an
exception, from every point that writes. A reprocess request (`req`) is split at its
reads: `ReqLoad` (document), `ReqScan` (active tasks), `ReqReconcile` (fail the stale
ones), `ReqCheck` (look for an active task), then `ReqReuse` or `ReqInsert`, or
`ReqAbort`. The two pages that repair what they show share `viewer`: `ListBegin` or
`DetailBegin`/`DetailScan`, `ViewReconcile`, `ListRead`, `ViewFix`, `ViewAbort`. The
gap between the reads and the write of each is where the wrong repairs come from. The
remaining handlers are one action each; `DeleteBegin`/`DeleteCommit` are two because the
lock is held while the index is rebuilt. `Restart` empties memory, ends threads and
requests, rolls back the open transaction and runs the startup hook.

`told`, `died` and `purged` are history variables: threads cancelled before the last
checkpoint, ids whose thread ended with an exception, and whether a task row was ever
deleted under a live thread. `viewer` is one page at a time. Uploads are not actions:
they create rows with status "uploaded", which are the initial states. Text, file
contents, chunk counts and error messages are left out. Whether the file is there, and
whether parsing fails, is a nondeterministic choice.

### CourseIndex

`items[c]` is the set of rows of course `c` that have text; `chunks` is the collection,
each chunk marked with its course, item and the rebuild that wrote it. A rebuild
(`bld[b]`) goes through `Read`, `Drop`, `Embed`, `Add` | `AddFails`, `ResetCollection`,
`Done`; its kind says who called it and so what surrounds it: a task's thread
(`StartTask`, `TaskCrash`, `MarkFailed`), the write-back of a document or a document's
deletion (inside a transaction that holds the lock), a rebuild after a commit, or the
sweep of a deleted course. `loop` is the handler whose synchronous indexing call keeps
the event loop. `clean[b]` records that nobody touched the course's chunks since `b`'s
drop. Reading the rows is one step, and an item is one chunk.

### QuestionTask

One chapter, with the texts the model may write (`Texts`) and its knowledge points. A
coroutine (`maker[w]`) goes `begin`, `read` (points and texts of the chapter; points made
for a chapter that had none are flushed, so the lock may be held from here), `batch` (the
model repeats a text or adds one), `ensure` (after the flush; a special question for each
point that has none, until the quota), `commit` (the questions, on their own), `finish`
(the outcome). A task for several chapters (`analysis_only`) goes `read`, `merge` (the
model is asked), `dealt` (this chapter's share of what it wrote, compared with nothing),
and commits questions and outcome at once; such a task of another chapter is to this one
what an import is. `HandleError` is the `except` of the task: before the flush it commits
"failed" and with it the questions drafted so far. `Die` is an error of a flush or
commit, after which the handler's own commit raises too and the row stays open.

The bank has other writers, each one action with its one commit: `ConfirmImport`,
`UpdateQuestion` (any text, any points), `SavePoints` (knowledge points replaced:
questions of removed points go, the others are matched anew), `DeleteQuestion`, and
`DropChapter`, the deletion of the course. None of them compares texts. A member of
`bank` stands for all rows with its text and points: adding a like row is a stutter,
deleting or changing one of several like rows is a stutter or an import. `RestartGen` is
a restart, which resets nothing. `late[w]` is a history variable: the texts that came
into the bank since `w` read it.

### RagConfig

`ragMem` is `_cache`, `ragRows` the table, `clients` the cache of embedding clients (by
endpoint: the key of the cache has no API key). A save is `PutProviders` (memory changes
before the first await), `CommitProviders` or `FailProviders`, `ClearClients`, and the
second request of the page, `PutConfig`. Its payload is any list of providers with a key
or a mask for each: older pages send lists that no longer fit. A reader takes the
settings and builds its client some steps later (`ReadSettings`, `GetEmbedding`).
`drift` and `tainted` record failed or overlapping saves, and clients built from settings
that had changed.

### Tab, Lists, CoursesPage, ChatPage, PreviewPage

`Tab` is the mount of one page of a route: `Alive(p)` is false for the promises of an
older mount. `Lists` has `Array.sort` and `Array.filter` by the rank of each position,
where `SortSeq` and `SelectSeq` recurse on the length of a list: the proofs need to know
which member stands where, and that needs no induction over lists when it is a count.

`CoursesPage` is the reindex button of the teacher's course list. `entry` is the spinner
of each course (with the placeholder of a button just pressed), `polls` the loops of
`pollReindexTask` (sent, answered or lost, waiting for their timer), `jobs` the runs of
`load` with its recovery and of `syncActiveReindexTasks`, each split where it waits for
the server, `posts` the requests of the button. The server side is the rows of
`course_reindex_tasks`, as `TaskLife` allows: inserted by the request, settled at any
time or never, deleted with the course.

`ChatPage` has the React state (`chat`), its copy in localStorage (`stored`), and what
makes their order delicate: the load effect sets a ref to false and a timer to set it to
true, and the loaded state is rendered on either side of that timer. `asks` are questions
in flight with the session they were asked in. `clock` orders the sessions for the limit.

`PreviewPage` has the chapter picked and the chapter whose task is shown, which differ
while a request is in flight (`taskFetches`), the grading loop with its private copy of
the results (`gradings`), and the completions in flight. `recorded` and `completed` are
the rows on the server; `mixed` and `crossed` record completions sent while another
chapter's task was shown, or answered after the chapter was left.

### Chunking, PaperPick

`Chunking` is the loop of `_merge_units`, one action for each way through its body. Units
are their weights; the estimate of a joined tail may be larger than the sum, which
`FlushFull` leaves open. The branch for pieces of overlong units (lines 85-112) repeats
the loop for each piece and has the same body; it is the same actions on the pieces.

`PaperPick` is the loop of `_pick_local_questions_for_paper`, one `Round` for each pass:
the staged list, the first of equal texts, what the model drops (any subset, or nothing
when it fails), the first of each type, and the refill. The request has each type once,
as the page sends it.

### Parts, MC modules

`Parts` runs one of six parts that share no state, so that their checks are one run whose
states are the sum of theirs. The MC modules give model values, small sets and symmetry.

## 4. Runs

| Run | Bounds | Shows |
|---|---|---|
| `doctask_safety` | 1 document, 1 chapter, 2 threads, 2 requests, 2 tasks, 1 event | two requests race on one document: ids not shared, lock scoped |
| `doctask_events` | 1 document, 2 chapters, 2 threads, 1 request, 2 tasks, 2 events | shown is alive, owners, cancels, final outcomes, refinement of `TaskLife` |
| `doctask_live` | as above, 1 event, fairness | threads end, tasks settle |
| `course_index` | 1 course, 2 items, 2 builders, 1 request, 2 tasks, 2 rebuilds, 2 events, fairness | undisturbed rebuilds are exact, active tasks have threads and settle, refinement of `TaskLife` |
| `class_roster` | 2 requests, ids reused | the counter is exact outside the recorded cases |
| `courses_page` | 1 course, 2 tasks, 1 mount, 2 rounds, a cache of 1, 1 job and 1 post at a time, fairness | spinners are polled and end, the cache keeps what can be announced |
| `parts` | chats: 2 sessions kept, 3 ids, 2 questions, 2 mounts; preview: 2 chapters, 2 requests in flight; settings: 1 provider, 2 keys, 2 tabs, 1 reader; generation: 2 coroutines, 1 task row, 1 text, 1 point, changes of up to 2 questions; chunks: size 2, up to 4 units; paper: 2 types, pools of 3, 3 rounds | the properties of the six parts, refinement of `TaskLife` by question generation |
| `doctask_lock`, `doctask_recycle`, `course_index_empty`, `class_roster_startup`, `rag_config_key` | as the run of the module | five statements of the source that the code breaks |

Bounds. `MaxEvents` counts what users and time do without being asked to (deletions,
edits, page views, half hours, restarts); worker steps, cancels and the steps of requests
already in flight are not counted. One event with two requests and two events with one
request meet every action, and the interesting combinations: a stale task and the page
that fails it, a chapter deletion under a thread and the reuse of its id, a restart
between two attempts. `MaxTask = 2` is the least at which an id can be reused and two
tasks of a document can be alive. `MaxRun` bounds the rebuilds started, `MaxCount` a
counter that lost updates could push up for ever. On the course page, one job at a time
still interleaves with loops, posts, settling rows and deletions, and a cache of one is
full at once, which is what drops entries. In `parts`, sessions above the limit are
trimmed, two tabs save at once, two coroutines follow each other or overlap (the chapter
is deleted under the first, and the second has its id), texts come late and do not, the
quota of 1 is reached, units are lighter than, equal to and twice the size, and a type grows by
its reserve to an exhausted pool. The constants the code fixes (180 rounds, 30 cached
tasks, 100 sessions, chunks of at least 32, 6 rounds, reserves of 5 to 20) are constants
of the modules and small in the runs; no action compares them with anything else.
Because the bounds stop the system, the runs say `CHECK_DEADLOCK FALSE`; that a thread or
a spinner is never stuck is stated by the liveness properties.

Fairness. `FairSpec` of `DocTask` assumes weak fairness of each thread's steps and of
`DeleteCommit`: a thread of the pool is scheduled, extraction and provider calls return
or raise, and a handler that holds the lock reaches its commit. `LockTimeout` is one of
the thread's own steps, which is what the 120 s limit provides, so no fairness of the
lock itself is needed. `CourseIndex` assumes the same of its builders. `CoursesPage`
assumes weak fairness of each poll loop and each request of the button: a timer fires and
a fetch resolves or rejects. It assumes nothing of the server's threads: a spinner must
end though its task never does. No user action and no restart is fair.

What the violations say:

* `IndexingHoldsNoLock`: the comment after the first session says the database is
  released for parsing and indexing; parsing holds nothing, but indexing does.
* `RecycledHasNoTask`: both pages can fail a document whose task is alive. The listing
  looks only at tasks that carry the listed chapter, and at documents selected later; the
  detail page looks at tasks selected after the document.
* `RebuildReplaces`: an empty rebuild leaves the previous chunks.
* `StartupCountExact`: counters are recomputed before memberships are backfilled.
* `KeyTakesEffect`: a request that has read the settings and not yet built its client
  puts the old key back into the cache after a save has cleared it.

Seen while modelling and stated of no line, so without a run: a task between its commit
and the start of its thread is reported as "cancelled" (`api/teacher.py:6536`); a reindex
or question task left open by a crash is reused, or listed as running, for ever; a
question task can commit questions of a chapter that has been deleted; a text comes into a
chapter twice through two tasks at once, a task for several chapters, an import or an edit;
a recovery query
that fails for a cached task that has settled is not repeated before the page is opened
again; after a poll loop has given up the outcome is announced no more; deleting a chat
message takes the answer of another question with it when two were asked at once; two
tabs overwrite each other's chats; edits in the RAG page during a save are overwritten by
the list it loads; two configurations of one type in a paper request put the same
questions on the paper twice.

Mutants. Each property of a passing run has a mutant of a mapped definition, defined just
before it with a comment, that a plausible slip in that code would produce and that the
run detects.

## 5. Proofs

The theorems hold for every number of documents, chapters, courses, rebuilds, threads,
requests, students, classes, providers, keys, tabs, coroutines, texts, units and mounts,
and for every bound.
They assume only the named assumptions on the constants of each module: numbers are
naturals, special values are not members of the sets, a few sets are finite.

`DocTask`. The invariant is

    IInv == TypeOK /\ RunInv /\ CancelInv /\ UniqueInv /\ LockIsScoped /\ ActiveTaskHasOwner

`ShownProcessingIsAlive` speaks of what is reported, which depends on the set `running`;
`RunInv` says every id in it has a live thread past its start. `CancelHonoured` needs to
know where a thread that was told of a cancel can be, and that its id stays in the set:
`CancelInv`. `OneThreadPerTask` is not inductive because a new row takes the first id
that no *row* has: `UniqueInv` adds that every thread has a row, not settled by a success
or a cancellation, for as long as no chapter is deleted under a thread; that is also
what makes `OutcomeIsFinal` provable. The steps are classified first: `WorkerFrame` (a
worker step is local, and either goes on or leaves its row settled, cancelled or
recorded as died), `RequestFrame` and `ViewFrame` (`Quiet`: rows only become failed, and
only if they were read as stale; or `Inserts`: an idle thread gets a fresh row). The
invariant is then proved from these frames, once per class of steps, and so is
`DocTaskRefinesTaskLife`: a worker's step is `Begin`, `Settle`, `Quit` or a stutter, a
quiet step is `Reap`, an insert is `Submit`, deletions are `Forget` and a restart is
`Crash`.

`ClassRoster`. The invariant is

    IInv == TypeOK /\ RemovesOne /\ ReadInv /\ CountExact

`ReadInv` relates what an undisturbed request has read to the tables: until another
request writes to its class, its snapshot of the counter is the counter, and what it
decided to write is still missing from (or present in) the memberships. `RemovesOne`
says that a removal concerns one student. The commits then follow from the cardinality
of a disjoint union and of a set without one element.

`RagConfig`. `SaveInv` adds to the types that, without drift, at most one save is between
its memory and its clear, and that a save that waits for its commit carries what the
memory holds; that gives `MemoryIsTable`, and with it `KeyKept`, because the key that a
masked form keeps is taken from the memory. `ClientsFresh` is carried along: the only
steps that build clients are readers, and the only ones that change settings make a save
pending.

`CourseIndex`. Three invariants are proved one after the other, each on top of the types.
`TypeInv` adds to `TypeOK` that a rebuild in progress has a course and a number, and that
only the thread of a task has a task. `CleanInv` follows the mark `clean[b]`: it is set
by `b`'s drop, any drop or add in the same course and any reset takes it from the others,
so as long as `b` has it, the collection holds nothing of the course until `b`'s add, and
exactly `b`'s chunks after it; their number is that of the items by a bijection
(`NewChunksExact`), which is why `Items` is assumed finite. `LockedInv` says that a
rebuild inside a transaction holds the write lock and that what it read is still what its
session sees; with `CleanInv` it gives `LockedRebuildExact`. The steps are classified
here too: a step of a rebuild moves it on, with what it was started for (`Keeps`), or
ends it (`BuildMoves`); a start takes an idle place (`Opens`); seen as a task it `Marks`,
`Settles`, `Quits` or merely `Works`, from which `ActiveReindexHasThread` and the
refinement follow. A restart is the `Crash` that resets nothing.

`QuestionTask`. `GenShape` has the types, with keys whose suffix is any natural, and that
what a coroutine has seen and drafted is finite: that is why the loop for a free suffix
ends (`DataLemmas!FreeSuffix`, by the least number principle and cardinality). No bound
on the suffix is an invariant for any number of coroutines, so the type has none.
`Aware` says that a task between its read and its commit has seen every text of the bank
that did not come late, and every text it drafted, which it drafted once: what it adds is
new as far as it could know (`TextsAreNew`). Others keep it because what they bring is
late at once (`OthersAware`), its own batches and special questions because they avoid
what is seen (`SpecialIsNew`). `CoverKept` says that the lock keeps the bank as the
coverage loop saw it, against the teacher's changes too: it gives `EveryPointCovered`.
The refinement needs only `GenShape`.

`CoursesPage`. The invariant is

    CoursesInv == TabInv /\ Tracks /\ Spinners

`Tracks` says that what is tracked for a course (by a loop, a query of the recovery, a list
of active tasks in flight, a request of the button, the entry on the screen) is a task of
that course: its row says so, or a row of that id was deleted (`Linked`), after which the
id may be in use for another course. `Spinners` says for each course that an entry on the
screen has a loop of its task on this mount, or a submission that will replace it, or
that its task was deleted (`Busy`). Steps are grouped by what they leave alone:
`PageOnlyStep` for those that see no row, `PollTalks` and `JobTalks` for the
server's half, `ShowStep` for those that write an entry, `CalmStep` for those that write
none. Two steps need an argument of their own: the end of a sync (`ConcludeStep`) and the
recovery (`RecoverStep`) start a loop for each entry they write unless one runs
(`StartedGood`). `CacheIsKept` then
follows from what the two writers of localStorage do with its list (`AnnounceCache`,
`RememberCache`), which is what sorting by rank is needed for.

`ChatPage`. The invariant is

    ChatInv == TabInv /\ ChatData /\ Waiting /\ Loading /\ StoredIsShown

`ChatData` says that the chat on the screen and the one stored are good (`GoodChat`:
different ids below the next one, messages of questions asked in their session, not more
sessions than the limit) and that the one on the screen has its active session. That is
`OneActive` and `AnswersComeHome`, strengthened by the times of the sessions: a new session is
newer than all others, so trimming keeps it (`TrimmedList`), and so the session that
becomes active exists. `Waiting` says that a question in flight knows its session, and
that none of the present mount is in flight before its load is over. `HistoryKept` is
where the order of effects matters: `Loading` says that what is about to be rendered is
what is stored now, and that `storageLoadedRef` is set once the timer is gone;
`StoredIsShown` that from then on a render stores a chat made from the stored one. Hence
the fallback of the first render never reaches the storage, and what a later render takes
away is what its action takes away (`AppendKeeps` for the answers and questions, which
take nothing).

`PreviewPage`. `PreviewInv` says that what a grading loop has done is recorded, that a
graded head is recorded, and that a completion in flight was sent for a chapter whose
paper was recorded, or for a mixed one; the three properties follow.

`Chunking`. `ChunkInv` says that the window starts at most one unit after the last chunk
and ends past it, so that the next flush leaves no gap; `TextIsCovered` follows for every
text, size and overlap. `BudgetInv` says that the budget counts at least the weight of
the window, and that a window over the budget has a single unit that the last chunk had
not, after a tail of that chunk that is one unit or within the overlap: it gives
`BudgetKept`. `Tokens` is a recursive function, and `SumsExist` shows, by a shortest
prefix without sums, that a function with its equations exists for every text.

`PaperPick`. `PaperInv` has the types, `PaperDistinct` and `ShortIsExhausted`, and that
nothing is picked before the first round. They are inductive: a round keeps one of equal
texts before it takes the first of each type, and of a set of numbers those with fewer
than `n` below them are at most `n` (`FirstFew`), whatever the model dropped.

`Parts`. The parts that share nothing satisfy their own specifications here, because a
step of another part leaves their variables alone (`PartsAreTheirSpecs`). The two pages
share the tab, so a mount of one moves what the invariant of the other speaks of.
`PagesInv` therefore keeps `ChatInv` only when the previews do not run; when they do, the
chats do not move and are still `ChatsSafe`. `PartsAreSafe` and `PartsStepSafely` carry
every invariant and action property of the run to `PartsSpec`.

`DataLemmas` has what these proofs share: the least and the greatest of a bounded set of
naturals, free suffixes, and what ranks do (`RankNumbers`: each rank is taken once;
`SortedList` and `KeptList`: a sorted or filtered list visits the positions it should,
each once, in order).

Only model-checked: liveness (`ThreadEnds`, `TaskSettles`, `ReindexSettles`,
`SpinnerEnds`), which is out of the prover's reach with its fairness. Every other
property of a passing run is a theorem; those of the run of `Parts` are proved both for the
specification of their own part and for `PartsSpec`. The violations are runs by nature.

## 6. Limits of the models

A document of one course, one course of rebuilds, one chapter of questions, one tab of
each page: the components keep nothing across these, except the collection that a new
dimension resets and the caches in localStorage, whose sharing between two tabs is left
out. Modules meet through abstractions, not through one composed state space: `CoursesPage`
sees the rows that `TaskLife` allows, `CourseIndex` sees a change of model, `TaskLife` is
what the three task modules have in common. React's StrictMode, which mounts twice in
development builds, is left out.

The map covers the code of these components and little of the whole: `src/ragflow-main`
is a vendored project of 150k lines of TypeScript that nothing here uses, and most of the
own frontend is forms, tables and charts.

## 7. Not modelled

* `ragflow-main`: third-party code.
* The other pages of the frontend: forms over single requests. Their task pollers follow
  the loop of `CoursesPage` without the cache and the sync.
* Retrieval and answering, providers, grading, the material pipeline's stages: floating
  point scores, prompts and calls to services; in the models a call answers or raises.
  The pipeline's manifest is read, changed and written without an await, so nothing can
  come between.
* Course offerings, accounts, feedback, practice: a check and an insert with a unique
  constraint, or rows with one writer. The comparison of an empty term with NULL
  (`api/admin.py:1236`) needs no model to be seen.
* Difficulty mapping: three thresholds.
* Migrations other than those of rosters: idempotent DDL. Seed and scripts: run by hand.

## 8. What is left

1. The question-task half of the course page and the poller of `TeacherChapterMaterials.tsx`
   as a second instance of `CoursesPage`, with `CoursesInv` for both.
2. The composition of a page with the rows it polls (`CoursesPage` with `CourseIndex`), in
   place of the abstraction by `TaskLife`.
