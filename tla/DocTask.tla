------------------------------ MODULE DocTask ------------------------------
(***************************************************************************)
(* Processing of an uploaded PDF (backend/app/api/teacher.py): the rows of *)
(* document_process_tasks and knowledge_documents, the two in-memory sets  *)
(* of task ids, the worker threads, and the HTTP handlers that race with   *)
(* them.  One course and its owner.  A handler or a thread is split at the *)
(* awaits where another session can commit in between.                     *)
(*                                                                         *)
(* SQLite: a SELECT sees the last commit; the first flush of a transaction *)
(* takes the only write lock, kept until commit; a writer that waits too   *)
(* long for it raises "database is locked".  SQLAlchemy: a flush writes    *)
(* the columns that differ from the loaded row, and an UPDATE that meets   *)
(* no row raises StaleDataError.  Either error ends a thread.              *)
(***************************************************************************)
EXTENDS Naturals, FiniteSets

CONSTANTS Docs,         \* ids of knowledge_documents
          Chapters,     \* ids of chapters, numbered in order_index order
          Workers,      \* threads that can be busy at once
          Requests,     \* reprocess requests that can be in flight at once
          MaxTask,      \* bound on the ids of document_process_tasks
          MaxEvents,    \* bound on the deletions, edits, half hours and events
          NoOne, Deleter, NoDoc

NoChapter == 0

ASSUME ConstantsAssumption ==
    /\ Chapters \subseteq Nat \ {0}
    /\ MaxTask \in Nat
    /\ MaxEvents \in Nat
    /\ NoOne \notin Workers
    /\ Deleter \notin Workers
    /\ NoOne # Deleter
    /\ NoDoc \notin Docs

VARIABLES
    task,       \* document_process_tasks: [TaskIds -> TaskRow]
    doc,        \* knowledge_documents with their document_chapters rows
    chapters,   \* the rows of chapters
    lock,       \* holder of SQLite's write lock
    running,    \* _document_task_running
    cancelled,  \* _document_task_cancelled
    pc,         \* where each worker thread is
    job,        \* its task row as selected: id, document, chapter
    snap,       \* its document row as selected
    req,        \* reprocess requests in flight
    viewer,     \* a GET of a chapter's documents or of one document, in flight
    deleting,   \* the document a delete request has flushed but not committed
    events,     \* how many of those have happened
    told,       \* history: threads whose task was cancelled before the last check
    died,       \* history: ids whose thread ended with an exception
    purged      \* history: a task row was deleted under a live thread

dbVars   == <<task, doc, chapters>>
memVars  == <<running, cancelled>>
wkVars   == <<pc, job, snap>>
reqVars  == <<req, viewer, deleting>>
histVars == <<told, died, purged>>
vars     == <<dbVars, lock, memVars, wkVars, reqVars, events, histVars>>

----------------------------------------------------------------------------
(* Rows *)

TaskIds   == 1 .. MaxTask
AnyChapter == Chapters \cup {NoChapter}
Active    == {"pending", "running"}

\* A status of "none" stands for a row that is not in the table.
TaskRow == [status  : {"none", "pending", "running", "success", "failed", "cancelled"},
            doc     : Docs \cup {NoDoc},
            chapter : AnyChapter,
            stale   : BOOLEAN]  \* updated_at is over DOC_PROCESS_TASK_STALE_MINUTES old

DocRow  == [status  : {"none", "uploaded", "processing", "done", "failed"},
            chapter : AnyChapter,
            links   : SUBSET Chapters]

NoTaskRow == [status |-> "none", doc |-> NoDoc, chapter |-> NoChapter, stale |-> FALSE]
NoDocRow  == [status |-> "none", chapter |-> NoChapter, links |-> {}]
NoJob     == [id |-> 0, doc |-> NoDoc, chapter |-> NoChapter]

TaskExists(t) == task[t].status # "none"
DocExists(d)  == d \in Docs /\ doc[d].status # "none"
IsActive(t)   == task[t].status \in Active

\* An UPDATE also refreshes updated_at.
Stamp(row, s) == [row EXCEPT !.status = s, !.stale = FALSE]
Aged(row) == [row EXCEPT !.stale = TRUE]
WithStatus(row, s) == [row EXCEPT !.status = s]
Relinked(row, S, c) == [row EXCEPT !.links = S, !.chapter = c]

Processing   == {d \in Docs : doc[d].status = "processing"}
FailDocs(ds) == [d \in Docs |-> IF d \in ds THEN WithStatus(doc[d], "failed") ELSE doc[d]]
SetTasks(ts, s) == [t \in TaskIds |-> IF t \in ts THEN Stamp(task[t], s) ELSE task[t]]

\* What a flush leaves in the table when an object loaded as old is now new.
OrmMerge(row, old, new) ==
    [f \in DOMAIN row |-> IF new[f] = old[f] THEN row[f] ELSE new[f]]

\* The next INTEGER PRIMARY KEY of a table without AUTOINCREMENT: one more than
\* the largest id present, so the id of a deleted last row is given out again.
IsNextId(t) ==
    /\ t \in TaskIds
    /\ \A u \in TaskIds : TaskExists(u) => u < t
    /\ t = 1 \/ \E u \in TaskIds : u = t - 1 /\ TaskExists(u)

\* _require_owned_document: the row, and its chapter if it names one, exist.
Owned(d) == DocExists(d) /\ doc[d].chapter \in chapters \cup {NoChapter}

Pcs == {"idle", "queued", "start", "load", "mark", "check1", "parse", "check2",
        "finish", "flush", "commit", "cancelling"}
Early   == {"queued", "start", "load", "mark", "check1", "parse", "check2"}
Late    == {"finish", "flush", "commit"}
Started == Pcs \ {"idle", "queued", "start"}

Busy(w) == pc[w] # "idle"

CountEvent == events < MaxEvents /\ events' = events + 1

\* A reprocess request: where it is, its document as selected, the chapter it got
\* with it, the stale tasks it is about to fail.
Asked(l, d, s, c, ts) == [pc |-> l, doc |-> d, snap |-> s, chapter |-> c, stale |-> ts]
NoReq == Asked("idle", NoDoc, NoDocRow, NoChapter, {})

\* A GET that repairs what it shows: the chapter or the document asked for, the
\* stale tasks it is about to fail, the documents it found an active task for,
\* and the documents it is about to fail.
View(l, c, d, ts, active, hit) ==
    [pc |-> l, chapter |-> c, doc |-> d, stale |-> ts, active |-> active, hit |-> hit]
NoView == View("idle", NoChapter, NoDoc, {}, {}, {})

----------------------------------------------------------------------------
Init ==
    /\ task = [t \in TaskIds |-> NoTaskRow]
    /\ doc \in [Docs -> {r \in DocRow : /\ r.status = "uploaded"
                                        /\ IF r.links = {} THEN r.chapter = NoChapter
                                                           ELSE r.chapter \in r.links}]
    /\ chapters = Chapters
    /\ lock = NoOne
    /\ running = {} /\ cancelled = {}
    /\ pc = [w \in Workers |-> "idle"]
    /\ job = [w \in Workers |-> NoJob]
    /\ snap = [w \in Workers |-> NoDocRow]
    /\ req = [r \in Requests |-> NoReq]
    /\ viewer = NoView
    /\ deleting = NoDoc
    /\ events = 0
    /\ told = [w \in Workers |-> FALSE]
    /\ died = {}
    /\ purged = FALSE

----------------------------------------------------------------------------
(* The worker: _run_document_process_task in its thread *)

Goto(w, l) == pc' = [pc EXCEPT ![w] = l]

\* Mutant: a thread that ends forgets to leave _document_task_running.
ExitStaysRunning(w) ==
    /\ Goto(w, "idle")
    /\ job' = [job EXCEPT ![w] = NoJob]
    /\ snap' = [snap EXCEPT ![w] = NoDocRow]
    /\ told' = [told EXCEPT ![w] = FALSE]
    /\ UNCHANGED running

\* The thread returns or raises; every such path discards the id from the
\* running set (a no-op for the paths taken before it was added).
Exit(w) ==
    /\ Goto(w, "idle")
    /\ job' = [job EXCEPT ![w] = NoJob]
    /\ snap' = [snap EXCEPT ![w] = NoDocRow]
    /\ told' = [told EXCEPT ![w] = FALSE]
    /\ running' = running \ {job[w].id}

\* Settle the task row (if it is there) and the document row (if it is there).
Settle(w, ts, ds) ==
    /\ lock = NoOne
    /\ task' = IF TaskExists(job[w].id)
               THEN [task EXCEPT ![job[w].id] = Stamp(@, ts)] ELSE task
    /\ doc' = IF DocExists(job[w].doc)
              THEN [doc EXCEPT ![job[w].doc] = WithStatus(@, ds)] ELSE doc
    /\ UNCHANGED <<chapters, lock, cancelled, reqVars, events, died, purged>>
    /\ Exit(w)

\* First SELECT: no row, or an id already cancelled, ends the thread silently.
Pick(w) ==
    LET t == job[w].id IN
    /\ pc[w] = "queued"
    /\ IF ~TaskExists(t) \/ t \in cancelled
       THEN Exit(w)
       ELSE /\ Goto(w, "start")
            /\ job' = [job EXCEPT ![w] = [id |-> t, doc |-> task[t].doc,
                                           chapter |-> task[t].chapter]]
            /\ UNCHANGED <<snap, told, running>>
    /\ UNCHANGED <<dbVars, lock, cancelled, reqVars, events, died, purged>>

Start(w) ==
    /\ pc[w] = "start"
    /\ lock = NoOne
    /\ TaskExists(job[w].id)
    /\ task' = [task EXCEPT ![job[w].id] = Stamp(@, "running")]
    /\ running' = running \cup {job[w].id}
    /\ Goto(w, "load")
    /\ UNCHANGED <<doc, chapters, lock, cancelled, job, snap, reqVars, events, histVars>>

\* The join of document, chapter and course that the task row names.
JoinFinds(w) ==
    /\ DocExists(job[w].doc)
    /\ \/ job[w].chapter = NoChapter
       \/ job[w].chapter \in chapters /\ doc[job[w].doc].chapter = job[w].chapter

Load(w) ==
    /\ pc[w] = "load"
    /\ JoinFinds(w)
    /\ snap' = [snap EXCEPT ![w] = doc[job[w].doc]]
    /\ Goto(w, "mark")
    /\ UNCHANGED <<dbVars, lock, memVars, job, reqVars, events, histVars>>

\* Mutant: the early return forgets to write the task's failure.
LoadFailUnsettled(w) ==
    /\ pc[w] = "load"
    /\ lock = NoOne
    /\ Exit(w)
    /\ UNCHANGED <<dbVars, lock, cancelled, reqVars, events, died, purged>>

\* No such row, or (the disk decides) no file or an empty one: the task fails
\* and the document keeps the status it has.
LoadFail(w) ==
    /\ pc[w] = "load"
    /\ lock = NoOne
    /\ TaskExists(job[w].id)
    /\ task' = [task EXCEPT ![job[w].id] = Stamp(@, "failed")]
    /\ Exit(w)
    /\ UNCHANGED <<doc, chapters, lock, cancelled, reqVars, events, died, purged>>

Marked(w)    == WithStatus(snap[w], "processing")
MarkDirty(w) == Marked(w) # snap[w]

Mark(w) ==
    /\ pc[w] = "mark"
    /\ MarkDirty(w) => lock = NoOne /\ DocExists(job[w].doc)
    /\ doc' = IF MarkDirty(w)
              THEN [doc EXCEPT ![job[w].doc] = OrmMerge(@, snap[w], Marked(w))] ELSE doc
    /\ snap' = [snap EXCEPT ![w] = NoDocRow]
    /\ Goto(w, "check1")
    /\ UNCHANGED <<task, chapters, lock, memVars, job, reqVars, events, histVars>>

\* Mutant: no checkpoint after the parse.
CheckOnce(w) ==
    /\ \/ pc[w] = "check1" /\ Goto(w, IF job[w].id \in cancelled THEN "cancelling" ELSE "parse")
       \/ pc[w] = "check2" /\ Goto(w, "finish")
    /\ UNCHANGED <<dbVars, lock, memVars, job, snap, reqVars, events, histVars>>

\* Mutant: a cancelled thread waits at the second checkpoint instead of leaving.
CheckWaits(w) ==
    /\ \/ pc[w] = "check1" /\ Goto(w, IF job[w].id \in cancelled THEN "cancelling" ELSE "parse")
       \/ pc[w] = "check2" /\ job[w].id \notin cancelled /\ Goto(w, "finish")
    /\ UNCHANGED <<dbVars, lock, memVars, job, snap, reqVars, events, histVars>>

\* The two checkpoints, before and after the parse.
Check(w) ==
    /\ \/ pc[w] = "check1" /\ Goto(w, IF job[w].id \in cancelled THEN "cancelling" ELSE "parse")
       \/ pc[w] = "check2" /\ Goto(w, IF job[w].id \in cancelled THEN "cancelling" ELSE "finish")
    /\ UNCHANGED <<dbVars, lock, memVars, job, snap, reqVars, events, histVars>>

\* Mutant: the document is given the status of the task.
CancelCommitBoth(w) == pc[w] = "cancelling" /\ Settle(w, "cancelled", "cancelled")

CancelCommit(w) == pc[w] = "cancelling" /\ Settle(w, "cancelled", "failed")

Parse(w) ==
    /\ pc[w] = "parse"
    /\ Goto(w, "check2")
    /\ UNCHANGED <<dbVars, lock, memVars, job, snap, reqVars, events, histVars>>

ParseFail(w) == pc[w] = "parse" /\ Settle(w, "failed", "failed")

\* The write-back session selects the document again.
FinishRead(w) ==
    /\ pc[w] = "finish"
    /\ DocExists(job[w].doc)
    /\ snap' = [snap EXCEPT ![w] = doc[job[w].doc]]
    /\ Goto(w, "flush")
    /\ UNCHANGED <<dbVars, lock, memVars, job, reqVars, events, histVars>>

FinishMissing(w) ==
    /\ pc[w] = "finish"
    /\ ~DocExists(job[w].doc)
    /\ Settle(w, "failed", "failed")

Finished(w)    == WithStatus(snap[w], "done")
FinishDirty(w) == Finished(w) # snap[w]

\* build_index_for_course's first SELECT flushes the document: the write lock is
\* held from here through indexing and knowledge-point generation.
FinishFlush(w) ==
    /\ pc[w] = "flush"
    /\ FinishDirty(w) => lock = NoOne /\ DocExists(job[w].doc)
    /\ lock' = IF FinishDirty(w) THEN w ELSE lock
    /\ Goto(w, "commit")
    /\ UNCHANGED <<dbVars, memVars, job, snap, reqVars, events, histVars>>

\* Mutant: the final session is left open.
FinishUncommitted(w) ==
    /\ pc[w] = "commit"
    /\ lock \in {NoOne, w}
    /\ Exit(w)
    /\ UNCHANGED <<dbVars, lock, cancelled, reqVars, events, died, purged>>

FinishCommit(w) ==
    LET t == job[w].id IN
    /\ pc[w] = "commit"
    /\ lock \in {NoOne, w}
    /\ doc' = IF lock = w
              THEN [doc EXCEPT ![job[w].doc] = OrmMerge(@, snap[w], Finished(w))] ELSE doc
    /\ task' = IF TaskExists(t) THEN [task EXCEPT ![t] = Stamp(@, "success")] ELSE task
    /\ lock' = NoOne
    /\ Exit(w)
    /\ UNCHANGED <<chapters, cancelled, reqVars, events, died, purged>>

Dies(w) ==
    /\ Exit(w)
    /\ died' = died \cup {job[w].id}
    /\ UNCHANGED <<dbVars, lock, cancelled, reqVars, events, purged>>

\* "database is locked" after the 120 s of connect_args.timeout.
LockTimeout(w) ==
    /\ lock \notin {NoOne, w}
    /\ \/ pc[w] \in {"start", "load", "cancelling", "parse"}
       \/ pc[w] = "mark" /\ MarkDirty(w)
       \/ pc[w] = "finish" /\ ~DocExists(job[w].doc)
       \/ pc[w] = "flush" /\ FinishDirty(w)
       \/ pc[w] = "commit"
    /\ Dies(w)

\* StaleDataError: a row is gone between its SELECT and the flush of its UPDATE.
RowVanished(w) ==
    /\ lock = NoOne
    /\ \/ pc[w] \in {"start", "load"} /\ ~TaskExists(job[w].id)
       \/ pc[w] = "mark" /\ MarkDirty(w) /\ ~DocExists(job[w].doc)
       \/ /\ pc[w] \in {"cancelling", "parse"}
          /\ ~TaskExists(job[w].id) \/ ~DocExists(job[w].doc)
       \/ pc[w] = "finish" /\ ~DocExists(job[w].doc) /\ ~TaskExists(job[w].id)
       \/ pc[w] = "flush" /\ FinishDirty(w) /\ ~DocExists(job[w].doc)
       \/ pc[w] = "commit" /\ ~TaskExists(job[w].id)
    /\ Dies(w)

WorkerStep(w) ==
    \/ Pick(w) \/ Start(w) \/ Load(w) \/ LoadFail(w) \/ Mark(w) \/ Check(w)
    \/ CancelCommit(w) \/ Parse(w) \/ ParseFail(w) \/ FinishRead(w)
    \/ FinishMissing(w) \/ FinishFlush(w) \/ FinishCommit(w)
    \/ LockTimeout(w) \/ RowVanished(w)

----------------------------------------------------------------------------
(* POST /documents/{doc_id}/reprocess *)

ActiveOf(d) == {t \in TaskIds : IsActive(t) /\ task[t].doc = d}

\* _require_owned_document answers with the document's chapter, or with the
\* first chapter of the course for a document of the whole course.
OwnedChapter(d, c) ==
    IF doc[d].chapter # NoChapter \/ chapters = {} THEN c = doc[d].chapter
    ELSE c \in chapters /\ \A x \in chapters : c <= x

ReqLoad(r, d) ==
    /\ req[r].pc = "idle"
    /\ Owned(d)
    /\ \E c \in AnyChapter :
         /\ OwnedChapter(d, c)
         /\ req' = [req EXCEPT ![r] = Asked("loaded", d, doc[d], c, {})]
    /\ UNCHANGED <<dbVars, lock, memVars, wkVars, viewer, deleting, events, histVars>>

\* _reconcile_document_process_tasks selects the active tasks and keeps the stale
\* ones; the first UPDATE comes later, and whatever their status is by then they
\* fail, with the document of each that said "processing" when it was loaded.
StaleIn(ts) == {t \in ts : task[t].stale}

ReqScan(r) ==
    LET ts == StaleIn(ActiveOf(req[r].doc)) IN
    /\ req[r].pc = "loaded"
    /\ req' = [req EXCEPT ![r] = Asked(IF ts = {} THEN "check" ELSE "reconcile",
                                       req[r].doc, req[r].snap, req[r].chapter, ts)]
    /\ UNCHANGED <<dbVars, lock, memVars, wkVars, viewer, deleting, events, histVars>>

ReqReconcile(r) ==
    LET d == req[r].doc
        docFails == DocExists(d) /\ req[r].snap.status = "processing"
        seen == IF docFails THEN WithStatus(req[r].snap, "failed") ELSE req[r].snap
    IN
    /\ req[r].pc = "reconcile"
    /\ lock = NoOne
    /\ \A t \in req[r].stale : TaskExists(t)
    /\ task' = SetTasks(req[r].stale, "failed")
    /\ doc' = IF docFails THEN FailDocs({d}) ELSE doc
    /\ req' = [req EXCEPT ![r] = Asked("check", d, seen, req[r].chapter, {})]
    /\ UNCHANGED <<chapters, lock, memVars, wkVars, viewer, deleting, events, histVars>>

\* Look for an active task of the document: none, exactly one (reused), or
\* several (scalar_one_or_none raises, the request is a 500).
ReqCheck(r) ==
    LET ts == ActiveOf(req[r].doc)
        reusable == (\E t \in ts : ts = {t}) /\ req[r].snap.status # "processing"
        to(l) == Asked(l, req[r].doc, req[r].snap, req[r].chapter, {})
    IN
    /\ req[r].pc = "check"
    /\ \/ ts = {} /\ req' = [req EXCEPT ![r] = to("insert")]
       \/ ts # {} /\ reusable /\ req' = [req EXCEPT ![r] = to("reuse")]
       \/ ts # {} /\ ~reusable /\ req' = [req EXCEPT ![r] = NoReq]
    /\ UNCHANGED <<dbVars, lock, memVars, wkVars, viewer, deleting, events, histVars>>

\* Mutant: a request that finds a running task dispatches it once more.
ReqReuseAgain(r) ==
    /\ req[r].pc = "reuse"
    /\ lock = NoOne
    /\ DocExists(req[r].doc)
    /\ doc' = [doc EXCEPT ![req[r].doc] = WithStatus(@, "processing")]
    /\ req' = [req EXCEPT ![r] = NoReq]
    /\ \E w \in Workers, t \in ActiveOf(req[r].doc) :
         /\ ~Busy(w)
         /\ Goto(w, "queued")
         /\ job' = [job EXCEPT ![w] = [id |-> t, doc |-> NoDoc, chapter |-> NoChapter]]
    /\ UNCHANGED <<task, chapters, lock, memVars, snap, viewer, deleting, events, histVars>>

\* The request that found a running task puts the document back to "processing".
ReqReuse(r) ==
    /\ req[r].pc = "reuse"
    /\ lock = NoOne
    /\ DocExists(req[r].doc)
    /\ doc' = [doc EXCEPT ![req[r].doc] = WithStatus(@, "processing")]
    /\ req' = [req EXCEPT ![r] = NoReq]
    /\ UNCHANGED <<task, chapters, lock, memVars, wkVars, viewer, deleting, events, histVars>>

\* The chapter the new task carries, and the document takes if it has none.
TaskChapters(r) ==
    IF req[r].chapter # NoChapter \/ req[r].snap.links = {}
    THEN {req[r].chapter} ELSE req[r].snap.links

\* The document row as the request writes it.
Inserted(r, c) ==
    LET old == req[r].snap
    IN  Relinked(WithStatus(old, "processing"), old.links,
                 IF old.chapter = NoChapter THEN c ELSE old.chapter)

ReqInsert(r) ==
    LET d == req[r].doc
        old == req[r].snap
    IN
    /\ req[r].pc = "insert"
    /\ lock = NoOne
    /\ \E c \in TaskChapters(r), t \in TaskIds, w \in Workers :
         /\ IsNextId(t)
         /\ ~Busy(w)
         /\ Inserted(r, c) # old => DocExists(d)
         /\ doc' = IF DocExists(d)
                   THEN [doc EXCEPT ![d] = OrmMerge(@, old, Inserted(r, c))] ELSE doc
         /\ task' = [task EXCEPT ![t] =
                       [status |-> "pending", doc |-> d, chapter |-> c, stale |-> FALSE]]
         /\ Goto(w, "queued")
         /\ job' = [job EXCEPT ![w] = [id |-> t, doc |-> NoDoc, chapter |-> NoChapter]]
    /\ req' = [req EXCEPT ![r] = NoReq]
    /\ UNCHANGED <<chapters, lock, memVars, snap, viewer, deleting, events, histVars>>

\* The write of a request fails (lock timeout or vanished row): a 500, no change.
ReqAbort(r) ==
    /\ req[r].pc \in {"reconcile", "reuse", "insert"}
    /\ \/ lock # NoOne
       \/ req[r].pc = "reconcile" /\ \E t \in req[r].stale : ~TaskExists(t)
       \/ req[r].pc # "reconcile" /\ ~DocExists(req[r].doc)
    /\ req' = [req EXCEPT ![r] = NoReq]
    /\ UNCHANGED <<dbVars, lock, memVars, wkVars, viewer, deleting, events, histVars>>

----------------------------------------------------------------------------
(* The other handlers *)

\* POST /documents/tasks/{task_id}/cancel: memory only; the mark is never removed.
Cancel(t) ==
    /\ IsActive(t)
    /\ cancelled' = cancelled \cup {t}
    /\ told' = [w \in Workers |-> told[w] \/ (job[w].id = t /\ pc[w] \in Early)]
    /\ UNCHANGED <<dbVars, lock, running, wkVars, reqVars, events, died, purged>>

\* GET /chapters/{chapter_id}/documents: select the active tasks that carry the
\* chapter, remember the documents of those that are not stale.
ListBegin(c) ==
    LET ts == {t \in TaskIds : IsActive(t) /\ task[t].chapter = c}
        old == StaleIn(ts)
        docsOf(S) == {task[t].doc : t \in S}
    IN
    /\ CountEvent
    /\ viewer.pc = "idle"
    /\ c \in chapters
    /\ viewer' = View(IF old = {} THEN "listed" ELSE "reconcile",
                      c, NoDoc, old, docsOf(ts \ old), docsOf(old))
    /\ UNCHANGED <<dbVars, lock, memVars, wkVars, req, deleting, histVars>>

\* GET /documents/{doc_id}: the document first, its tasks later.
DetailBegin(d) ==
    /\ CountEvent
    /\ viewer.pc = "idle"
    /\ Owned(d)
    /\ viewer' = View("detail", NoChapter, d, {}, {}, {d} \cap Processing)
    /\ UNCHANGED <<dbVars, lock, memVars, wkVars, req, deleting, histVars>>

DetailScan ==
    LET ts == ActiveOf(viewer.doc)
        old == StaleIn(ts)
        to(l) == View(l, NoChapter, viewer.doc, old, {}, viewer.hit)
    IN
    /\ viewer.pc = "detail"
    /\ \/ old # {} /\ viewer' = to("reconcile")
       \/ ts = {} /\ viewer.hit # {} /\ viewer' = to("fix")
       \/ old = {} /\ (ts # {} \/ viewer.hit = {}) /\ viewer' = NoView
    /\ UNCHANGED <<dbVars, lock, memVars, wkVars, req, deleting, events, histVars>>

\* The listing selects the documents of the stale tasks after the first UPDATE;
\* the detail page has its document in the session since it began.
ViewReconcile ==
    LET listing == viewer.doc = NoDoc IN
    /\ viewer.pc = "reconcile"
    /\ lock = NoOne
    /\ \A t \in viewer.stale : TaskExists(t)
    /\ task' = SetTasks(viewer.stale, "failed")
    /\ doc' = FailDocs({d \in viewer.hit : DocExists(d) /\ (listing => d \in Processing)})
    /\ viewer' = IF listing THEN View("listed", viewer.chapter, NoDoc, {}, viewer.active, {})
                            ELSE NoView
    /\ UNCHANGED <<chapters, lock, memVars, wkVars, req, deleting, events, histVars>>

\* A listed document that says "processing" and has no task among the active
\* ones is an orphan, to be failed.
Orphans ==
    {d \in Docs : /\ viewer.chapter \in doc[d].links \cup {doc[d].chapter}
                  /\ d \in Processing
                  /\ d \notin viewer.active}

ListRead ==
    /\ viewer.pc = "listed"
    /\ viewer' = IF Orphans = {} THEN NoView
                 ELSE View("fix", NoChapter, NoDoc, {}, {}, Orphans)
    /\ UNCHANGED <<dbVars, lock, memVars, wkVars, req, deleting, events, histVars>>

ViewFix ==
    /\ viewer.pc = "fix"
    /\ lock = NoOne
    /\ \A d \in viewer.hit : DocExists(d)
    /\ doc' = FailDocs(viewer.hit)
    /\ viewer' = NoView
    /\ UNCHANGED <<task, chapters, lock, memVars, wkVars, req, deleting, events, histVars>>

\* Its write fails (lock timeout or vanished row): a 500, no change.
ViewAbort ==
    /\ \/ viewer.pc = "reconcile" /\ \E t \in viewer.stale : lock # NoOne \/ ~TaskExists(t)
       \/ viewer.pc = "fix" /\ \E d \in viewer.hit : lock # NoOne \/ ~DocExists(d)
    /\ viewer' = NoView
    /\ UNCHANGED <<dbVars, lock, memVars, wkVars, req, deleting, events, histVars>>

\* PATCH /documents/{doc_id} with chapter_ids: replaces the links and the main chapter.
Patch(d) ==
    /\ CountEvent
    /\ lock = NoOne
    /\ Owned(d)
    /\ \E S \in SUBSET chapters :
         \E c \in IF S = {} THEN {NoChapter} ELSE S :
           doc' = [doc EXCEPT ![d] = Relinked(@, S, c)]
    /\ UNCHANGED <<task, chapters, lock, memVars, wkVars, reqVars, histVars>>

\* DELETE /documents/{doc_id}: flushes the DELETE, rebuilds the course index with
\* the write lock held, then commits.  The document's tasks stay.
DeleteBegin(d) ==
    /\ CountEvent
    /\ lock = NoOne
    /\ Owned(d)
    /\ lock' = Deleter
    /\ deleting' = d
    /\ UNCHANGED <<dbVars, memVars, wkVars, req, viewer, histVars>>

DeleteCommit ==
    /\ lock = Deleter
    /\ doc' = [doc EXCEPT ![deleting] = NoDocRow]
    /\ lock' = NoOne
    /\ deleting' = NoDoc
    /\ UNCHANGED <<task, chapters, memVars, wkVars, req, viewer, events, histVars>>

\* Rows of these chapters go; with all, also the documents of the whole course.
Purge(cs, kept) ==
    LET gone == {t \in TaskIds : TaskExists(t) /\ task[t].chapter \in cs}
    IN
    /\ task' = [t \in TaskIds |-> IF t \in gone THEN NoTaskRow ELSE task[t]]
    /\ doc' = [d \in Docs |-> IF doc[d].chapter \in cs \cup kept THEN NoDocRow ELSE doc[d]]
    /\ purged' = (purged \/ \E w \in Workers : Busy(w) /\ job[w].id \in gone)

\* DELETE /chapters/{chapter_id}: cleanup_chapter_related_data and the chapter row.
DeleteChapter(c) ==
    /\ CountEvent
    /\ lock = NoOne
    /\ c \in chapters
    /\ Purge({c}, {})
    /\ chapters' = chapters \ {c}
    /\ UNCHANGED <<lock, memVars, wkVars, reqVars, told, died>>

\* DELETE /courses/{course_id}: tasks without a chapter survive their course.
DeleteCourse ==
    /\ CountEvent
    /\ lock = NoOne
    /\ chapters # {}
    /\ Purge(chapters, {NoChapter})
    /\ chapters' = {}
    /\ UNCHANGED <<lock, memVars, wkVars, reqVars, told, died>>

\* POST /courses/{course_id}/clear-knowledge: documents go, tasks stay.
ClearKnowledge ==
    /\ CountEvent
    /\ lock = NoOne
    /\ doc' = [d \in Docs |-> IF doc[d].chapter \in chapters \cup {NoChapter}
                              THEN NoDocRow ELSE doc[d]]
    /\ UNCHANGED <<task, chapters, lock, memVars, wkVars, reqVars, histVars>>

----------------------------------------------------------------------------
(* Time and crashes *)

\* Half an hour passes without an UPDATE of an active row.
GrowStale(t) ==
    /\ CountEvent
    /\ IsActive(t)
    /\ ~task[t].stale
    /\ task' = [task EXCEPT ![t] = Aged(@)]
    /\ UNCHANGED <<doc, chapters, lock, memVars, wkVars, reqVars, histVars>>

\* Mutant: only the running tasks are reset at startup.
ResetRunning ==
    LET ts == {t \in TaskIds : task[t].status = "running"}
        ds == {task[t].doc : t \in ts}
    IN
    /\ task' = SetTasks(ts, "cancelled")
    /\ doc' = FailDocs(ds \cap Processing)

\* Mutant: every task is reset at startup.
ResetAll ==
    LET ts == {t \in TaskIds : TaskExists(t)}
        ds == {task[t].doc : t \in ts}
    IN
    /\ task' = SetTasks(ts, "cancelled")
    /\ doc' = FailDocs(ds \cap Processing)

\* The process dies and starts again: memory is lost, open transactions roll
\* back, and reset_document_process_tasks_on_startup runs before any request.
ResetTasks ==
    LET ts == {t \in TaskIds : IsActive(t)}
        ds == {task[t].doc : t \in ts}
    IN
    /\ task' = SetTasks(ts, "cancelled")
    /\ doc' = FailDocs(ds \cap Processing)

Restart ==
    /\ CountEvent
    /\ ResetTasks
    /\ lock' = NoOne
    /\ running' = {} /\ cancelled' = {}
    /\ pc' = [w \in Workers |-> "idle"]
    /\ job' = [w \in Workers |-> NoJob]
    /\ snap' = [w \in Workers |-> NoDocRow]
    /\ req' = [r \in Requests |-> NoReq]
    /\ viewer' = NoView
    /\ deleting' = NoDoc
    /\ told' = [w \in Workers |-> FALSE]
    /\ died' = {}
    /\ purged' = FALSE
    /\ UNCHANGED chapters

----------------------------------------------------------------------------
Next ==
    \/ \E w \in Workers : WorkerStep(w)
    \/ \E r \in Requests :
         \/ \E d \in Docs : ReqLoad(r, d)
         \/ ReqScan(r) \/ ReqReconcile(r) \/ ReqCheck(r)
         \/ ReqReuse(r) \/ ReqInsert(r) \/ ReqAbort(r)
    \/ \E t \in TaskIds : Cancel(t) \/ GrowStale(t)
    \/ \E c \in Chapters : ListBegin(c) \/ DeleteChapter(c)
    \/ \E d \in Docs : DetailBegin(d) \/ Patch(d) \/ DeleteBegin(d)
    \/ DetailScan \/ ListRead \/ ViewReconcile \/ ViewFix \/ ViewAbort
    \/ DeleteCommit \/ DeleteCourse \/ ClearKnowledge
    \/ Restart

Spec == Init /\ [][Next]_vars

\* A thread of the pool keeps running, PDF extraction terminates, and the delete
\* handler reaches its commit.  Nothing makes a user act or the process crash.
Fairness ==
    /\ \A w \in Workers : WF_vars(WorkerStep(w))
    /\ WF_vars(DeleteCommit)

FairSpec == Spec /\ Fairness
----------------------------------------------------------------------------
(* Properties *)

\* Every variable keeps the shape the tables, the sets and the threads have.
TypeOK ==
    /\ task \in [TaskIds -> TaskRow]
    /\ doc \in [Docs -> DocRow]
    /\ chapters \subseteq Chapters
    /\ lock \in Workers \cup {NoOne, Deleter}
    /\ running \subseteq TaskIds
    /\ cancelled \subseteq TaskIds
    /\ pc \in [Workers -> Pcs]
    /\ job \in [Workers -> [id : TaskIds \cup {0}, doc : Docs \cup {NoDoc}, chapter : AnyChapter]]
    /\ \A w \in Workers : Busy(w) <=> job[w].id # 0
    /\ snap \in [Workers -> DocRow]
    /\ req \in [Requests -> [pc : {"idle", "loaded", "reconcile", "check", "reuse", "insert"},
                             doc : Docs \cup {NoDoc}, snap : DocRow, chapter : AnyChapter,
                             stale : SUBSET TaskIds]]
    /\ viewer \in [pc : {"idle", "detail", "reconcile", "listed", "fix"},
                   chapter : AnyChapter, doc : Docs \cup {NoDoc}, stale : SUBSET TaskIds,
                   active : SUBSET (Docs \cup {NoDoc}), hit : SUBSET (Docs \cup {NoDoc})]
    /\ deleting \in Docs \cup {NoDoc}
    /\ events \in 0 .. MaxEvents
    /\ told \in [Workers -> BOOLEAN]
    /\ died \subseteq TaskIds
    /\ purged \in BOOLEAN

\* What GET /documents/tasks/{task_id} answers: memory first, then the row.
Reported(t) ==
    CASE t \in cancelled -> "cancelled"
      [] t \notin cancelled /\ t \notin running /\ IsActive(t) -> "cancelled"
      [] OTHER -> task[t].status

\* The comment in get_reprocess_teacher_document_task: a task that was cancelled, or
\* that a restart left behind, is never shown as being processed.  Whatever the
\* page shows as pending or running has a live thread past its start.
ShownProcessingIsAlive ==
    \A t \in TaskIds : Reported(t) \in Active =>
        \E w \in Workers : job[w].id = t /\ pc[w] \in Started

\* No row is left active without anybody to finish it, except by a cancel that
\* was seen before the start or by a thread that ended with an exception: the
\* startup reset and every return of the worker account for all the others.
ActiveTaskHasOwner ==
    \A t \in TaskIds : IsActive(t) =>
        \/ \E w \in Workers : Busy(w) /\ job[w].id = t
        \/ t \in cancelled \cup died

\* A cancel acknowledged before the last checkpoint is honoured: the thread never
\* gets to write the parsed text, whatever else happens to its rows meanwhile.
CancelHonoured == \A w \in Workers : told[w] => pc[w] \notin Late

\* As long as no chapter is deleted under a live thread, the id of a new task is
\* one no thread is working on, although SQLite hands deleted ids out again.
OneThreadPerTask ==
    ~purged => \A v, w \in Workers : Busy(v) /\ job[v].id = job[w].id => v = w

\* The write lock is held by a thread only from its flush to its commit, never
\* while it parses, and by the delete handler only while it has a document.
LockIsScoped ==
    /\ \A w \in Workers : lock = w => pc[w] = "commit"
    /\ lock = Deleter <=> deleting # NoDoc

\* The tasks that some handler read as stale and is about to fail.
Reconciling == viewer.stale \cup UNION {req[r].stale : r \in Requests}

\* A success or a cancellation in the table is final while ids are not shared:
\* no second thread overwrites it, and the stale-task reconciliation does only
\* with a task it had read before the outcome was written.
OutcomeIsFinal ==
    [][\A t \in TaskIds :
         task[t].status \in {"success", "cancelled"} /\ ~purged'
            => \/ task'[t].status \in {task[t].status, "none"}
               \/ t \in Reconciling /\ task'[t].status = "failed"]_vars

\* Every dispatched thread ends, by finishing, by a checkpoint or by an error:
\* a held write lock cannot block it for ever.
ThreadEnds == \A w \in Workers : Busy(w) ~> ~Busy(w)

\* Every task created is eventually settled in the table, unless it was
\* cancelled or its thread died.
TaskSettles ==
    \A t \in TaskIds : IsActive(t) ~> (~IsActive(t) \/ t \in cancelled \cup died)

\* What the rest of the system may rely on: seen from its row and its thread, a
\* document task is a task of TaskLife.  Only its own thread starts it or makes
\* it a success, whatever pages, requests, deletions and restarts do meanwhile.
Life == INSTANCE TaskLife WITH
            Threads <- Workers, MaxId <- MaxTask,
            status <- [t \in TaskIds |-> task[t].status],
            work <- [w \in Workers |-> job[w].id]

ImplementsTaskLife == Life!LifeSpec

----------------------------------------------------------------------------
(* What the source says and the code does not do *)

\* "后续解析与索引构建不会长时间占用 SQLite": no thread builds the index (after
\* the flush, before the commit) with the write lock in its hands.
IndexingHoldsNoLock == \A w \in Workers : pc[w] = "commit" => lock # w

\* "未检测到运行中的处理任务，已自动回收为失败状态": a page fails a document only if
\* no task of it is pending or running.
RecycledHasNoTask ==
    [][ViewFix => \A d \in Docs : doc'[d] # doc[d] => ActiveOf(d) = {}]_vars

=============================================================================
