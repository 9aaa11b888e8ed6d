---------------------------- MODULE DocTaskProofs ----------------------------
(***************************************************************************)
(* Theorems about DocTask, for every set of documents, chapters, threads   *)
(* and requests and every bound.                                           *)
(***************************************************************************)
EXTENDS DocTask, TLAPS

TaskStatuses == {"none", "pending", "running", "success", "failed", "cancelled"}
DocStatuses  == {"none", "uploaded", "processing", "done", "failed"}

JobType == [id : TaskIds \cup {0}, doc : Docs \cup {NoDoc}, chapter : AnyChapter]
ReqType == [pc : {"idle", "loaded", "reconcile", "check", "reuse", "insert"},
            doc : Docs \cup {NoDoc}, snap : DocRow, chapter : AnyChapter,
            stale : SUBSET TaskIds]
ViewType == [pc : {"idle", "detail", "reconcile", "listed", "fix"},
             chapter : AnyChapter, doc : Docs \cup {NoDoc}, stale : SUBSET TaskIds,
             active : SUBSET (Docs \cup {NoDoc}), hit : SUBSET (Docs \cup {NoDoc})]

----------------------------------------------------------------------------
(* Rows *)

\* A flush yields a row: whatever was loaded and whatever was written meanwhile.
LEMMA OrmMergeType ==
    ASSUME NEW row \in DocRow, NEW old \in DocRow, NEW new \in DocRow
    PROVE  OrmMerge(row, old, new) \in DocRow
BY DEF OrmMerge, DocRow

\* A flush overwrites exactly the columns the session changed: a column it left
\* alone keeps what another session has committed since the row was loaded.
LEMMA OrmMergeColumns ==
    ASSUME NEW row \in DocRow, NEW old \in DocRow, NEW new \in DocRow,
           NEW f \in {"status", "chapter", "links"}
    PROVE  /\ new[f] = old[f] => OrmMerge(row, old, new)[f] = row[f]
           /\ new[f] # old[f] => OrmMerge(row, old, new)[f] = new[f]
BY DEF OrmMerge, DocRow

LEMMA StampType ==
    ASSUME NEW row \in TaskRow, NEW s \in TaskStatuses
    PROVE  /\ Stamp(row, s) \in TaskRow
           /\ Stamp(row, s).status = s
BY DEF Stamp, TaskRow, TaskStatuses

LEMMA AgedType == ASSUME NEW row \in TaskRow PROVE Aged(row) \in TaskRow
BY DEF Aged, TaskRow

LEMMA WithStatusType ==
    ASSUME NEW row \in DocRow, NEW s \in DocStatuses
    PROVE  /\ WithStatus(row, s) \in DocRow
           /\ WithStatus(row, s).status = s
BY DEF WithStatus, DocRow, DocStatuses

LEMMA RelinkedType ==
    ASSUME NEW row \in DocRow, NEW S \in SUBSET Chapters, NEW c \in AnyChapter
    PROVE  Relinked(row, S, c) \in DocRow
BY DEF Relinked, DocRow

LEMMA AskedType ==
    ASSUME NEW l \in {"idle", "loaded", "reconcile", "check", "reuse", "insert"},
           NEW d \in Docs \cup {NoDoc}, NEW s \in DocRow, NEW c \in AnyChapter,
           NEW ts \in SUBSET TaskIds
    PROVE  Asked(l, d, s, c, ts) \in ReqType
BY DEF Asked, ReqType

LEMMA ViewIsTyped ==
    ASSUME NEW l \in {"idle", "detail", "reconcile", "listed", "fix"},
           NEW c \in AnyChapter, NEW d \in Docs \cup {NoDoc}, NEW ts \in SUBSET TaskIds,
           NEW active \in SUBSET (Docs \cup {NoDoc}), NEW hit \in SUBSET (Docs \cup {NoDoc})
    PROVE  View(l, c, d, ts, active, hit) \in ViewType
BY DEF View, ViewType

LEMMA EmptyRows == NoTaskRow \in TaskRow /\ NoDocRow \in DocRow /\ NoJob \in JobType
                   /\ NoReq \in ReqType /\ NoView \in ViewType
<1>1. NoTaskRow \in TaskRow /\ NoDocRow \in DocRow /\ NoJob \in JobType
    BY DEF NoTaskRow, NoDocRow, NoJob, TaskRow, DocRow, JobType,
           AnyChapter, NoChapter, TaskIds
<1>2. NoChapter \in AnyChapter
    BY DEF AnyChapter
<1>. QED
    BY <1>1, <1>2, AskedType, ViewIsTyped DEF NoReq, NoView

\* The id of a new row is one that no row has.
LEMMA NextIdIsFree ==
    ASSUME NEW t, IsNextId(t), ConstantsAssumption
    PROVE  t \in TaskIds /\ ~TaskExists(t)
BY DEF IsNextId, TaskIds, ConstantsAssumption
----------------------------------------------------------------------------
(* Type correctness *)

LEMMA BusyJob ==
    ASSUME TypeOK, NEW w \in Workers
    PROVE  /\ job[w] \in JobType
           /\ snap[w] \in DocRow
           /\ pc[w] # "idle" => job[w].id \in TaskIds /\ task[job[w].id] \in TaskRow
BY DEF TypeOK, JobType, Busy

\* What a thread that ends leaves behind has the right type.
LEMMA ExitType ==
    ASSUME TypeOK, NEW w \in Workers, Exit(w)
    PROVE  /\ pc' \in [Workers -> Pcs]
           /\ job' \in [Workers -> JobType]
           /\ \A v \in Workers : pc'[v] # "idle" <=> job'[v].id # 0
           /\ snap' \in [Workers -> DocRow]
           /\ told' \in [Workers -> BOOLEAN]
           /\ running' \subseteq TaskIds
<1>1. NoJob.id = 0
    BY DEF NoJob
<1>. QED
    BY <1>1, EmptyRows DEF TypeOK, Exit, Goto, Pcs, JobType, Busy

LEMMA SettleType ==
    ASSUME TypeOK, NEW w \in Workers, NEW ts \in TaskStatuses, NEW ds \in DocStatuses,
           Settle(w, ts, ds)
    PROVE  TypeOK'
<1>1. task' \in [TaskIds -> TaskRow]
    BY StampType DEF Settle, TypeOK
<1>2. doc' \in [Docs -> DocRow]
    BY WithStatusType DEF Settle, TypeOK
<1>. QED
    BY <1>1, <1>2, ExitType DEF Settle, TypeOK, JobType, reqVars, Busy

\* A thread that moves on without touching its job keeps the types.
LEMMA GotoType ==
    ASSUME TypeOK, NEW w \in Workers, NEW l \in Pcs \ {"idle"}, Goto(w, l),
           pc[w] # "idle", UNCHANGED job
    PROVE  /\ pc' \in [Workers -> Pcs]
           /\ \A v \in Workers : pc'[v] # "idle" <=> job'[v].id # 0
BY DEF TypeOK, Goto, Busy

LEMMA WorkerStepType ==
    ASSUME TypeOK, NEW w \in Workers, WorkerStep(w)
    PROVE  TypeOK'
<1>. USE DEF reqVars, histVars, memVars, dbVars, wkVars, Busy
<1>0. /\ job[w] \in JobType /\ snap[w] \in DocRow
      /\ pc[w] # "idle" => job[w].id \in TaskIds /\ task[job[w].id] \in TaskRow
    BY BusyJob
<1>1. CASE Pick(w)
    <2>1. CASE ~TaskExists(job[w].id) \/ job[w].id \in cancelled
        BY <1>1, <2>1, ExitType DEF Pick, TypeOK, JobType
    <2>2. CASE ~(~TaskExists(job[w].id) \/ job[w].id \in cancelled)
        <3>. DEFINE j == [id |-> job[w].id, doc |-> task[job[w].id].doc,
                           chapter |-> task[job[w].id].chapter]
        <3>2. j \in JobType /\ j.id = job[w].id /\ j.id # 0
            BY <1>0, <1>1 DEF JobType, TaskRow, Pick, TaskIds
        <3>3. Goto(w, "start") /\ job' = [job EXCEPT ![w] = j]
            BY <1>1, <2>2 DEF Pick
        <3>. QED
            BY <1>1, <2>2, <3>2, <3>3 DEF Pick, Goto, TypeOK, Pcs, JobType
    <2>. QED
        BY <2>1, <2>2
<1>2. CASE Start(w)
    <2>1. task' \in [TaskIds -> TaskRow]
        BY <1>2, StampType DEF Start, TypeOK, TaskStatuses
    <2>. QED
        BY <1>0, <1>2, <2>1, GotoType DEF Start, TypeOK, Pcs
<1>3. CASE Load(w)
    <2>1. job[w].doc \in Docs => doc[job[w].doc] \in DocRow
        BY DEF TypeOK
    <2>. QED
        BY <1>0, <1>3, <2>1, GotoType DEF Load, JoinFinds, DocExists, TypeOK, Pcs, JobType
<1>4. CASE LoadFail(w)
    <2>1. task' \in [TaskIds -> TaskRow]
        BY <1>4, StampType DEF LoadFail, TypeOK, TaskStatuses
    <2>. QED
        BY <1>4, <2>1, ExitType DEF LoadFail, TypeOK, JobType
<1>5. CASE Mark(w)
    <2>1. Marked(w) \in DocRow
        BY <1>0, WithStatusType DEF Marked, DocStatuses
    <2>2. doc' \in [Docs -> DocRow]
        BY <1>0, <1>5, <2>1, OrmMergeType DEF Mark, TypeOK
    <2>3. snap' \in [Workers -> DocRow]
        BY <1>5, EmptyRows DEF Mark, TypeOK
    <2>. QED
        BY <1>5, <2>2, <2>3, GotoType DEF Mark, TypeOK, Pcs
<1>6. CASE Check(w)
    BY <1>6, GotoType DEF Check, TypeOK, Pcs
<1>7. CASE CancelCommit(w)
    BY <1>7, SettleType DEF CancelCommit, TaskStatuses, DocStatuses
<1>8. CASE Parse(w)
    BY <1>8, GotoType DEF Parse, TypeOK, Pcs
<1>9. CASE ParseFail(w)
    BY <1>9, SettleType DEF ParseFail, TaskStatuses, DocStatuses
<1>10. CASE FinishRead(w)
    <2>1. DocExists(job[w].doc) => doc[job[w].doc] \in DocRow
        BY DEF TypeOK, DocExists
    <2>. QED
        BY <1>0, <1>10, <2>1, GotoType DEF FinishRead, TypeOK, Pcs
<1>11. CASE FinishMissing(w)
    BY <1>11, SettleType DEF FinishMissing, TaskStatuses, DocStatuses
<1>12. CASE FinishFlush(w)
    <2>1. lock' \in Workers \cup {NoOne, Deleter}
        BY <1>12 DEF FinishFlush, TypeOK
    <2>. QED
        BY <1>12, <2>1, GotoType DEF FinishFlush, TypeOK, Pcs
<1>13. CASE FinishCommit(w)
    <2>1. Finished(w) \in DocRow
        BY <1>0, WithStatusType DEF Finished, DocStatuses
    <2>2. doc' \in [Docs -> DocRow]
        BY <1>0, <1>13, <2>1, OrmMergeType DEF FinishCommit, TypeOK
    <2>3. task' \in [TaskIds -> TaskRow]
        BY <1>13, StampType DEF FinishCommit, TypeOK, TaskStatuses
    <2>. QED
        BY <1>13, <2>2, <2>3, ExitType DEF FinishCommit, TypeOK, JobType
<1>14. ASSUME Dies(w), pc[w] # "idle" PROVE TypeOK'
    BY <1>0, <1>14, ExitType DEF Dies, TypeOK, JobType
<1>15. CASE LockTimeout(w)
    BY <1>14, <1>15 DEF LockTimeout
<1>16. CASE RowVanished(w)
    BY <1>14, <1>16 DEF RowVanished
<1>. QED
    BY <1>1, <1>2, <1>3, <1>4, <1>5, <1>6, <1>7, <1>8, <1>9, <1>10, <1>11, <1>12,
       <1>13, <1>15, <1>16 DEF WorkerStep

\* The helpers that rewrite several rows at once.
LEMMA ManyRowsType ==
    ASSUME TypeOK
    PROVE  /\ \A ts, s : s \in TaskStatuses => SetTasks(ts, s) \in [TaskIds -> TaskRow]
           /\ \A ds : FailDocs(ds) \in [Docs -> DocRow]
BY StampType, WithStatusType DEF TypeOK, SetTasks, FailDocs, DocStatuses

\* What one reprocess request can do.
RequestStep(r) ==
    \/ \E d \in Docs : ReqLoad(r, d)
    \/ ReqScan(r) \/ ReqReconcile(r) \/ ReqCheck(r)
    \/ ReqReuse(r) \/ ReqInsert(r) \/ ReqAbort(r)

LEMMA RequestStepType ==
    ASSUME TypeOK, ConstantsAssumption, NEW r \in Requests, RequestStep(r)
    PROVE  TypeOK'
<1>. USE DEF reqVars, histVars, memVars, dbVars, wkVars, Busy
<1>0. req[r] \in ReqType /\ req[r].snap \in DocRow
    BY DEF TypeOK, ReqType
<1>1. ASSUME NEW d \in Docs, ReqLoad(r, d) PROVE TypeOK'
    <2>1. PICK c \in AnyChapter : req' = [req EXCEPT ![r] = Asked("loaded", d, doc[d], c, {})]
        BY <1>1 DEF ReqLoad
    <2>2. Asked("loaded", d, doc[d], c, {}) \in ReqType
        BY AskedType DEF TypeOK
    <2>. QED
        BY <1>1, <2>1, <2>2 DEF ReqLoad, TypeOK, ReqType
<1>2. CASE ReqScan(r)
    <2>1. \A ts \in SUBSET TaskIds, l \in {"check", "reconcile"} :
            Asked(l, req[r].doc, req[r].snap, req[r].chapter, ts) \in ReqType
        BY <1>0, AskedType DEF ReqType
    <2>2. StaleIn(ActiveOf(req[r].doc)) \in SUBSET TaskIds
        BY DEF StaleIn, ActiveOf
    <2>3. \E x \in ReqType : req' = [req EXCEPT ![r] = x]
        BY <1>2, <2>1, <2>2 DEF ReqScan
    <2>. QED
        BY <1>2, <2>3 DEF ReqScan, TypeOK, ReqType
<1>3. CASE ReqReconcile(r)
    <2>1. task' \in [TaskIds -> TaskRow]
        BY <1>3, ManyRowsType DEF ReqReconcile, TaskStatuses
    <2>2. doc' \in [Docs -> DocRow]
        BY <1>3, ManyRowsType DEF ReqReconcile, TypeOK
    <2>3. WithStatus(req[r].snap, "failed") \in DocRow
        BY <1>0, WithStatusType DEF DocStatuses
    <2>4. PICK s \in DocRow :
            req' = [req EXCEPT ![r] = Asked("check", req[r].doc, s, req[r].chapter, {})]
        BY <1>0, <1>3, <2>3 DEF ReqReconcile
    <2>5. Asked("check", req[r].doc, s, req[r].chapter, {}) \in ReqType
        BY <1>0, AskedType DEF ReqType
    <2>6. req' \in [Requests -> ReqType]
        BY <2>4, <2>5 DEF TypeOK, ReqType
    <2>7. UNCHANGED <<chapters, lock, memVars, wkVars, viewer, deleting, events, histVars>>
        BY <1>3 DEF ReqReconcile
    <2>. QED
        BY <2>1, <2>2, <2>6, <2>7 DEF TypeOK, ReqType
<1>4. CASE ReqCheck(r)
    <2>1. \A l \in {"insert", "reuse"} :
            Asked(l, req[r].doc, req[r].snap, req[r].chapter, {}) \in ReqType
        BY <1>0, AskedType DEF ReqType
    <2>2. \E x \in ReqType : req' = [req EXCEPT ![r] = x]
        BY <1>4, <2>1, EmptyRows DEF ReqCheck
    <2>. QED
        BY <1>4, <2>2 DEF ReqCheck, TypeOK, ReqType
<1>5. CASE ReqReuse(r)
    <2>1. doc' \in [Docs -> DocRow]
        BY <1>5, WithStatusType DEF ReqReuse, TypeOK, DocStatuses
    <2>. QED
        BY <1>5, <2>1, EmptyRows DEF ReqReuse, TypeOK, ReqType
<1>6. CASE ReqInsert(r)
    <2>1. PICK c \in TaskChapters(r), t \in TaskIds, w \in Workers :
            /\ doc' = IF DocExists(req[r].doc)
                      THEN [doc EXCEPT ![req[r].doc] =
                              OrmMerge(@, req[r].snap, Inserted(r, c))] ELSE doc
            /\ task' = [task EXCEPT ![t] = [status |-> "pending", doc |-> req[r].doc,
                                            chapter |-> c, stale |-> FALSE]]
            /\ Goto(w, "queued")
            /\ job' = [job EXCEPT ![w] = [id |-> t, doc |-> NoDoc, chapter |-> NoChapter]]
        BY <1>6 DEF ReqInsert
    <2>2. c \in AnyChapter
        BY <1>0 DEF TaskChapters, ReqType, DocRow, AnyChapter
    <2>3. Inserted(r, c) \in DocRow
        <3>1. WithStatus(req[r].snap, "processing") \in DocRow
            BY <1>0, WithStatusType DEF DocStatuses
        <3>2. /\ req[r].snap.links \in SUBSET Chapters
              /\ (IF req[r].snap.chapter = NoChapter THEN c ELSE req[r].snap.chapter)
                    \in AnyChapter
            BY <1>0, <2>2 DEF DocRow
        <3>. QED
            BY <3>1, <3>2, RelinkedType DEF Inserted
    <2>4. doc' \in [Docs -> DocRow]
        BY <1>0, <2>1, <2>3, OrmMergeType DEF TypeOK
    <2>5. [status |-> "pending", doc |-> req[r].doc, chapter |-> c, stale |-> FALSE] \in TaskRow
        BY <1>0, <2>2 DEF TaskRow, ReqType
    <2>6. task' \in [TaskIds -> TaskRow]
        BY <2>1, <2>5 DEF TypeOK
    <2>7. [id |-> t, doc |-> NoDoc, chapter |-> NoChapter] \in JobType /\ t # 0
        BY DEF JobType, AnyChapter, TaskIds
    <2>8. /\ pc' \in [Workers -> Pcs] /\ job' \in [Workers -> JobType]
          /\ \A v \in Workers : pc'[v] # "idle" <=> job'[v].id # 0
        BY <2>1, <2>7 DEF Goto, TypeOK, Pcs, JobType
    <2>. QED
        BY <1>6, <2>4, <2>6, <2>8, EmptyRows DEF ReqInsert, TypeOK, ReqType, JobType
<1>7. CASE ReqAbort(r)
    BY <1>7, EmptyRows DEF ReqAbort, TypeOK, ReqType
<1>. QED
    BY <1>1, <1>2, <1>3, <1>4, <1>5, <1>6, <1>7 DEF RequestStep

\* What the listing and the detail page can do.
ViewStep ==
    \/ \E c \in Chapters : ListBegin(c)
    \/ \E d \in Docs : DetailBegin(d)
    \/ DetailScan \/ ListRead \/ ViewReconcile \/ ViewFix \/ ViewAbort

\* The steps that no worker, no reprocess request and no page takes.
OtherStep ==
    \/ \E t \in TaskIds : Cancel(t) \/ GrowStale(t)
    \/ \E c \in Chapters : DeleteChapter(c)
    \/ \E d \in Docs : Patch(d) \/ DeleteBegin(d)
    \/ DeleteCommit \/ DeleteCourse \/ ClearKnowledge
    \/ Restart

LEMMA ViewStepType ==
    ASSUME TypeOK, ConstantsAssumption, ViewStep
    PROVE  TypeOK'
<1>. USE DEF reqVars, histVars, memVars, dbVars, wkVars, Busy
<1>0. CountEvent => events' \in 0 .. MaxEvents
    BY DEF CountEvent, TypeOK, ConstantsAssumption
<1>1. viewer \in ViewType /\ NoChapter \in AnyChapter /\ NoDoc \in Docs \cup {NoDoc}
    BY DEF TypeOK, ViewType, AnyChapter
<1>2. \A ts : ts \subseteq TaskIds => StaleIn(ts) \in SUBSET TaskIds
    BY DEF StaleIn
<1>3. ASSUME NEW c \in Chapters, ListBegin(c) PROVE TypeOK'
    <2>1. \A t \in TaskIds : task[t].doc \in Docs \cup {NoDoc}
        BY DEF TypeOK, TaskRow
    <2>2. PICK l \in {"listed", "reconcile"}, old \in SUBSET TaskIds,
               A \in SUBSET (Docs \cup {NoDoc}), H \in SUBSET (Docs \cup {NoDoc}) :
            viewer' = View(l, c, NoDoc, old, A, H)
        <3>. DEFINE ts == {t \in TaskIds : IsActive(t) /\ task[t].chapter = c}
                    D(S) == {task[t].doc : t \in S}
        <3>1. StaleIn(ts) \in SUBSET TaskIds /\ ts \ StaleIn(ts) \in SUBSET TaskIds
            BY <1>2
        <3>2. \A S \in SUBSET TaskIds : D(S) \in SUBSET (Docs \cup {NoDoc})
            BY <2>1
        <3>3. viewer' = View(IF StaleIn(ts) = {} THEN "listed" ELSE "reconcile",
                             c, NoDoc, StaleIn(ts), D(ts \ StaleIn(ts)), D(StaleIn(ts)))
            BY <1>3 DEF ListBegin
        <3>. HIDE DEF ts, D
        <3>. QED
            BY <3>1, <3>2, <3>3
    <2>3. viewer' \in ViewType
        <3>1. c \in AnyChapter
            BY DEF AnyChapter
        <3>. QED
            BY <1>1, <2>2, <3>1, ViewIsTyped
    <2>. QED
        BY <1>0, <1>3, <2>3 DEF ListBegin, TypeOK, ViewType
<1>4. ASSUME NEW d \in Docs, DetailBegin(d) PROVE TypeOK'
    <2>1. viewer' \in ViewType
        <3>1. {d} \cap Processing \in SUBSET (Docs \cup {NoDoc})
            OBVIOUS
        <3>. QED
            BY <1>1, <1>4, <3>1, ViewIsTyped DEF DetailBegin
    <2>. QED
        BY <1>0, <1>4, <2>1 DEF DetailBegin, TypeOK, ViewType
<1>5. CASE DetailScan
    <2>1. StaleIn(ActiveOf(viewer.doc)) \in SUBSET TaskIds
        BY <1>2 DEF ActiveOf
    <2>2. \A l \in {"reconcile", "fix"} :
            View(l, NoChapter, viewer.doc, StaleIn(ActiveOf(viewer.doc)), {}, viewer.hit)
                \in ViewType
        BY <1>1, <2>1, ViewIsTyped DEF ViewType
    <2>3. viewer' \in ViewType
        BY <1>5, <2>2, EmptyRows DEF DetailScan
    <2>. QED
        BY <1>5, <2>3 DEF DetailScan, TypeOK, ViewType
<1>6. CASE ListRead
    <2>1. viewer' \in ViewType
        <3>1. Orphans \in SUBSET (Docs \cup {NoDoc})
            BY DEF Orphans
        <3>2. View("fix", NoChapter, NoDoc, {}, {}, Orphans) \in ViewType
            BY <1>1, <3>1, ViewIsTyped
        <3>. QED
            BY <1>6, <3>2, EmptyRows DEF ListRead
    <2>. QED
        BY <1>6, <2>1 DEF ListRead, TypeOK, ViewType
<1>7. CASE ViewReconcile
    <2>1. viewer' \in ViewType
        <3>1. View("listed", viewer.chapter, NoDoc, {}, viewer.active, {}) \in ViewType
            BY <1>1, ViewIsTyped DEF ViewType
        <3>. QED
            BY <1>7, <3>1, EmptyRows DEF ViewReconcile
    <2>2. task' \in [TaskIds -> TaskRow] /\ doc' \in [Docs -> DocRow]
        BY <1>7, ManyRowsType DEF ViewReconcile, TaskStatuses
    <2>. QED
        BY <1>7, <2>1, <2>2 DEF ViewReconcile, TypeOK, ViewType
<1>8. CASE ViewFix
    <2>1. doc' \in [Docs -> DocRow]
        BY <1>8, ManyRowsType DEF ViewFix
    <2>. QED
        BY <1>8, <2>1, EmptyRows DEF ViewFix, TypeOK, ViewType
<1>9. CASE ViewAbort
    BY <1>9, EmptyRows DEF ViewAbort, TypeOK, ViewType
<1>. QED
    BY <1>3, <1>4, <1>5, <1>6, <1>7, <1>8, <1>9 DEF ViewStep

LEMMA OtherStepType ==
    ASSUME TypeOK, ConstantsAssumption, OtherStep
    PROVE  TypeOK'
<1>. USE DEF reqVars, histVars, memVars, dbVars, wkVars, Busy
<1>0. CountEvent => events' \in 0 .. MaxEvents
    BY DEF CountEvent, TypeOK, ConstantsAssumption
<1>1. ASSUME NEW t \in TaskIds, Cancel(t) PROVE TypeOK'
    BY <1>1 DEF Cancel, TypeOK
<1>2. ASSUME NEW t \in TaskIds, GrowStale(t) PROVE TypeOK'
    <2>1. task' \in [TaskIds -> TaskRow]
        BY <1>2, AgedType DEF GrowStale, TypeOK
    <2>. QED
        BY <1>0, <1>2, <2>1 DEF GrowStale, TypeOK
<1>3. ASSUME NEW c \in Chapters, DeleteChapter(c) PROVE TypeOK'
    BY <1>0, <1>3, EmptyRows DEF DeleteChapter, Purge, TypeOK
<1>4. ASSUME NEW d \in Docs, Patch(d) PROVE TypeOK'
    <2>1. PICK S \in SUBSET chapters, c \in AnyChapter :
            doc' = [doc EXCEPT ![d] = Relinked(@, S, c)]
        BY <1>4 DEF Patch, TypeOK, AnyChapter
    <2>2. doc' \in [Docs -> DocRow]
        BY <2>1, RelinkedType DEF TypeOK
    <2>. QED
        BY <1>0, <1>4, <2>2 DEF Patch, TypeOK
<1>5. ASSUME NEW d \in Docs, DeleteBegin(d) PROVE TypeOK'
    BY <1>0, <1>5 DEF DeleteBegin, TypeOK
<1>6. CASE DeleteCommit
    <2>1. doc' \in [Docs -> DocRow]
        BY <1>6, EmptyRows DEF DeleteCommit, TypeOK
    <2>. QED
        BY <1>6, <2>1 DEF DeleteCommit, TypeOK
<1>7. CASE DeleteCourse
    BY <1>0, <1>7, EmptyRows DEF DeleteCourse, Purge, TypeOK
<1>8. CASE ClearKnowledge
    BY <1>0, <1>8, EmptyRows DEF ClearKnowledge, TypeOK
<1>9. CASE Restart
    <2>1. task' \in [TaskIds -> TaskRow] /\ doc' \in [Docs -> DocRow]
        BY <1>9, ManyRowsType DEF Restart, ResetTasks, TaskStatuses
    <2>2. NoJob.id = 0 /\ NoView \in ViewType
        BY EmptyRows DEF NoJob
    <2>3. /\ job' \in [Workers -> JobType]
          /\ \A w \in Workers : pc'[w] = "idle" /\ job'[w].id = 0
          /\ snap' \in [Workers -> DocRow]
          /\ req' \in [Requests -> ReqType]
        BY <1>9, <2>2, EmptyRows DEF Restart
    <2>. QED
        BY <1>0, <1>9, <2>1, <2>2, <2>3 DEF Restart, TypeOK, Pcs, JobType, ReqType, ViewType
<1>. QED
    BY <1>1, <1>2, <1>3, <1>4, <1>5, <1>6, <1>7, <1>8, <1>9 DEF OtherStep

LEMMA NextSplit ==
    ASSUME Next
    PROVE  \/ \E w \in Workers : WorkerStep(w)
           \/ \E r \in Requests : RequestStep(r)
           \/ ViewStep \/ OtherStep
BY DEF Next, RequestStep, ViewStep, OtherStep

LEMMA StutterType == ASSUME TypeOK, UNCHANGED vars PROVE TypeOK'
BY DEF TypeOK, vars, dbVars, memVars, wkVars, reqVars, histVars, Busy

LEMMA InitType == ASSUME Init, ConstantsAssumption PROVE TypeOK
<1>1. NoJob.id = 0 /\ NoView \in ViewType
    BY EmptyRows DEF NoJob
<1>2. /\ job \in [Workers -> JobType] /\ req \in [Requests -> ReqType]
      /\ task \in [TaskIds -> TaskRow] /\ snap \in [Workers -> DocRow]
      /\ \A w \in Workers : pc[w] = "idle" /\ job[w].id = 0
    BY <1>1, EmptyRows DEF Init
<1>3. doc \in [Docs -> DocRow] /\ events \in 0 .. MaxEvents
    BY DEF Init, ConstantsAssumption
<1>. QED
    BY <1>1, <1>2, <1>3 DEF Init, TypeOK, Pcs, JobType, ReqType, ViewType, Busy

\* Every reachable state is well typed, whatever the numbers of threads,
\* requests, documents and chapters.
THEOREM TypeCorrect == Spec => []TypeOK
<1>1. Init => TypeOK
    BY InitType, ConstantsAssumption
<1>2. TypeOK /\ [Next]_vars => TypeOK'
    BY NextSplit, WorkerStepType, RequestStepType, ViewStepType, OtherStepType,
       StutterType, ConstantsAssumption
<1>. QED
    BY <1>1, <1>2, PTL DEF Spec

----------------------------------------------------------------------------
(* What a step can do to the variables the invariants speak of *)

\* A worker step is local: it moves one thread, which either goes on with the
\* same task or exits, and an exit leaves its row settled, cancelled or died.
Local(w) ==
    LET t == job[w].id IN
    /\ pc[w] # "idle"
    /\ UNCHANGED <<cancelled, purged, deleting>>
    /\ \A v \in Workers \ {w} : pc'[v] = pc[v] /\ job'[v] = job[v] /\ told'[v] = told[v]
    /\ \A u \in TaskIds \ {t} : task'[u] = task[u]
    /\ (task'[t].status # "none") <=> (task[t].status # "none")
    /\ died \subseteq died'

Goes(w) ==
    LET t == job[w].id IN
    /\ pc'[w] # "idle"
    /\ job'[w].id = t
    /\ told'[w] = told[w]
    /\ task'[t].status \in {task[t].status, "running"}
    /\ \/ running' = running /\ (pc[w] \in Started => pc'[w] \in Started)
       \/ running' = running \cup {t} /\ pc'[w] \in Started
    /\ pc'[w] \in Late => pc[w] \in Late \/ t \notin cancelled
    /\ \/ lock' = lock /\ pc[w] # "commit"
       \/ lock' = w /\ lock = NoOne /\ pc'[w] = "commit"

Leaves(w) ==
    LET t == job[w].id IN
    /\ Exit(w)
    /\ task'[t].status \notin Active \/ t \in cancelled \cup died'
    /\ task'[t].status \in {task[t].status, "success", "failed", "cancelled"}
    /\ \/ lock' = lock /\ (pc[w] # "commit" \/ lock # w)
       \/ lock' = NoOne /\ lock \in {NoOne, w}

LEMMA SettleFrame ==
    ASSUME TypeOK, ConstantsAssumption, NEW w \in Workers, pc[w] # "idle",
           NEW ts \in {"failed", "cancelled"}, NEW ds, Settle(w, ts, ds)
    PROVE  Local(w) /\ Leaves(w)
<1>1. job[w].id \in TaskIds /\ task[job[w].id] \in TaskRow
    BY BusyJob
<1>2. Stamp(task[job[w].id], ts).status = ts
    BY <1>1, StampType DEF TaskStatuses
<1>3. Exit(w)
    BY DEF Settle
<1>4. \A v \in Workers \ {w} : pc'[v] = pc[v] /\ job'[v] = job[v] /\ told'[v] = told[v]
    BY <1>3 DEF Exit, Goto, TypeOK
<1>5. /\ \A u \in TaskIds \ {job[w].id} : task'[u] = task[u]
      /\ (task'[job[w].id].status # "none") <=> (task[job[w].id].status # "none")
      /\ task'[job[w].id].status \notin Active
      /\ task'[job[w].id].status \in {task[job[w].id].status, "failed", "cancelled"}
    BY <1>1, <1>2 DEF Settle, TypeOK, TaskExists, Active
<1>. QED
    BY <1>3, <1>4, <1>5 DEF Settle, Local, Leaves, reqVars, ConstantsAssumption

LEMMA WorkerFrame ==
    ASSUME TypeOK, ConstantsAssumption, NEW w \in Workers, WorkerStep(w)
    PROVE  Local(w) /\ (Goes(w) \/ Leaves(w))
<1>. USE DEF reqVars, histVars, memVars, dbVars, wkVars
<1>0. pc[w] # "idle" => job[w].id \in TaskIds /\ task[job[w].id] \in TaskRow
    BY BusyJob
<1>1. \A l \in Pcs : Goto(w, l) =>
          pc'[w] = l /\ \A v \in Workers \ {w} : pc'[v] = pc[v]
    BY DEF Goto, TypeOK
<1>2. Exit(w) => \A v \in Workers \ {w} :
                   pc'[v] = pc[v] /\ job'[v] = job[v] /\ told'[v] = told[v]
    BY DEF Exit, Goto, TypeOK
<1>3. NoOne # w
    BY DEF ConstantsAssumption
<1>4. CASE Pick(w)
    <2>1. CASE ~TaskExists(job[w].id) \/ job[w].id \in cancelled
        BY <1>2, <1>3, <1>4, <2>1 DEF Pick, Local, Leaves, TaskExists, Active
    <2>2. CASE ~(~TaskExists(job[w].id) \/ job[w].id \in cancelled)
        <3>1. /\ Goto(w, "start") /\ pc[w] = "queued"
              /\ \A v \in Workers \ {w} : job'[v] = job[v]
              /\ job'[w].id = job[w].id
            BY <1>4, <2>2 DEF Pick, TypeOK
        <3>. QED
            BY <1>1, <1>4, <2>2, <3>1 DEF Pick, Local, Goes, Started, Late, Pcs
    <2>. QED
        BY <2>1, <2>2
<1>5. CASE Start(w)
    <2>1. Goto(w, "load") /\ pc[w] = "start"
        BY <1>5 DEF Start
    <2>2. Stamp(task[job[w].id], "running").status = "running"
        BY <1>0, <2>1, StampType DEF TaskStatuses
    <2>3. /\ \A u \in TaskIds \ {job[w].id} : task'[u] = task[u]
          /\ (task'[job[w].id].status # "none") <=> (task[job[w].id].status # "none")
          /\ task'[job[w].id].status = "running"
        BY <1>0, <1>5, <2>1, <2>2 DEF Start, TypeOK, TaskExists
    <2>. QED
        BY <1>1, <1>5, <2>1, <2>3 DEF Start, Local, Goes, Started, Late, Pcs
<1>6. CASE Load(w)
    BY <1>1, <1>6 DEF Load, Local, Goes, Started, Late, Pcs
<1>7. CASE LoadFail(w)
    <2>1. Stamp(task[job[w].id], "failed").status = "failed"
        BY <1>0, <1>7, StampType DEF TaskStatuses, LoadFail
    <2>2. /\ \A u \in TaskIds \ {job[w].id} : task'[u] = task[u]
          /\ (task'[job[w].id].status # "none") <=> (task[job[w].id].status # "none")
          /\ task'[job[w].id].status \notin Active
          /\ task'[job[w].id].status \in {task[job[w].id].status, "failed"}
        BY <1>0, <1>7, <2>1 DEF LoadFail, TypeOK, TaskExists, Active
    <2>. QED
        BY <1>2, <1>7, <2>2 DEF LoadFail, Local, Leaves
<1>8. CASE Mark(w)
    BY <1>1, <1>8 DEF Mark, Local, Goes, Started, Late, Pcs
<1>9. CASE Check(w)
    <2>1. PICK l \in {"cancelling", "parse", "finish"} :
            Goto(w, l) /\ (l = "finish" => job[w].id \notin cancelled)
        BY <1>9 DEF Check
    <2>. QED
        BY <1>1, <1>9, <2>1 DEF Check, Local, Goes, Started, Late, Pcs
<1>10. CASE CancelCommit(w)
    BY <1>10, SettleFrame DEF CancelCommit
<1>11. CASE Parse(w)
    BY <1>1, <1>11 DEF Parse, Local, Goes, Started, Late, Pcs
<1>12. CASE ParseFail(w)
    BY <1>12, SettleFrame DEF ParseFail
<1>13. CASE FinishRead(w)
    BY <1>1, <1>13 DEF FinishRead, Local, Goes, Started, Late, Pcs
<1>14. CASE FinishMissing(w)
    BY <1>14, SettleFrame DEF FinishMissing
<1>15. CASE FinishFlush(w)
    BY <1>1, <1>3, <1>15 DEF FinishFlush, Local, Goes, Started, Late, Pcs
<1>16. CASE FinishCommit(w)
    <2>1. Stamp(task[job[w].id], "success").status = "success"
        BY <1>0, <1>16, StampType DEF TaskStatuses, FinishCommit
    <2>2. /\ \A u \in TaskIds \ {job[w].id} : task'[u] = task[u]
          /\ (task'[job[w].id].status # "none") <=> (task[job[w].id].status # "none")
          /\ task'[job[w].id].status \notin Active
          /\ task'[job[w].id].status \in {task[job[w].id].status, "success"}
        BY <1>0, <1>16, <2>1 DEF FinishCommit, TypeOK, TaskExists, Active
    <2>. QED
        BY <1>2, <1>16, <2>2 DEF FinishCommit, Local, Leaves
<1>17. ASSUME Dies(w), pc[w] # "idle", lock # w PROVE Local(w) /\ Leaves(w)
    BY <1>2, <1>17 DEF Dies, Local, Leaves
<1>18. CASE LockTimeout(w)
    BY <1>17, <1>18 DEF LockTimeout
<1>19. CASE RowVanished(w)
    BY <1>3, <1>17, <1>19 DEF RowVanished
<1>. QED
    BY <1>4, <1>5, <1>6, <1>7, <1>8, <1>9, <1>10, <1>11, <1>12, <1>13, <1>14, <1>15,
       <1>16, <1>18, <1>19 DEF WorkerStep

\* A reprocess request leaves the threads and the sets alone; it can fail stale
\* tasks, and it can give an idle thread a row with a fresh id.
Inserts ==
    \E t \in TaskIds, w \in Workers :
        /\ task[t].status = "none" /\ pc[w] = "idle"
        /\ pc' = [pc EXCEPT ![w] = "queued"]
        /\ \E j \in JobType : j.id = t /\ job' = [job EXCEPT ![w] = j]
        /\ task'[t].status = "pending"
        /\ \A u \in TaskIds \ {t} : task'[u] = task[u]

\* The only thing that happens to rows is that tasks read as stale fail.
Quiet ==
    /\ UNCHANGED <<pc, job>>
    /\ \A t \in TaskIds :
         \/ task'[t].status = task[t].status
         \/ task[t].status # "none" /\ t \in Reconciling /\ task'[t].status = "failed"

LEMMA ReconcileQuiet ==
    ASSUME TypeOK, NEW ts, ts \subseteq Reconciling, task' = SetTasks(ts, "failed"),
           \A t \in ts : TaskExists(t), UNCHANGED <<pc, job>>
    PROVE  Quiet
<1>. SUFFICES ASSUME NEW t \in TaskIds
             PROVE  \/ task'[t].status = task[t].status
                    \/ /\ task[t].status # "none" /\ t \in Reconciling
                       /\ task'[t].status = "failed"
    BY DEF Quiet
<1>1. task[t] \in TaskRow
    BY DEF TypeOK
<1>2. task'[t] = task[t] \/ (t \in ts /\ task'[t] = Stamp(task[t], "failed"))
    BY DEF SetTasks
<1>3. Stamp(task[t], "failed").status = "failed"
    BY <1>1, StampType DEF TaskStatuses
<1>. QED
    BY <1>2, <1>3 DEF TaskExists

\* A page leaves the threads, the sets and the lock alone.
LEMMA ViewFrame ==
    ASSUME TypeOK, ViewStep
    PROVE  Quiet /\ UNCHANGED <<running, cancelled, told, died, purged, lock, deleting>>
<1>. USE DEF reqVars, histVars, memVars, dbVars, wkVars
<1>1. ASSUME ViewReconcile
      PROVE  Quiet /\ UNCHANGED <<running, cancelled, told, died, purged, lock, deleting>>
    <2>1. /\ viewer.stale \subseteq Reconciling
          /\ task' = SetTasks(viewer.stale, "failed")
          /\ \A t \in viewer.stale : TaskExists(t)
          /\ UNCHANGED <<pc, job>>
        BY <1>1 DEF ViewReconcile, Reconciling
    <2>. QED
        BY <1>1, <2>1, ReconcileQuiet DEF ViewReconcile
<1>. QED
    BY <1>1 DEF ViewStep, ListBegin, DetailBegin, DetailScan, ListRead, ViewFix, ViewAbort,
                Quiet

LEMMA RequestFrame ==
    ASSUME TypeOK, ConstantsAssumption, NEW r \in Requests, RequestStep(r)
    PROVE  /\ UNCHANGED <<running, cancelled, told, died, purged, lock, deleting>>
           /\ Inserts \/ Quiet
<1>. USE DEF reqVars, histVars, memVars, dbVars, wkVars
<1>1. ASSUME NEW d \in Docs, ReqLoad(r, d)
      PROVE  Quiet /\ UNCHANGED <<running, cancelled, told, died, purged, lock, deleting>>
    BY <1>1 DEF ReqLoad, Quiet
<1>2. CASE ReqScan(r)
    BY <1>2 DEF ReqScan, Quiet
<1>3. CASE ReqReconcile(r)
    <2>1. /\ req[r].stale \subseteq Reconciling
          /\ task' = SetTasks(req[r].stale, "failed")
          /\ \A t \in req[r].stale : TaskExists(t)
          /\ UNCHANGED <<pc, job>>
        BY <1>3 DEF ReqReconcile, Reconciling
    <2>. QED
        BY <1>3, <2>1, ReconcileQuiet DEF ReqReconcile
<1>4. CASE ReqCheck(r)
    BY <1>4 DEF ReqCheck, Quiet
<1>5. CASE ReqReuse(r)
    BY <1>5 DEF ReqReuse, Quiet
<1>6. CASE ReqInsert(r)
    <2>1. PICK c \in TaskChapters(r), t \in TaskIds, w \in Workers :
            /\ IsNextId(t)
            /\ ~Busy(w)
            /\ task' = [task EXCEPT ![t] = [status |-> "pending", doc |-> req[r].doc,
                                            chapter |-> c, stale |-> FALSE]]
            /\ Goto(w, "queued")
            /\ job' = [job EXCEPT ![w] = [id |-> t, doc |-> NoDoc, chapter |-> NoChapter]]
        BY <1>6 DEF ReqInsert
    <2>2. task[t].status = "none"
        BY <2>1, NextIdIsFree DEF TaskExists
    <2>3. DEFINE j == [id |-> t, doc |-> NoDoc, chapter |-> NoChapter]
    <2>4. j \in JobType /\ j.id = t
        BY DEF JobType, AnyChapter
    <2>5. Inserts
        <3>1. /\ task'[t].status = "pending"
              /\ \A u \in TaskIds \ {t} : task'[u] = task[u]
            BY <2>1 DEF TypeOK
        <3>. QED
            BY <2>1, <2>2, <2>4, <3>1 DEF Inserts, Busy, Goto
    <2>. QED
        BY <1>6, <2>5 DEF ReqInsert
<1>7. CASE ReqAbort(r)
    BY <1>7 DEF ReqAbort, Quiet
<1>. QED
    BY <1>1, <1>2, <1>3, <1>4, <1>5, <1>6, <1>7 DEF RequestStep

----------------------------------------------------------------------------
(* The inductive invariant *)

\* Every id in _document_task_running belongs to a live thread past its start.
RunInv == \A t \in running : \E w \in Workers : job[w].id = t /\ pc[w] \in Started

\* A thread that was told of a cancel still has it in the set, and is before the
\* last checkpoint or on its way out.
CancelInv ==
    \A w \in Workers : told[w] =>
        job[w].id \in cancelled /\ pc[w] \in Early \cup {"cancelling"}

\* Until a chapter is deleted under a thread, every thread has a row of its own,
\* which no success and no cancellation has settled yet.
Unsettled == {"pending", "running", "failed"}
UniqueInv ==
    ~purged => /\ \A w \in Workers : pc[w] # "idle" => task[job[w].id].status \in Unsettled
               /\ OneThreadPerTask

IInv == TypeOK /\ RunInv /\ CancelInv /\ UniqueInv /\ LockIsScoped /\ ActiveTaskHasOwner

LEMMA WorkerStepInv ==
    ASSUME IInv, ConstantsAssumption, NEW w \in Workers, WorkerStep(w)
    PROVE  IInv'
<1>. DEFINE t == job[w].id
<1>1. TypeOK /\ TypeOK'
    BY WorkerStepType DEF IInv
<1>2. Local(w) /\ (Goes(w) \/ Leaves(w))
    BY <1>1, WorkerFrame
<1>3. t \in TaskIds
    BY <1>1, <1>2, BusyJob DEF Local
<1>4. Leaves(w) => /\ pc'[w] = "idle" /\ ~told'[w] /\ running' = running \ {t}
                   /\ job'[w].id = 0
    BY <1>1 DEF Leaves, Exit, Goto, TypeOK, NoJob
<1>5. \A v \in Workers \ {w} : pc'[v] = pc[v] /\ job'[v] = job[v] /\ told'[v] = told[v]
    BY <1>2 DEF Local
<1>6. RunInv'
    <2>. SUFFICES ASSUME NEW u \in running'
                  PROVE  \E v \in Workers : job'[v].id = u /\ pc'[v] \in Started
        BY DEF RunInv
    <2>1. CASE Goes(w)
        <3>1. CASE u \in running
            BY <1>5, <2>1, <3>1 DEF Goes, IInv, RunInv
        <3>2. CASE u \notin running
            BY <2>1, <3>2 DEF Goes
        <3>. QED
            BY <3>1, <3>2
    <2>2. CASE Leaves(w)
        <3>1. u \in running /\ u # t
            BY <1>4, <2>2
        <3>2. PICK v \in Workers : job[v].id = u /\ pc[v] \in Started
            BY <3>1 DEF IInv, RunInv
        <3>. QED
            BY <1>5, <3>1, <3>2
    <2>. QED
        BY <1>2, <2>1, <2>2
<1>7. CancelInv'
    <2>. SUFFICES ASSUME NEW v \in Workers, told'[v]
                  PROVE  job'[v].id \in cancelled' /\ pc'[v] \in Early \cup {"cancelling"}
        BY DEF CancelInv
    <2>1. cancelled' = cancelled
        BY <1>2 DEF Local
    <2>2. CASE v # w
        BY <1>5, <2>1, <2>2 DEF IInv, CancelInv
    <2>3. CASE v = w
        <3>1. Goes(w)
            BY <1>2, <1>4, <2>3
        <3>2. told[w] /\ t \in cancelled /\ pc[w] \in Early \cup {"cancelling"}
            BY <2>3, <3>1 DEF Goes, IInv, CancelInv
        <3>3. pc'[w] \notin Late
            BY <3>1, <3>2 DEF Goes, Late, Early
        <3>4. pc'[w] \in Pcs \ {"idle"}
            BY <1>1, <3>1 DEF Goes, TypeOK
        <3>. QED
            BY <2>1, <2>3, <3>1, <3>2, <3>3, <3>4 DEF Goes, Pcs, Late, Early
    <2>. QED
        BY <2>2, <2>3
<1>8. UniqueInv'
    <2>. SUFFICES ASSUME ~purged'
                  PROVE  /\ \A v \in Workers : pc'[v] # "idle" => task'[job'[v].id].status \in Unsettled
                         /\ OneThreadPerTask'
        BY DEF UniqueInv
    <2>1. ~purged
        BY <1>2 DEF Local
    <2>2. \A v \in Workers : pc'[v] # "idle" => pc[v] # "idle" /\ job'[v].id = job[v].id
        BY <1>2, <1>4, <1>5 DEF Goes, Local
    <2>3. \A v \in Workers : job'[v].id = job[v].id \/ job'[v].id = 0
        BY <1>2, <1>4, <1>5 DEF Goes
    <2>4. /\ \A u \in TaskIds \ {t} : task'[u] = task[u]
          /\ pc'[w] # "idle" => task'[t].status \in {task[t].status, "running"}
        BY <1>2, <1>4 DEF Local, Goes
    <2>5. \A v \in Workers : pc[v] # "idle" => job[v].id \in TaskIds /\ job[v].id # 0
        BY <1>1, BusyJob DEF TypeOK, Busy
    <2>6. \A v \in Workers : pc[v] # "idle" => task[job[v].id].status \in Unsettled
        BY <2>1 DEF IInv, UniqueInv
    <2>7. \A u, v \in Workers : pc[u] # "idle" /\ job[u].id = job[v].id => u = v
        BY <2>1 DEF IInv, UniqueInv, OneThreadPerTask, Busy
    <2>. QED
        <3>1. \A v \in Workers : pc'[v] # "idle" => task'[job[v].id].status \in Unsettled
            BY <2>2, <2>4, <2>5, <2>6, <2>7 DEF Unsettled
        <3>. QED
            BY <2>2, <2>3, <2>5, <2>7, <3>1 DEF OneThreadPerTask, Busy
<1>9. LockIsScoped'
    <2>1. \A v \in Workers : lock = v => pc[v] = "commit"
        BY DEF IInv, LockIsScoped
    <2>2. deleting' = deleting /\ (lock = Deleter <=> deleting # NoDoc)
        BY <1>2 DEF Local, IInv, LockIsScoped
    <2>3. Deleter \notin Workers /\ NoOne \notin Workers /\ NoOne # Deleter
        BY DEF ConstantsAssumption
    <2>4. CASE Goes(w)
        BY <1>5, <2>1, <2>2, <2>3, <2>4 DEF Goes, LockIsScoped
    <2>5. CASE Leaves(w)
        BY <1>4, <1>5, <2>1, <2>2, <2>3, <2>5 DEF Leaves, LockIsScoped
    <2>. QED
        BY <1>2, <2>4, <2>5
<1>10. ActiveTaskHasOwner'
    <2>. SUFFICES ASSUME NEW u \in TaskIds, task'[u].status \in Active
                  PROVE  \/ \E v \in Workers : pc'[v] # "idle" /\ job'[v].id = u
                         \/ u \in cancelled' \cup died'
        BY DEF ActiveTaskHasOwner, IsActive, Busy
    <2>1. cancelled' = cancelled /\ died \subseteq died'
        BY <1>2 DEF Local
    <2>2. CASE u = t
        BY <1>2, <2>1, <2>2 DEF Goes, Leaves
    <2>3. CASE u # t
        <3>1. task[u].status \in Active
            BY <1>2, <2>3 DEF Local
        <3>2. \/ \E v \in Workers : pc[v] # "idle" /\ job[v].id = u
              \/ u \in cancelled \cup died
            BY <3>1 DEF IInv, ActiveTaskHasOwner, IsActive, Busy
        <3>. QED
            BY <1>5, <2>1, <2>3, <3>2
    <2>. QED
        BY <2>2, <2>3
<1>. QED
    BY <1>1, <1>6, <1>7, <1>8, <1>9, <1>10 DEF IInv

\* A step that leaves the threads alone and makes no row active.
LEMMA QuietInv ==
    ASSUME IInv, TypeOK', Quiet,
           UNCHANGED <<running, told, died, purged>>, cancelled \subseteq cancelled',
           LockIsScoped'
    PROVE  IInv'
<1>1. RunInv' /\ CancelInv'
    BY DEF Quiet, IInv, RunInv, CancelInv
<1>2. UniqueInv'
    <2>1. \A w \in Workers : pc[w] # "idle" => job[w].id \in TaskIds
        BY BusyJob DEF IInv
    <2>. QED
        BY <2>1 DEF Quiet, IInv, UniqueInv, OneThreadPerTask, Busy, Unsettled
<1>3. ActiveTaskHasOwner'
    BY DEF Quiet, IInv, ActiveTaskHasOwner, IsActive, Busy, Active
<1>. QED
    BY <1>1, <1>2, <1>3 DEF IInv

LEMMA RequestStepInv ==
    ASSUME IInv, ConstantsAssumption, NEW r \in Requests, RequestStep(r)
    PROVE  IInv'
<1>1. TypeOK /\ TypeOK'
    BY RequestStepType DEF IInv
<1>2. /\ UNCHANGED <<running, cancelled, told, died, purged, lock, deleting>>
      /\ Inserts \/ Quiet
    BY <1>1, RequestFrame
<1>3. CASE Quiet
    <2>1. LockIsScoped'
        BY <1>2, <1>3 DEF Quiet, IInv, LockIsScoped
    <2>. QED
        BY <1>1, <1>2, <1>3, <2>1, QuietInv
<1>4. CASE Inserts
    <2>1. PICK t \in TaskIds, w \in Workers, j \in JobType :
            /\ task[t].status = "none" /\ pc[w] = "idle"
            /\ pc' = [pc EXCEPT ![w] = "queued"]
            /\ j.id = t /\ job' = [job EXCEPT ![w] = j]
            /\ task'[t].status = "pending"
            /\ \A u \in TaskIds \ {t} : task'[u] = task[u]
        BY <1>4 DEF Inserts
    <2>2. /\ pc'[w] = "queued" /\ job'[w].id = t
          /\ \A v \in Workers \ {w} : pc'[v] = pc[v] /\ job'[v] = job[v]
          /\ job[w].id = 0
        BY <1>1, <2>1 DEF TypeOK, Busy
    <2>3. \A v \in Workers : pc[v] # "idle" => job[v].id \in TaskIds /\ job[v].id # 0
        BY <1>1, BusyJob DEF TypeOK, Busy
    <2>4. RunInv'
        BY <1>2, <2>1, <2>2 DEF IInv, RunInv, Started
    <2>5. CancelInv'
        <3>1. ~told[w]
            BY <2>1 DEF IInv, CancelInv, Early
        <3>. QED
            BY <1>2, <2>2, <3>1 DEF IInv, CancelInv
    <2>6. UniqueInv'
        <3>. SUFFICES ASSUME ~purged'
                      PROVE  /\ \A v \in Workers :
                                  pc'[v] # "idle" => task'[job'[v].id].status \in Unsettled
                             /\ OneThreadPerTask'
            BY DEF UniqueInv
        <3>1. ~purged
            BY <1>2
        <3>2. \A v \in Workers : pc[v] # "idle" => task[job[v].id].status \in Unsettled
            BY <3>1 DEF IInv, UniqueInv
        <3>3. \A v \in Workers : job[v].id # t
            BY <2>1, <2>3, <3>2, <1>1 DEF TypeOK, Busy, TaskIds, Unsettled
        <3>4. \A u, v \in Workers : pc[u] # "idle" /\ job[u].id = job[v].id => u = v
            BY <3>1 DEF IInv, UniqueInv, OneThreadPerTask, Busy
        <3>. QED
            BY <2>1, <2>2, <2>3, <3>2, <3>3, <3>4 DEF OneThreadPerTask, Busy, Unsettled
    <2>7. LockIsScoped'
        BY <1>2, <2>1, <2>2 DEF IInv, LockIsScoped
    <2>8. ActiveTaskHasOwner'
        <3>. SUFFICES ASSUME NEW u \in TaskIds, task'[u].status \in Active
                      PROVE  \/ \E v \in Workers : pc'[v] # "idle" /\ job'[v].id = u
                             \/ u \in cancelled' \cup died'
            BY DEF ActiveTaskHasOwner, IsActive, Busy
        <3>1. CASE u = t
            BY <2>2, <3>1
        <3>2. CASE u # t
            BY <1>2, <2>1, <2>2, <3>2 DEF IInv, ActiveTaskHasOwner, IsActive, Busy
        <3>. QED
            BY <3>1, <3>2
    <2>. QED
        BY <1>1, <2>4, <2>5, <2>6, <2>7, <2>8 DEF IInv
<1>. QED
    BY <1>2, <1>3, <1>4

LEMMA ViewStepInv ==
    ASSUME IInv, ConstantsAssumption, ViewStep
    PROVE  IInv'
<1>1. TypeOK /\ TypeOK'
    BY ViewStepType DEF IInv
<1>2. Quiet /\ UNCHANGED <<running, cancelled, told, died, purged, lock, deleting>>
    BY <1>1, ViewFrame
<1>3. LockIsScoped'
    BY <1>2 DEF Quiet, IInv, LockIsScoped
<1>. QED
    BY <1>1, <1>2, <1>3, QuietInv

LEMMA OtherStepInv ==
    ASSUME IInv, ConstantsAssumption, OtherStep
    PROVE  IInv'
<1>. USE DEF reqVars, histVars, memVars, dbVars, wkVars
<1>0. TypeOK /\ TypeOK' /\ LockIsScoped
    BY OtherStepType DEF IInv
<1>1. ASSUME NEW t \in TaskIds, Cancel(t) PROVE IInv'
    <2>1. LockIsScoped' /\ RunInv' /\ UniqueInv' /\ ActiveTaskHasOwner'
        BY <1>1 DEF Cancel, IInv, LockIsScoped, RunInv, UniqueInv, OneThreadPerTask,
                    ActiveTaskHasOwner, IsActive, Busy
    <2>2. CancelInv'
        BY <1>1 DEF Cancel, IInv, CancelInv
    <2>. QED
        BY <1>0, <2>1, <2>2 DEF IInv
<1>2. ASSUME NEW t \in TaskIds, GrowStale(t) PROVE IInv'
    <2>1. Aged(task[t]).status = task[t].status
        BY <1>0 DEF Aged, TypeOK, TaskRow
    <2>2. Quiet /\ LockIsScoped'
        BY <1>0, <1>2, <2>1 DEF GrowStale, Quiet, LockIsScoped, TypeOK
    <2>. QED
        BY <1>0, <1>2, <2>2, QuietInv DEF GrowStale
<1>3. ASSUME NEW cs, NEW kept, Purge(cs, kept),
             UNCHANGED <<lock, memVars, wkVars, reqVars, told, died>>
      PROVE  IInv'
    <2>1. NoTaskRow.status = "none"
        BY DEF NoTaskRow
    <2>2. \A t \in TaskIds : task'[t] = task[t] \/ task'[t].status = "none"
        BY <1>3, <2>1 DEF Purge
    <2>3. LockIsScoped' /\ RunInv' /\ CancelInv'
        BY <1>3 DEF IInv, LockIsScoped, RunInv, CancelInv
    <2>4. ActiveTaskHasOwner'
        BY <1>3, <2>2 DEF IInv, ActiveTaskHasOwner, IsActive, Busy, Active
    <2>5. UniqueInv'
        <3>. SUFFICES ASSUME ~purged'
                      PROVE  /\ \A v \in Workers :
                                  pc'[v] # "idle" => task'[job'[v].id].status \in Unsettled
                             /\ OneThreadPerTask'
            BY DEF UniqueInv
        <3>1. ~purged /\ \A w \in Workers :
                 pc[w] # "idle" => ~(/\ job[w].id \in TaskIds
                                     /\ TaskExists(job[w].id)
                                     /\ task[job[w].id].chapter \in cs)
            BY <1>3 DEF Purge, Busy
        <3>2. \A w \in Workers : pc[w] # "idle" => job[w].id \in TaskIds
            BY <1>0, BusyJob
        <3>3. \A w \in Workers : pc[w] # "idle" => task'[job[w].id] = task[job[w].id]
            BY <1>3, <3>1, <3>2 DEF Purge, TypeOK
        <3>. QED
            BY <1>3, <3>1, <3>3 DEF IInv, UniqueInv, OneThreadPerTask, Busy
    <2>. QED
        BY <1>0, <2>3, <2>4, <2>5 DEF IInv
<1>4. ASSUME NEW c \in Chapters, DeleteChapter(c) PROVE IInv'
    BY <1>3, <1>4 DEF DeleteChapter
<1>5. CASE DeleteCourse
    BY <1>3, <1>5 DEF DeleteCourse
<1>6. ASSUME NEW d \in Docs, Patch(d) PROVE IInv'
    BY <1>0, <1>6, QuietInv DEF Patch, Quiet, LockIsScoped
<1>7. ASSUME NEW d \in Docs, DeleteBegin(d) PROVE IInv'
    <2>1. LockIsScoped'
        BY <1>0, <1>7 DEF DeleteBegin, LockIsScoped, ConstantsAssumption
    <2>. QED
        BY <1>0, <1>7, <2>1, QuietInv DEF DeleteBegin, Quiet
<1>8. CASE DeleteCommit
    <2>1. LockIsScoped'
        BY <1>0, <1>8 DEF DeleteCommit, LockIsScoped, ConstantsAssumption
    <2>. QED
        BY <1>0, <1>8, <2>1, QuietInv DEF DeleteCommit, Quiet
<1>9. CASE ClearKnowledge
    BY <1>0, <1>9, QuietInv DEF ClearKnowledge, Quiet, LockIsScoped
<1>10. CASE Restart
    <2>1. \A t \in TaskIds : task'[t].status \notin Active
        <3>. SUFFICES ASSUME NEW t \in TaskIds PROVE task'[t].status \notin Active
            OBVIOUS
        <3>1. Stamp(task[t], "cancelled").status = "cancelled"
            BY <1>0, StampType DEF TypeOK, TaskStatuses
        <3>. QED
            BY <1>10, <3>1 DEF Restart, ResetTasks, SetTasks, IsActive, Active
    <2>2. \A w \in Workers : pc'[w] = "idle" /\ ~told'[w]
        BY <1>10 DEF Restart
    <2>3. running' = {} /\ lock' = NoOne /\ deleting' = NoDoc
        BY <1>10 DEF Restart
    <2>4. RunInv' /\ CancelInv' /\ UniqueInv'
        BY <2>2, <2>3 DEF RunInv, CancelInv, UniqueInv, OneThreadPerTask, Busy
    <2>5. LockIsScoped'
        BY <2>3 DEF LockIsScoped, ConstantsAssumption
    <2>6. ActiveTaskHasOwner'
        BY <2>1 DEF ActiveTaskHasOwner, IsActive
    <2>. QED
        BY <1>0, <2>4, <2>5, <2>6 DEF IInv
<1>. QED
    BY <1>1, <1>2, <1>4, <1>5, <1>6, <1>7, <1>8, <1>9, <1>10 DEF OtherStep

LEMMA InitInv == ASSUME Init, ConstantsAssumption PROVE IInv
<1>1. TypeOK
    BY InitType
<1>2. NoTaskRow.status \notin Active
    BY DEF NoTaskRow, Active
<1>3. RunInv /\ CancelInv /\ UniqueInv /\ LockIsScoped
    BY DEF Init, RunInv, CancelInv, UniqueInv, OneThreadPerTask, LockIsScoped, Busy,
           ConstantsAssumption
<1>4. ActiveTaskHasOwner
    BY <1>2 DEF Init, ActiveTaskHasOwner, IsActive
<1>. QED
    BY <1>1, <1>3, <1>4 DEF IInv

LEMMA StutterInv == ASSUME IInv, UNCHANGED vars PROVE IInv'
<1>1. TypeOK'
    BY StutterType DEF IInv
<1>. QED
    BY <1>1 DEF IInv, vars, dbVars, memVars, wkVars, reqVars, histVars, RunInv, CancelInv,
       UniqueInv, OneThreadPerTask, LockIsScoped, ActiveTaskHasOwner, IsActive, Busy

\* The invariant the safety theorems follow from.
THEOREM Inductive == Spec => []IInv
<1>1. Init => IInv
    BY InitInv, ConstantsAssumption
<1>2. IInv /\ [Next]_vars => IInv'
    BY NextSplit, WorkerStepInv, RequestStepInv, ViewStepInv, OtherStepInv, StutterInv,
       ConstantsAssumption
<1>. QED
    BY <1>1, <1>2, PTL DEF Spec

\* What the page shows as being processed has a live thread, for any number of
\* threads, requests, tasks and restarts.
THEOREM ShownIsAlive == Spec => []ShownProcessingIsAlive
<1>1. IInv => ShownProcessingIsAlive
    <2>. SUFFICES ASSUME IInv, NEW t \in TaskIds, Reported(t) \in Active
                  PROVE  \E w \in Workers : job[w].id = t /\ pc[w] \in Started
        BY DEF ShownProcessingIsAlive
    <2>1. t \in running
        BY DEF Reported, Active, IsActive
    <2>. QED
        BY <2>1 DEF IInv, RunInv
<1>. QED
    BY <1>1, Inductive, PTL

\* A cancel acknowledged before the last checkpoint always stops the thread
\* before it writes the parsed text.
THEOREM CancelIsHonoured == Spec => []CancelHonoured
<1>1. IInv => CancelHonoured
    BY DEF IInv, CancelInv, CancelHonoured, Early, Late
<1>. QED
    BY <1>1, Inductive, PTL

\* Ids are not shared by two threads unless a chapter was deleted under one.
THEOREM ThreadsDoNotShare == Spec => []OneThreadPerTask
<1>1. IInv => OneThreadPerTask
    BY DEF IInv, UniqueInv, OneThreadPerTask
<1>. QED
    BY <1>1, Inductive, PTL

\* The write lock is held only between a flush and its commit.
THEOREM LockScope == Spec => []LockIsScoped
<1>1. IInv => LockIsScoped
    BY DEF IInv
<1>. QED
    BY <1>1, Inductive, PTL

\* Every active row has a thread, a seen cancel or a recorded exception.
THEOREM NoTaskIsForgotten == Spec => []ActiveTaskHasOwner
<1>1. IInv => ActiveTaskHasOwner
    BY DEF IInv
<1>. QED
    BY <1>1, Inductive, PTL

\* A success or a cancellation in the table is final, as long as no chapter is
\* deleted under a live thread, but for a reconciliation that had read the task.
THEOREM SettledStays == Spec => OutcomeIsFinal
<1>. DEFINE Keeps == \A t \in TaskIds :
        task[t].status \in {"success", "cancelled"} /\ ~purged'
            => \/ task'[t].status \in {task[t].status, "none"}
               \/ t \in Reconciling /\ task'[t].status = "failed"
<1>1. IInv /\ [Next]_vars => [Keeps]_vars
    <2>. SUFFICES ASSUME IInv, Next PROVE Keeps
        OBVIOUS
    <2>. SUFFICES ASSUME NEW t \in TaskIds, task[t].status \in {"success", "cancelled"}, ~purged'
                  PROVE  \/ task'[t].status \in {task[t].status, "none"}
                         \/ t \in Reconciling /\ task'[t].status = "failed"
        OBVIOUS
    <2>0. TypeOK /\ t \in TaskIds /\ task[t].status \notin Active \cup {"none"}
        BY DEF IInv, Active
    <2>1. ASSUME NEW w \in Workers, WorkerStep(w) PROVE task'[t] = task[t]
        <3>1. Local(w)
            BY <2>0, <2>1, WorkerFrame, ConstantsAssumption
        <3>2. job[w].id # t
            BY <3>1 DEF Local, IInv, UniqueInv, Unsettled
        <3>. QED
            BY <3>1, <3>2 DEF Local
    <2>2. Quiet => \/ task'[t].status = task[t].status
                   \/ t \in Reconciling /\ task'[t].status = "failed"
        BY DEF Quiet
    <2>3. ASSUME NEW r \in Requests, RequestStep(r)
          PROVE  Quiet \/ task'[t].status = task[t].status
        BY <2>0, <2>3, RequestFrame, ConstantsAssumption DEF Inserts
    <2>4. ASSUME ViewStep PROVE Quiet
        BY <2>0, <2>4, ViewFrame
    <2>5. ASSUME OtherStep PROVE task'[t].status \in {task[t].status, "none"}
        <3>1. CASE Restart
            BY <2>0, <3>1 DEF Restart, ResetTasks, SetTasks, IsActive
        <3>2. ASSUME NEW cs, NEW kept, Purge(cs, kept)
              PROVE  task'[t].status \in {task[t].status, "none"}
            BY <3>2 DEF Purge, NoTaskRow
        <3>3. ASSUME NEW u \in TaskIds, GrowStale(u) PROVE task'[t] = task[t]
            BY <2>0, <3>3 DEF GrowStale, IsActive, TypeOK
        <3>. QED
            BY <2>5, <3>1, <3>2, <3>3
            DEF OtherStep, Cancel, DeleteChapter, Patch, DeleteBegin, DeleteCommit,
                DeleteCourse, ClearKnowledge, dbVars
    <2>. QED
        BY <2>1, <2>2, <2>3, <2>4, <2>5, NextSplit
<1>. QED
    BY <1>1, Inductive, PTL DEF Spec, OutcomeIsFinal

----------------------------------------------------------------------------
(* A document task is a task of TaskLife *)

StatusOf == [t \in TaskIds |-> task[t].status]
WorkOf   == [w \in Workers |-> job[w].id]

LEMMA WorkerRefines ==
    ASSUME TypeOK, ConstantsAssumption, NEW w \in Workers, WorkerStep(w)
    PROVE  Life!LifeNext \/ UNCHANGED <<StatusOf, WorkOf>>
<1>. DEFINE t == job[w].id
<1>. USE DEF Life!Ids, Life!Write, Life!Release
<1>1. Local(w) /\ (Goes(w) \/ Leaves(w))
    BY WorkerFrame
<1>2. t \in TaskIds /\ t # 0 /\ WorkOf[w] = t /\ TaskIds = 1 .. MaxTask
    BY <1>1, BusyJob DEF Local, WorkOf, TaskIds, ConstantsAssumption
<1>3. ASSUME NEW s, task'[t].status = s
      PROVE  StatusOf' = [u \in TaskIds |-> IF u \in {t} THEN s ELSE StatusOf[u]]
    BY <1>1, <1>3 DEF Local, StatusOf
<1>4. ASSUME NEW i, job'[w].id = i PROVE WorkOf' = [WorkOf EXCEPT ![w] = i]
    BY <1>1, <1>4 DEF Local, WorkOf
<1>5. CASE task'[t].status = task[t].status /\ Goes(w)
    <2>1. WorkOf' = WorkOf
        BY <1>4, <1>5 DEF Goes, WorkOf
    <2>. QED
        BY <1>3, <1>5, <2>1 DEF StatusOf
<1>6. CASE task'[t].status = "running" /\ task[t].status # "running" /\ Goes(w)
    <2>1. WorkOf' = WorkOf
        BY <1>4, <1>6 DEF Goes, WorkOf
    <2>2. StatusOf[t] # "none"
        BY <1>1, <1>2, <1>6 DEF Local, StatusOf
    <2>3. Life!Begin(w)
        BY <1>2, <1>3, <1>6, <2>1, <2>2 DEF Life!Begin, StatusOf, WorkOf
    <2>. QED
        BY <2>3 DEF Life!LifeNext
<1>7. ASSUME Leaves(w) PROVE WorkOf' = [WorkOf EXCEPT ![w] = 0]
    <2>1. job'[w].id = 0
        BY <1>7 DEF Leaves, Exit, NoJob, TypeOK
    <2>. QED
        BY <1>4, <2>1
<1>8. CASE task'[t].status = task[t].status /\ Leaves(w)
    <2>1. StatusOf' = StatusOf
        BY <1>3, <1>8 DEF StatusOf
    <2>2. Life!Quit(w)
        BY <1>2, <1>7, <1>8, <2>1 DEF Life!Quit, StatusOf, WorkOf
    <2>. QED
        BY <2>2 DEF Life!LifeNext
<1>9. CASE task'[t].status \in {"success", "failed", "cancelled"} /\ Leaves(w)
    <2>1. StatusOf[t] # "none"
        BY <1>1, <1>2, <1>9 DEF Local, StatusOf
    <2>2. Life!Settle(w)
        BY <1>2, <1>3, <1>7, <1>9, <2>1 DEF Life!Settle, Life!Outcomes, StatusOf, WorkOf
    <2>. QED
        BY <2>2 DEF Life!LifeNext
<1>. QED
    BY <1>1, <1>5, <1>6, <1>8, <1>9 DEF Goes, Leaves

LEMMA QuietRefines ==
    ASSUME TypeOK, Quiet
    PROVE  Life!LifeNext \/ UNCHANGED <<StatusOf, WorkOf>>
<1>0. PICK T \in SUBSET Life!Ids : T = {t \in TaskIds : task'[t].status # task[t].status}
    BY DEF Life!Ids, TaskIds
<1>1. StatusOf' = [t \in TaskIds |-> IF t \in T THEN "failed" ELSE StatusOf[t]]
    BY <1>0 DEF Quiet, StatusOf
<1>2. \A t \in T : StatusOf[t] # "none"
    BY <1>0 DEF Quiet, StatusOf
<1>3. WorkOf' = WorkOf
    BY DEF Quiet, WorkOf
<1>4. Life!Reap(T)
    BY <1>1, <1>2, <1>3 DEF Life!Reap, Life!Write, Life!Ids, StatusOf, WorkOf, TaskIds
<1>. QED
    BY <1>4 DEF Life!LifeNext

LEMMA InsertsRefines ==
    ASSUME TypeOK, ConstantsAssumption, Inserts
    PROVE  Life!LifeNext
<1>1. PICK t \in TaskIds, w \in Workers :
        /\ task[t].status = "none" /\ pc[w] = "idle"
        /\ \E j \in JobType : j.id = t /\ job' = [job EXCEPT ![w] = j]
        /\ task'[t].status = "pending"
        /\ \A u \in TaskIds \ {t} : task'[u] = task[u]
    BY DEF Inserts
<1>2. WorkOf' = [WorkOf EXCEPT ![w] = t]
    BY <1>1 DEF WorkOf, TypeOK
<1>3. StatusOf' = [u \in TaskIds |-> IF u \in {t} THEN "pending" ELSE StatusOf[u]]
    BY <1>1 DEF StatusOf
<1>4. StatusOf[t] = "none" /\ WorkOf[w] = 0
    BY <1>1 DEF StatusOf, WorkOf, TypeOK, Busy
<1>5. Life!Submit(w, t)
    BY <1>2, <1>3, <1>4 DEF Life!Submit, Life!Write, Life!Ids, StatusOf, WorkOf, TaskIds
<1>. QED
    BY <1>5 DEF Life!LifeNext, Life!Ids, TaskIds

LEMMA OtherRefines ==
    ASSUME TypeOK, ConstantsAssumption, OtherStep
    PROVE  Life!LifeNext \/ UNCHANGED <<StatusOf, WorkOf>>
<1>. USE DEF reqVars, histVars, memVars, dbVars, wkVars
<1>1. ASSUME UNCHANGED <<task, job>> PROVE UNCHANGED <<StatusOf, WorkOf>>
    BY <1>1 DEF StatusOf, WorkOf
<1>2. ASSUME NEW t \in TaskIds, GrowStale(t) PROVE UNCHANGED <<StatusOf, WorkOf>>
    <2>1. \A u \in TaskIds : task'[u].status = task[u].status
        BY <1>2 DEF GrowStale, Aged, TypeOK, TaskRow
    <2>. QED
        BY <1>2, <2>1 DEF GrowStale, StatusOf, WorkOf
<1>3. ASSUME NEW cs, NEW kept, Purge(cs, kept), job' = job PROVE Life!LifeNext
    <2>0. PICK gone \in SUBSET Life!Ids :
                gone = {t \in TaskIds : TaskExists(t) /\ task[t].chapter \in cs}
        BY DEF Life!Ids, TaskIds
    <2>1. StatusOf' = [t \in TaskIds |-> IF t \in gone THEN "none" ELSE StatusOf[t]]
        BY <1>3, <2>0 DEF Purge, StatusOf, NoTaskRow
    <2>2. WorkOf' = WorkOf
        BY <1>3 DEF WorkOf
    <2>3. Life!Forget(gone)
        BY <2>1, <2>2 DEF Life!Forget, Life!Write, Life!Ids, StatusOf, WorkOf, TaskIds
    <2>. QED
        BY <2>3 DEF Life!LifeNext
<1>4. CASE Restart
    <2>0. PICK open \in SUBSET Life!Ids : open = {t \in TaskIds : IsActive(t)}
        BY DEF Life!Ids, TaskIds
    <2>1. \A t \in TaskIds : task'[t].status = IF t \in open THEN "cancelled" ELSE task[t].status
        <3>1. \A t \in TaskIds : Stamp(task[t], "cancelled").status = "cancelled"
            BY StampType DEF TypeOK, TaskStatuses
        <3>. QED
            BY <1>4, <2>0, <3>1 DEF Restart, ResetTasks, SetTasks
    <2>2. StatusOf' = [t \in TaskIds |-> IF t \in open THEN "cancelled" ELSE StatusOf[t]]
        BY <2>1 DEF StatusOf
    <2>3. WorkOf' = [w \in Workers |-> 0]
        BY <1>4 DEF Restart, NoJob, WorkOf
    <2>4. \A t \in open : StatusOf[t] \in {"pending", "running"}
        BY <2>0 DEF IsActive, Active, StatusOf
    <2>5. Life!Crash(open)
        BY <2>2, <2>3, <2>4 DEF Life!Crash, Life!Write, Life!IsOpen, Life!Open, Life!Ids,
                                StatusOf, WorkOf, TaskIds
    <2>. QED
        BY <2>5 DEF Life!LifeNext
<1>5. ASSUME NEW c \in Chapters, DeleteChapter(c) PROVE Life!LifeNext
    BY <1>3, <1>5 DEF DeleteChapter
<1>6. CASE DeleteCourse
    BY <1>3, <1>6 DEF DeleteCourse
<1>. QED
    BY <1>1, <1>2, <1>4, <1>5, <1>6
       DEF OtherStep, Cancel, Patch, DeleteBegin, DeleteCommit, ClearKnowledge

\* Pages, requests, deletions and restarts included: seen from its row and its
\* thread, a document task does nothing that TaskLife does not allow.
THEOREM DocTaskRefinesTaskLife == Spec => ImplementsTaskLife
<1>1. Init => Life!LifeInit
    BY DEF Init, Life!LifeInit, Life!Ids, NoTaskRow, NoJob, TaskIds
<1>2. TypeOK /\ [Next]_vars => [Life!LifeNext]_(Life!lifeVars)
    <2>. SUFFICES ASSUME TypeOK, [Next]_vars
                 PROVE  Life!LifeNext \/ UNCHANGED <<StatusOf, WorkOf>>
        BY DEF Life!lifeVars, StatusOf, WorkOf
    <2>1. ASSUME NEW r \in Requests, RequestStep(r)
          PROVE  Life!LifeNext \/ UNCHANGED <<StatusOf, WorkOf>>
        BY <2>1, RequestFrame, QuietRefines, InsertsRefines, ConstantsAssumption
    <2>2. CASE ViewStep
        BY <2>2, ViewFrame, QuietRefines
    <2>3. CASE UNCHANGED vars
        BY <2>3 DEF vars, dbVars, wkVars, StatusOf, WorkOf
    <2>. QED
        BY <2>1, <2>2, <2>3, NextSplit, WorkerRefines, OtherRefines, ConstantsAssumption
<1>. QED
    BY <1>1, <1>2, TypeCorrect, PTL DEF Spec, ImplementsTaskLife, Life!LifeSpec
=============================================================================
