---------------------------- MODULE CoursesPage ----------------------------
(***************************************************************************)
(* The tracker of reindex tasks of pages/teacher/TeacherCourses.tsx: the   *)
(* button that submits a task, the poll loop of a task, the list of active *)
(* tasks read every five seconds, and the cache in localStorage that finds *)
(* the tasks of an earlier visit again.  The page tells the statuses of    *)
(* TaskLife apart only as open (pending, running) and settled (success,    *)
(* failed), and sees no thread: a task may stay open for ever.  Answers    *)
(* come in any order, any time after they were read, or never.             *)
(***************************************************************************)
EXTENDS Tab, Lists

CONSTANTS Courses,     \* courses of the teacher
          NoCourse,
          MaxId,       \* bound on the ids of course_reindex_tasks
          MaxPoll,     \* GETs of one poll loop (180)
          CacheSize,   \* ids kept in localStorage (30)
          MaxJobs,     \* bound on loads and syncs in flight
          MaxPosts     \* bound on submissions in flight

ASSUME CoursesAssumption ==
    /\ MaxId \in Nat /\ MaxMounts \in Nat /\ MaxPoll \in Nat \ {0}
    /\ CacheSize \in Nat \ {0} /\ MaxJobs \in Nat /\ MaxPosts \in Nat
    /\ NoCourse \notin Courses

VARIABLES
    courses,    \* rows of courses
    rows,       \* course_reindex_tasks
    courseOf,   \* course of each task
    listed,     \* the courses a mount shows (listRef)
    entry,      \* reindexTaskByCourse of each mount, 0 when there is none
    notified,   \* notifiedReindexTaskIdsRef of each mount
    cache,      \* teacher:reindex-task-cache
    polls,      \* poll loops
    jobs,       \* load and syncActiveReindexTasks
    posts,      \* POST /courses/{id}/reindex
    deleted     \* history: tasks whose row was deleted

coursesVars == <<tabVars, courses, rows, courseOf, listed, entry, notified, cache, polls, jobs,
                 posts, deleted>>

Ids    == 1 .. MaxId
Asked  == MaxId + 1               \* the placeholder {taskId: -1, status: "pending"}
Shown  == Ids \cup {0, Asked}
Row    == {"none", "open", "settled"}

\* "wait": the timer of the loop.  "sent": the server has not read the row yet.
Seen  == {"wait", "sent"} \cup Row
Query == [task : Ids \cup {Asked}, seen : Seen, course : Courses \cup {NoCourse}]
Poll  == [page : Mounts, course : Courses, task : Ids, tries : 0 .. MaxPoll - 1, seen : Seen]
Job   == [page : Mounts, phase : {"load", "recover", "ask", "got", "settle"}, shown : SUBSET Courses,
          active : [Courses -> Ids \cup {0}], left : SUBSET Query]
Post  == [page : Mounts, k : 1 .. MaxPosts, course : Courses,
          phase : {"sent", "new", "ok"}, task : Ids \cup {0}]

RowOf(t)     == IF t \in Ids THEN rows[t] ELSE "none"
RowCourse(t) == IF t \in Ids THEN courseOf[t] ELSE NoCourse
OpenOf(c)    == {t \in Ids : courseOf[t] = c /\ rows[t] = "open"}
Sent(T)      == [task : T, seen : {"sent"}, course : {NoCourse}]
Cached       == {cache[i] : i \in DOMAIN cache}
NewJob(ph)   == [page |-> mount, phase |-> ph, shown |-> {},
                 active |-> [c \in Courses |-> 0], left |-> {}]

\* The newest active task of each course, as GET /courses/reindex/active lists them.
Active ==
    [c \in Courses |->
        IF OpenOf(c) = {} THEN 0 ELSE CHOOSE t \in OpenOf(c) : \A u \in OpenOf(c) : u <= t]

CoursesInit ==
    /\ TabInit
    /\ courses = Courses
    /\ rows = [t \in Ids |-> "none"]
    /\ courseOf = [t \in Ids |-> NoCourse]
    /\ listed = [p \in Mounts |-> {}]
    /\ entry = [p \in Mounts |-> [c \in Courses |-> 0]]
    /\ notified = {} /\ cache = <<>>
    /\ polls = {} /\ jobs = {} /\ posts = {}
    /\ deleted = {}

----------------------------------------------------------------------------
(* localStorage, toasts and React state *)

Without(s, T) == Keeping(s, {i \in DOMAIN s : s[i] \notin T})

\* Mutant: the cache is written without slice(-30).
NewestAll(s) == s

Newest(s) == IF Len(s) > CacheSize THEN SubSeq(s, Len(s) - CacheSize + 1, Len(s)) ELSE s

\* upsertCachedReindexTask for one task or for several.
Remember(s) == cache' = Newest(Without(cache, {s[i] : i \in DOMAIN s}) \o s)

\* The toast of an outcome, at most once for each mount, and the end of its cache entry.
Announce(p, t) ==
    /\ notified' = notified \cup {<<p, t>>}
    /\ cache' = Without(cache, {t})

Show(p, c, e) == IF Alive(p) THEN [entry EXCEPT ![p][c] = e] ELSE entry

NewPoll(p, c, t) == [page |-> p, course |-> c, task |-> t, tries |-> 0, seen |-> "sent"]
Polling(p, t)    == \E q \in polls : q.page = p /\ q.task = t

\* pollReindexTask: one loop for each task of a mount, none once it is gone.
Started(p, T) ==
    {NewPoll(p, x[1], x[2]) : x \in {y \in T : Alive(p) /\ ~Polling(p, y[2])}}

----------------------------------------------------------------------------
(* The poll loop *)

\* The timer fires: the next GET, or the end when the page is gone.
PollSend(q) ==
    /\ q.seen = "wait"
    /\ polls' = (polls \ {q}) \cup (IF Alive(q.page) THEN {[q EXCEPT !.seen = "sent"]} ELSE {})
    /\ UNCHANGED <<tabVars, courses, rows, courseOf, listed, entry, notified, cache, jobs, posts,
                   deleted>>

PollRead(q) ==
    /\ q.seen = "sent"
    /\ polls' = (polls \ {q}) \cup {[q EXCEPT !.seen = RowOf(q.task)]}
    /\ UNCHANGED <<tabVars, courses, rows, courseOf, listed, entry, notified, cache, jobs, posts,
                   deleted>>

\* Mutant: an outcome is announced and the button is left to the next sync.
PollSettledKeeps(q) ==
    /\ q.seen = "settled"
    /\ Announce(q.page, q.task)
    /\ entry' = Show(q.page, q.course, q.task)
    /\ polls' = polls \ {q}
    /\ UNCHANGED <<tabVars, courses, rows, courseOf, listed, jobs, posts, deleted>>

\* An outcome: the entry is overwritten, then deleted.
PollSettled(q) ==
    /\ q.seen = "settled"
    /\ Announce(q.page, q.task)
    /\ entry' = Show(q.page, q.course, 0)
    /\ polls' = polls \ {q}
    /\ UNCHANGED <<tabVars, courses, rows, courseOf, listed, jobs, posts, deleted>>

\* The entry an answer leaves: a GET that failed leaves what is there.
Refreshed(q) == IF q.seen = "open" THEN q.task ELSE entry[q.page][q.course]

\* The task is still open, its row is gone or the GET failed: on to the next round ...
PollAgain(q) ==
    /\ q.tries + 1 < MaxPoll
    /\ polls' = (polls \ {q}) \cup {[q EXCEPT !.seen = "wait", !.tries = @ + 1]}
    /\ entry' = Show(q.page, q.course, Refreshed(q))
    /\ UNCHANGED notified

\* Mutant: the last round forgets the entry.
PollGiveUpKeeps(q) ==
    /\ q.tries + 1 = MaxPoll
    /\ polls' = polls \ {q}
    /\ notified' = notified \cup {<<q.page, q.task>>}
    /\ entry' = Show(q.page, q.course, Refreshed(q))

\* ... or, after the last one, a toast and the end of the entry.
PollGiveUp(q) ==
    /\ q.tries + 1 = MaxPoll
    /\ polls' = polls \ {q}
    /\ notified' = notified \cup {<<q.page, q.task>>}
    /\ entry' = IF Refreshed(q) = q.task THEN Show(q.page, q.course, 0) ELSE entry

PollOn(q) ==
    /\ q.seen \in {"open", "none"}
    /\ PollAgain(q) \/ PollGiveUp(q)
    /\ UNCHANGED <<tabVars, courses, rows, courseOf, listed, cache, jobs, posts, deleted>>

\* The network loses the request or its answer: the catch treats it like a 404.
PollLose(q) ==
    /\ q.seen = "sent"
    /\ polls' = (polls \ {q}) \cup {[q EXCEPT !.seen = "none"]}
    /\ UNCHANGED <<tabVars, courses, rows, courseOf, listed, entry, notified, cache, jobs, posts,
                   deleted>>

PollStep(q) == PollSend(q) \/ PollRead(q) \/ PollSettled(q) \/ PollOn(q) \/ PollLose(q)

----------------------------------------------------------------------------
(* Loads and syncs *)

Replace(j, k) == jobs' = (jobs \ {j}) \cup {k}
Start(j)      == Cardinality(jobs) < MaxJobs /\ j \notin jobs /\ jobs' = jobs \cup {j}

\* The page opens and loads its list; the interval syncs from then on.
OpenPage ==
    /\ Mount
    /\ jobs' = jobs \cup {[NewJob("load") EXCEPT !.page = mount + 1]}
    /\ UNCHANGED <<courses, rows, courseOf, listed, entry, notified, cache, polls, posts, deleted>>

ClosePage ==
    /\ Unmount
    /\ UNCHANGED <<courses, rows, courseOf, listed, entry, notified, cache, polls, jobs, posts,
                   deleted>>

\* The interval fires, or a course was created or edited and the list is read again.
SyncTick ==
    /\ mounted
    /\ \E ph \in {"ask", "load"} : Start(NewJob(ph))
    /\ UNCHANGED <<tabVars, courses, rows, courseOf, listed, entry, notified, cache, polls, posts,
                   deleted>>

\* A course is deleted with its tasks; its reply loads the list again.
DeleteCourse(c) ==
    /\ mounted
    /\ c \in courses /\ courses' = courses \ {c}
    /\ rows' = [t \in Ids |-> IF courseOf[t] = c THEN "none" ELSE rows[t]]
    /\ courseOf' = [t \in Ids |-> IF courseOf[t] = c THEN NoCourse ELSE courseOf[t]]
    /\ deleted' = deleted \cup {t \in Ids : courseOf[t] = c}
    /\ Start(NewJob("load"))
    /\ UNCHANGED <<tabVars, listed, entry, notified, cache, polls, posts>>

\* The list arrives: the cached tasks are asked for, then the active ones; or it
\* fails, and the page shows no course.
LoadArrives(j) ==
    /\ j.phase = "load"
    /\ \/ /\ listed' = [listed EXCEPT ![j.page] = courses]
          /\ Replace(j, IF Cached = {} THEN [j EXCEPT !.phase = "ask"]
                        ELSE [j EXCEPT !.phase = "recover", !.shown = courses,
                                       !.left = Sent(Cached)])
       \/ /\ listed' = [listed EXCEPT ![j.page] = {}]
          /\ jobs' = jobs \ {j}
    /\ UNCHANGED <<tabVars, courses, rows, courseOf, entry, notified, cache, polls, posts, deleted>>

\* The server reads the row a job asked for; the network may lose it.
JobRead(j, x) ==
    /\ x \in j.left /\ x.seen = "sent"
    /\ \E y \in {[x EXCEPT !.seen = RowOf(x.task), !.course = RowCourse(x.task)],
                  [x EXCEPT !.seen = "none"]} :
          Replace(j, [j EXCEPT !.left = (@ \ {x}) \cup {y}])
    /\ UNCHANGED <<tabVars, courses, rows, courseOf, listed, entry, notified, cache, polls, posts,
                   deleted>>

\* Mutant: an error of the query drops the task from the cache.
QueryFailsForgets(x) == cache' = Without(cache, {x.task}) /\ UNCHANGED notified

\* catch { ignore and wait next sync }
QueryFails(x) == UNCHANGED <<cache, notified>>

\* recoverCachedReindexTasks handles one answer; after the last one the load syncs.
Recover(j, x) ==
    /\ j.phase = "recover" /\ x \in j.left /\ x.seen # "sent"
    /\ IF x.seen = "open" /\ x.course \in j.shown
       THEN /\ entry' = Show(j.page, x.course, x.task)
            /\ polls' = polls \cup Started(j.page, {<<x.course, x.task>>})
       ELSE UNCHANGED <<entry, polls>>
    /\ \/ x.seen = "settled" /\ x.course \in j.shown /\ Announce(j.page, x.task)
       \/ x.seen = "none" /\ QueryFails(x)
       \/ (x.seen = "open" \/ (x.seen = "settled" /\ x.course \notin j.shown)) /\ UNCHANGED <<notified, cache>>
    /\ Replace(j, IF j.left = {x} THEN [j EXCEPT !.phase = "ask", !.shown = {}, !.left = {}]
                  ELSE [j EXCEPT !.left = @ \ {x}])
    /\ UNCHANGED <<tabVars, courses, rows, courseOf, listed, posts, deleted>>

\* syncActiveReindexTasks: the server lists the active tasks; an error ends the sync.
SyncRead(j) ==
    /\ j.phase = "ask"
    /\ \/ Replace(j, [j EXCEPT !.phase = "got", !.active = Active])
       \/ jobs' = jobs \ {j}
    /\ UNCHANGED <<tabVars, courses, rows, courseOf, listed, entry, notified, cache, polls, posts,
                   deleted>>

Inactive(j, c) == j.active[c] = 0

\* The entry of a course after the sync.
Synced(j, c) ==
    IF c \in listed[j.page] THEN j.active[c] ELSE 0

\* The end of a sync: entries follow the list, and its tasks are polled.
Conclude(j) ==
    LET p == j.page IN
    /\ entry' = IF Alive(p) THEN [entry EXCEPT ![p] = [c \in Courses |-> Synced(j, c)]] ELSE entry
    /\ polls' = polls \cup Started(p, {<<c, j.active[c]>> : c \in {d \in listed[p] : ~Inactive(j, d)}})
    /\ jobs' = jobs \ {j}

\* Entries of the page whose course has no active task any more.
Disappeared(j) == {entry[j.page][c] : c \in {d \in Courses : entry[j.page][d] # 0 /\ Inactive(j, d)}}

\* The list arrives: its tasks are cached, those that disappeared are asked for.
SyncArrives(j) ==
    /\ j.phase = "got"
    /\ LET A == {j.active[c] : c \in {d \in Courses : ~Inactive(j, d)}}
       IN  \E s \in [1 .. Cardinality(A) -> A] :
              /\ \A t \in A : \E i \in DOMAIN s : s[i] = t
              /\ Remember(s)
    /\ IF Disappeared(j) = {} THEN Conclude(j)
       ELSE /\ Replace(j, [j EXCEPT !.phase = "settle", !.left = Sent(Disappeared(j))])
            /\ UNCHANGED <<entry, polls>>
    /\ UNCHANGED <<tabVars, courses, rows, courseOf, listed, notified, posts, deleted>>

\* The answer for one that disappeared; the sync ends with the last of them.
Disappear(j, x) ==
    /\ j.phase = "settle" /\ x \in j.left /\ x.seen # "sent"
    /\ IF x.seen = "settled" THEN Announce(j.page, x.task) ELSE UNCHANGED <<notified, cache>>
    /\ IF j.left = {x} THEN Conclude(j)
       ELSE Replace(j, [j EXCEPT !.left = @ \ {x}]) /\ UNCHANGED <<entry, polls>>
    /\ UNCHANGED <<tabVars, courses, rows, courseOf, listed, posts, deleted>>

----------------------------------------------------------------------------
(* The button *)

\* doReindex: the button is disabled while its course has an entry.
DoReindex(c) ==
    /\ mounted
    /\ c \in listed[mount] /\ entry[mount][c] = 0
    /\ entry' = Show(mount, c, Asked)
    /\ \E k \in 1 .. MaxPosts :
          /\ \A x \in posts : x.k # k
          /\ posts' = posts \cup {[page |-> mount, k |-> k, course |-> c, phase |-> "sent",
                                   task |-> 0]}
    /\ UNCHANGED <<tabVars, courses, rows, courseOf, listed, notified, cache, polls, jobs, deleted>>

Answer(x, ph, e) == posts' = (posts \ {x}) \cup {[x EXCEPT !.phase = ph, !.task = e]}

\* The server looks for an open task of the course: one is the answer, none leads to
\* an INSERT; several are an error, and so is a course that is gone (PostBad).
PostCheck(x) ==
    /\ x.phase = "sent"
    /\ LET T == OpenOf(x.course) IN
       \/ x.course \in courses /\ T = {} /\ Answer(x, "new", 0)
       \/ \E t \in T : T = {t} /\ Answer(x, "ok", t)
    /\ UNCHANGED <<tabVars, courses, rows, courseOf, listed, entry, notified, cache, polls, jobs,
                   deleted>>

PostInsert(x) ==
    /\ x.phase = "new" /\ x.course \in courses
    /\ \E t \in Ids :
          /\ rows[t] = "none" /\ rows' = [rows EXCEPT ![t] = "open"]
          /\ courseOf' = [courseOf EXCEPT ![t] = x.course]
          /\ Answer(x, "ok", t)
    /\ UNCHANGED <<tabVars, courses, listed, entry, notified, cache, polls, jobs, deleted>>

\* The reply: the task is shown, cached and polled ...
PostOk(x) ==
    /\ x.phase = "ok"
    /\ entry' = Show(x.page, x.course, x.task)
    /\ Remember(<<x.task>>)
    /\ polls' = polls \cup Started(x.page, {<<x.course, x.task>>})
    /\ posts' = posts \ {x}
    /\ UNCHANGED <<tabVars, courses, rows, courseOf, listed, notified, jobs, deleted>>

\* ... or an error, of the server or of the network at any time: the entry of the
\* course is deleted, whoever made it.
PostBad(x) ==
    /\ entry' = Show(x.page, x.course, 0)
    /\ posts' = posts \ {x}
    /\ UNCHANGED <<tabVars, courses, rows, courseOf, listed, notified, cache, polls, jobs, deleted>>

PostStep(x) == PostCheck(x) \/ PostInsert(x) \/ PostOk(x) \/ PostBad(x)

----------------------------------------------------------------------------
(* The server's side and the specification *)

\* The thread of a task settles it; no fairness says that it does.
SettleRow(t) ==
    /\ rows[t] = "open"
    /\ rows' = [rows EXCEPT ![t] = "settled"]
    /\ UNCHANGED <<tabVars, courses, courseOf, listed, entry, notified, cache, polls, jobs, posts,
                   deleted>>

JobStep(j) ==
    \/ LoadArrives(j) \/ SyncRead(j) \/ SyncArrives(j)
    \/ \E x \in j.left : JobRead(j, x) \/ Recover(j, x) \/ Disappear(j, x)

CoursesNext ==
    \/ OpenPage \/ ClosePage \/ SyncTick
    \/ \E c \in Courses : DeleteCourse(c) \/ DoReindex(c)
    \/ \E q \in polls : PollStep(q)
    \/ \E j \in jobs : JobStep(j)
    \/ \E x \in posts : PostStep(x)
    \/ \E t \in Ids : SettleRow(t)

CoursesSpec == CoursesInit /\ [][CoursesNext]_coursesVars

PollOf(p, t) == \E q \in polls : q.page = p /\ q.task = t /\ PollStep(q)
PostOf(k)    == \E x \in posts : x.k = k /\ PostStep(x)

\* A loop has 180 rounds and a timer for each; fetch resolves or rejects.
CoursesFairness ==
    /\ \A p \in Mounts, t \in Ids : WF_coursesVars(PollOf(p, t))
    /\ \A k \in 1 .. MaxPosts : WF_coursesVars(PostOf(k))

----------------------------------------------------------------------------
(* Properties *)

CoursesTypeOK ==
    /\ mount \in 0 .. MaxMounts /\ mounted \in BOOLEAN
    /\ courses \subseteq Courses
    /\ rows \in [Ids -> Row]
    /\ courseOf \in [Ids -> Courses \cup {NoCourse}]
    /\ listed \in [Mounts -> SUBSET Courses]
    /\ entry \in [Mounts -> [Courses -> Shown]]
    /\ notified \subseteq Mounts \X Ids
    /\ cache \in Seq(Ids) /\ Len(cache) <= CacheSize
    /\ polls \subseteq Poll /\ jobs \subseteq Job /\ posts \subseteq Post
    /\ deleted \subseteq Ids

\* The button of a course says "indexing" only while something will make it stop:
\* a loop that polls the task it shows, or the submission that put it there.  The
\* one exception is a task whose row was deleted and whose id is in use again.
SpinnerHasPoller ==
    mounted => \A c \in Courses :
        LET e == entry[mount][c] IN
        \/ e = 0
        \/ e \in deleted
        \/ \E q \in polls : q.page = mount /\ q.task = e
        \/ \E x \in posts : x.page = mount /\ x.course = c

\* So the button comes back: with no open task of its course on the server, the
\* entry goes or a new task does, whatever the syncs in flight do.
SpinnerEnds ==
    \A c \in Courses, p \in Mounts :
        (Alive(p) /\ entry[p][c] # 0 /\ OpenOf(c) = {})
            ~> (~Alive(p) \/ entry[p][c] = 0 \/ OpenOf(c) # {} \/ deleted # {})

\* A task leaves the cache only when a mount told its end (or that it takes long),
\* or when CacheSize newer ones pushed it out: an error of the network does not
\* make the next visit forget it.
CacheKeeps ==
    [][\A t \in Cached \ Cached' :
          \/ \E p \in Mounts : <<p, t>> \in notified'
          \/ Len(cache') = CacheSize]_coursesVars
=============================================================================
