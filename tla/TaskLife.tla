------------------------------ MODULE TaskLife ------------------------------
(***************************************************************************)
(* What the background tasks of the backend promise to everybody who only  *)
(* sees their rows: document_process_tasks, course_reindex_tasks and       *)
(* question_generation_tasks alike.  A task is submitted together with the *)
(* thread that will work on it; only that thread can start it or make it a *)
(* success; others can fail it or delete its row; a crash takes every      *)
(* thread away.  DocTask and CourseIndex implement this module, and the    *)
(* pages of the frontend are modelled against it.                          *)
(***************************************************************************)
EXTENDS Naturals

CONSTANTS Threads,   \* background threads
          MaxId      \* bound on the ids of tasks

VARIABLES status,    \* the column status of each row
          work       \* the task each thread works on, 0 when it is idle

lifeVars == <<status, work>>

Ids      == 1 .. MaxId
Open     == {"pending", "running"}
Outcomes == {"success", "failed", "cancelled"}
Statuses == {"none"} \cup Open \cup Outcomes

IsOpen(t) == status[t] \in Open
Write(T, s) == [t \in Ids |-> IF t \in T THEN s ELSE status[t]]
Release(w)  == [work EXCEPT ![w] = 0]

LifeInit ==
    /\ status = [t \in Ids |-> "none"]
    /\ work = [w \in Threads |-> 0]

\* A request inserts the row and dispatches the thread.
Submit(w, t) ==
    /\ work[w] = 0
    /\ status[t] = "none"
    /\ status' = Write({t}, "pending")
    /\ work' = [work EXCEPT ![w] = t]

\* The thread marks its row.
Begin(w) ==
    /\ work[w] # 0
    /\ status[work[w]] # "none"
    /\ status' = Write({work[w]}, "running")
    /\ UNCHANGED work

\* The thread ends with an outcome ...
Settle(w) ==
    /\ work[w] # 0
    /\ status[work[w]] # "none"
    /\ \E s \in Outcomes : status' = Write({work[w]}, s)
    /\ work' = Release(w)

\* ... or without one: its row is gone, it was cancelled before its start, or it died.
Quit(w) ==
    /\ work[w] # 0
    /\ work' = Release(w)
    /\ UNCHANGED status

\* Somebody else gives up on tasks that were open when it looked ...
Reap(T) ==
    /\ \A t \in T : status[t] # "none"
    /\ status' = Write(T, "failed")
    /\ UNCHANGED work

\* ... or deletes their rows, with a chapter or a course.
Forget(T) ==
    /\ status' = Write(T, "none")
    /\ UNCHANGED work

\* The process restarts; the tasks of T are those its startup resets.
Crash(T) ==
    /\ \A t \in T : IsOpen(t)
    /\ status' = Write(T, "cancelled")
    /\ work' = [w \in Threads |-> 0]

LifeNext ==
    \/ \E w \in Threads : Begin(w) \/ Settle(w) \/ Quit(w) \/ \E t \in Ids : Submit(w, t)
    \/ \E T \in SUBSET Ids : Reap(T) \/ Forget(T) \/ Crash(T)

LifeSpec == LifeInit /\ [][LifeNext]_lifeVars
=============================================================================
