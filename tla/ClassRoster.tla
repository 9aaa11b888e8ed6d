----------------------------- MODULE ClassRoster -----------------------------
(***************************************************************************)
(* Classes and their students: the membership rows, the redundant counter  *)
(* classes.student_count, the legacy column users.class_id, the handlers   *)
(* that read a class and its members, compute, and write back              *)
(* (api/teacher.py, api/admin.py), and the startup migrations that         *)
(* recompute the counter (db/session.py).  One teacher, who owns every     *)
(* class.  SQLite checks no foreign key and gives the id of a deleted last *)
(* row out again.                                                          *)
(***************************************************************************)
EXTENDS Integers, FiniteSets

CONSTANTS Students,   \* ids of users
          Classes,    \* ids of classes
          Requests,   \* handlers in flight at once
          MaxEvents,  \* bound on administrator's actions and restarts
          MaxCount    \* bound on a counter, which races can push up without end

ASSUME RosterAssumption ==
    /\ Students \subseteq Nat \ {0} /\ IsFiniteSet(Students)
    /\ Classes \subseteq Nat \ {0}
    /\ MaxEvents \in Nat /\ MaxCount \in Nat

VARIABLES
    user,      \* "none" (no such row), "student", or "other" role
    legacy,    \* users.class_id, 0 for NULL
    exists,    \* the rows of classes ...
    count,     \* ... and their student_count
    members,   \* student_class_memberships, by class (the pair is unique)
    req,       \* requests between their reads and their commit
    events,
    raced,     \* history: requests whose class was written to since they read it
    tainted    \* history: classes that a race or a left-over row got wrong

reqVars == <<req, raced>>
vars    == <<user, legacy, exists, count, members, reqVars, events, tainted>>

NoClass == 0
Kinds   == {"assign", "import", "remove", "delete"}

\* who: the students a request names.  snap: student_count as it was read.
\* now: memberships it has decided to write.  rest: students it will look at later.
Req   == [pc : {"idle", "loaded", "commit"}, kind : Kinds, class : Classes \cup {NoClass},
          who : SUBSET Students, snap : Nat, now : SUBSET Students, rest : SUBSET Students]
NoReq == [pc |-> "idle", kind |-> "assign", class |-> NoClass, who |-> {}, snap |-> 0,
          now |-> {}, rest |-> {}]
Loaded(k, c, S, n) == [pc |-> "loaded", kind |-> k, class |-> c, who |-> S, snap |-> n,
                       now |-> {}, rest |-> {}]
Decided(q, now, rest) == [pc |-> "commit", kind |-> q.kind, class |-> q.class, who |-> q.who,
                          snap |-> q.snap, now |-> now, rest |-> rest]

\* The id of the next row of a table whose rows have the ids S.
IsNextId(i, S) ==
    /\ \A j \in S : j < i
    /\ i = 1 \/ i - 1 \in S

Rows  == {c \in Classes : exists[c]}
Users == {s \in Students : user[s] # "none"}

CountEvent == events < MaxEvents /\ events' = events + 1

\* users.class_id is only ever written when a fresh database is seeded.
Init ==
    /\ user = [s \in Students |-> "student"]
    /\ legacy \in [Students -> Classes \cup {NoClass}]
    /\ exists = [c \in Classes |-> FALSE]
    /\ count = [c \in Classes |-> 0]
    /\ members = [c \in Classes |-> {}]
    /\ req = [r \in Requests |-> NoReq]
    /\ events = 0
    /\ raced = {}
    /\ tainted = {}

----------------------------------------------------------------------------
(* The teacher's handlers *)

\* POST /classes: the new row has student_count 0 and the next id.
CreateClass(c) ==
    /\ IsNextId(c, Rows)
    /\ exists' = [exists EXCEPT ![c] = TRUE]
    /\ count' = [count EXCEPT ![c] = 0]
    /\ tainted' = IF members[c] = {} THEN tainted \ {c} ELSE tainted \cup {c}
    /\ UNCHANGED <<user, legacy, members, reqVars, events>>

\* _require_owned_class: the handler holds the row, with its counter, from here on.
Load(r, k, c, S) ==
    /\ req[r].pc = "idle"
    /\ exists[c]
    /\ CASE k = "remove" -> \E s \in S : S = {s}
         [] k = "delete" -> S = {}
         [] OTHER        -> S # {}
    /\ req' = [req EXCEPT ![r] = Loaded(k, c, S, count[c])]
    /\ UNCHANGED <<user, legacy, exists, count, members, events, raced, tainted>>

Found(r)   == {s \in req[r].who : user[s] = "student"}
Missing(r) == Found(r) \ members[req[r].class]

Answer(r) ==
    /\ req' = [req EXCEPT ![r] = NoReq]
    /\ raced' = raced \ {r}

\* assign looks the students up one by one and inserts the first that is missing;
\* the lookup of the next one flushes that row, so the others are looked up with
\* the write lock held, which is at the commit.
CheckAssign(r) ==
    /\ req[r].pc = "loaded" /\ req[r].kind = "assign"
    /\ IF Missing(r) = {}
       THEN Answer(r)
       ELSE /\ \E s \in Missing(r) :
                 /\ \A x \in Missing(r) : s <= x
                 /\ req' = [req EXCEPT ![r] = Decided(@, {s}, {x \in Found(r) : x > s})]
            /\ UNCHANGED raced
    /\ UNCHANGED <<user, legacy, exists, count, members, events, tainted>>

\* import looks all of them up at once.
CheckImport(r) ==
    /\ req[r].pc = "loaded" /\ req[r].kind = "import"
    /\ IF Missing(r) = {}
       THEN Answer(r)
       ELSE /\ req' = [req EXCEPT ![r] = Decided(@, Missing(r), {})]
            /\ UNCHANGED raced
    /\ UNCHANGED <<user, legacy, exists, count, members, events, tainted>>

\* remove finds its membership row or answers 404; delete collects them all.
CheckRemove(r) ==
    /\ req[r].pc = "loaded" /\ req[r].kind = "remove"
    /\ IF req[r].who \subseteq members[req[r].class]
       THEN /\ req' = [req EXCEPT ![r] = Decided(@, req[r].who, {})]
            /\ UNCHANGED raced
       ELSE Answer(r)
    /\ UNCHANGED <<user, legacy, exists, count, members, events, tainted>>

CheckDelete(r) ==
    /\ req[r].pc = "loaded" /\ req[r].kind = "delete"
    /\ req' = [req EXCEPT ![r] = Decided(@, members[req[r].class], {})]
    /\ UNCHANGED <<user, legacy, exists, count, members, events, raced, tainted>>

\* The other requests on the class of r have read rows that r now changes.
Races(r) == {x \in Requests \ {r} : req[x].pc # "idle" /\ req[x].class = req[r].class}

Write(r, S, n) ==
    LET c == req[r].class IN
    /\ members' = [members EXCEPT ![c] = S]
    /\ count' = [count EXCEPT ![c] = n]
    /\ req' = [req EXCEPT ![r] = NoReq]
    /\ raced' = (raced \cup Races(r)) \ {r}
    /\ tainted' = IF r \in raced THEN tainted \cup {c} ELSE tainted
    /\ UNCHANGED <<user, legacy, exists, events>>

Adding(r) == req[r].pc = "commit" /\ req[r].kind \in {"assign", "import"}

\* Mutant: the counter grows by the students looked at.
Counted(r) == req[r].now \cup req[r].rest

Added(r)  == req[r].now \cup (req[r].rest \ members[req[r].class])

CanAdd(r) == exists[req[r].class] /\ req[r].now \cap members[req[r].class] = {}

\* The counter is the one read at the start plus the rows inserted.
CommitAdd(r) ==
    /\ Adding(r) /\ CanAdd(r)
    /\ req[r].snap + Cardinality(Added(r)) <= MaxCount
    /\ Write(r, members[req[r].class] \cup Added(r), req[r].snap + Cardinality(Added(r)))

\* A row inserted meanwhile violates uq_student_class_membership, a class deleted
\* meanwhile makes the UPDATE a StaleDataError: a 500, and all is rolled back.
AbortAdd(r) ==
    /\ Adding(r) /\ ~CanAdd(r)
    /\ Answer(r)
    /\ UNCHANGED <<user, legacy, exists, count, members, events, tainted>>

Removing(r) == req[r].pc = "commit" /\ req[r].kind = "remove"

\* Mutant: the counter is not clamped.
OneLessUnclamped(n) == n - 1

\* max(0, student_count - 1)
OneLess(n) == IF n = 0 THEN 0 ELSE n - 1

\* The DELETE of a row that is gone is only a warning, the UPDATE of a class that is
\* gone an error; a counter that stays 0 is not written.
CommitRemove(r) ==
    LET c == req[r].class IN
    /\ Removing(r)
    /\ exists[c] \/ OneLess(req[r].snap) = req[r].snap
    /\ Write(r, members[c] \ req[r].now,
             IF OneLess(req[r].snap) = req[r].snap THEN count[c] ELSE OneLess(req[r].snap))

AbortRemove(r) ==
    /\ Removing(r)
    /\ ~exists[req[r].class] /\ OneLess(req[r].snap) # req[r].snap
    /\ Answer(r)
    /\ UNCHANGED <<user, legacy, exists, count, members, events, tainted>>

\* DELETE /classes/{class_id}: the rows it has read, and the class.
CommitDelete(r) ==
    LET c == req[r].class IN
    /\ req[r].pc = "commit" /\ req[r].kind = "delete"
    /\ members' = [members EXCEPT ![c] = @ \ req[r].now]
    /\ exists' = [exists EXCEPT ![c] = FALSE]
    /\ count' = [count EXCEPT ![c] = 0]
    /\ req' = [req EXCEPT ![r] = NoReq]
    /\ raced' = (raced \cup Races(r)) \ {r}
    /\ UNCHANGED <<user, legacy, events, tainted>>

----------------------------------------------------------------------------
(* The administrator *)

\* DELETE /admin/classes/{class_id} deletes the class and leaves its memberships.
AdminDeleteClass(c) ==
    /\ CountEvent
    /\ exists[c]
    /\ exists' = [exists EXCEPT ![c] = FALSE]
    /\ count' = [count EXCEPT ![c] = 0]
    /\ raced' = raced \cup {r \in Requests : req[r].pc # "idle" /\ req[r].class = c}
    /\ UNCHANGED <<user, legacy, members, req, tainted>>

\* DELETE /admin/users/{user_id} leaves the memberships of the user as well.
AdminDeleteUser(s) ==
    /\ CountEvent
    /\ s \in Users
    /\ user' = [user EXCEPT ![s] = "none"]
    /\ legacy' = [legacy EXCEPT ![s] = NoClass]
    /\ UNCHANGED <<exists, count, members, reqVars, tainted>>

AdminCreateUser(s) ==
    /\ CountEvent
    /\ IsNextId(s, Users)
    /\ user' = [user EXCEPT ![s] = "student"]
    /\ UNCHANGED <<legacy, exists, count, members, reqVars, tainted>>

\* PUT /admin/users/{user_id} with a role.
AdminSetRole(s) ==
    /\ CountEvent
    /\ s \in Users
    /\ \E role \in {"student", "other"} \ {user[s]} : user' = [user EXCEPT ![s] = role]
    /\ UNCHANGED <<legacy, exists, count, members, reqVars, tainted>>

----------------------------------------------------------------------------
(* Startup: init_db *)

\* _migrate_classes_student_count: UPDATE classes SET student_count = COUNT(members).
Recount == [c \in Classes |-> IF exists[c] THEN Cardinality(members[c]) ELSE 0]

\* _backfill_student_class_memberships: INSERT OR IGNORE from users.class_id.
Backfill == [c \in Classes |->
                members[c] \cup {s \in Students : user[s] = "student" /\ legacy[s] = c}]

\* init_db runs the two in this order; requests in flight are gone.
Restart ==
    /\ CountEvent
    /\ count' = Recount
    /\ members' = Backfill
    /\ tainted' = {c \in Rows : Backfill[c] # members[c]}
    /\ req' = [r \in Requests |-> NoReq]
    /\ raced' = {}
    /\ UNCHANGED <<user, legacy, exists>>

RequestStep(r) ==
    \/ \E k \in Kinds, c \in Classes, S \in SUBSET Students : Load(r, k, c, S)
    \/ CheckAssign(r) \/ CheckImport(r) \/ CheckRemove(r) \/ CheckDelete(r)
    \/ CommitAdd(r) \/ AbortAdd(r) \/ CommitRemove(r) \/ AbortRemove(r) \/ CommitDelete(r)

Next ==
    \/ \E r \in Requests : RequestStep(r)
    \/ \E c \in Classes : CreateClass(c) \/ AdminDeleteClass(c)
    \/ \E s \in Students : AdminDeleteUser(s) \/ AdminCreateUser(s) \/ AdminSetRole(s)
    \/ Restart

Spec == Init /\ [][Next]_vars

----------------------------------------------------------------------------
(* Properties *)

\* The tables and the requests keep their shape; a counter is never negative,
\* whatever wrong value a lost update left in it.
TypeOK ==
    /\ user \in [Students -> {"none", "student", "other"}]
    /\ legacy \in [Students -> Classes \cup {NoClass}]
    /\ exists \in [Classes -> BOOLEAN]
    /\ count \in [Classes -> Nat]
    /\ members \in [Classes -> SUBSET Students]
    /\ req \in [Requests -> Req]
    /\ \A r \in Requests : req[r].pc # "idle" => req[r].class \in Classes
    /\ events \in 0 .. MaxEvents
    /\ raced \subseteq Requests
    /\ tainted \subseteq Classes

\* student_count equals the number of membership rows of the class.  Only three
\* things break it: a commit computed from a counter that another request or a
\* deletion has overtaken, memberships left over from a deleted class of the same
\* id, and memberships backfilled at startup after the recount; a restart mends
\* the first two.
CountExact ==
    \A c \in Classes : exists[c] /\ c \notin tainted => count[c] = Cardinality(members[c])

\* The docstring of _migrate_classes_student_count: "按 student_class_memberships
\* 回填每个班级的真实人数".  After a startup every counter is the number of rows.
StartupCountExact ==
    [][Restart => \A c \in Rows : count'[c] = Cardinality(members'[c])]_vars
=============================================================================
