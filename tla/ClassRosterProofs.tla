-------------------------- MODULE ClassRosterProofs --------------------------
(***************************************************************************)
(* Type correctness of ClassRoster and the exactness of student_count, for *)
(* any finite set of students, any classes and any number of requests.     *)
(* CountExact is not inductive: a commit writes a number it read earlier.  *)
(* ReadInv says what a request that nobody has overtaken still knows.      *)
(***************************************************************************)
EXTENDS ClassRoster, FiniteSetTheorems, TLAPS

InFlight(r) == req[r].pc # "idle"

\* A removal names one student.
RemovesOne ==
    \A r \in Requests : InFlight(r) /\ req[r].kind = "remove"
        => \E s \in Students : req[r].who = {s}

\* A request that no write has overtaken has the current counter in its hands, and
\* the membership row it is going to delete is still there.
ReadInv ==
    \A r \in Requests : InFlight(r) /\ r \notin raced =>
        /\ exists[req[r].class]
        /\ req[r].snap = count[req[r].class]
        /\ Removing(r) => \E s \in members[req[r].class] : req[r].now = {s}

IInv == TypeOK /\ RemovesOne /\ ReadInv /\ CountExact

----------------------------------------------------------------------------
(* Lemmas on the operators *)

\* Membership sets are finite, so their cardinalities are numbers.
LEMMA MembersFinite ==
    ASSUME NEW S \in SUBSET Students
    PROVE  IsFiniteSet(S) /\ Cardinality(S) \in Nat
<1>1. IsFiniteSet(S)
  BY FS_Subset, RosterAssumption
<1>2. QED
  BY <1>1, FS_CardinalityType

\* Inserting rows that were not there adds their number.
LEMMA AddingCounts ==
    ASSUME NEW S \in SUBSET Students, NEW T \in SUBSET Students, S \cap T = {}
    PROVE  Cardinality(S \cup T) = Cardinality(S) + Cardinality(T)
<1>1. IsFiniteSet(S) /\ IsFiniteSet(T) /\ IsFiniteSet(S \cap T)
  BY MembersFinite
<1>2. Cardinality(S) \in Nat /\ Cardinality(T) \in Nat
  BY MembersFinite
<1>3. Cardinality(S \cup T) = Cardinality(S) + Cardinality(T) - Cardinality(S \cap T)
  BY <1>1, FS_Union
<1>4. Cardinality(S \cap T) = 0
  BY FS_EmptySet
<1>5. QED
  BY <1>2, <1>3, <1>4

\* Deleting a row that is there takes one off a counter that is not 0.
LEMMA RemovingCounts ==
    ASSUME NEW S \in SUBSET Students, NEW s \in S
    PROVE  /\ Cardinality(S) # 0
           /\ Cardinality(S \ {s}) = OneLess(Cardinality(S))
           /\ OneLess(Cardinality(S)) # Cardinality(S)
<1>1. IsFiniteSet(S) /\ Cardinality(S) \in Nat
  BY MembersFinite
<1>2. Cardinality(S \ {s}) = Cardinality(S) - 1
  BY <1>1, FS_RemoveElement
<1>3. Cardinality(S) # 0
  BY <1>1, FS_EmptySet
<1>4. QED
  BY <1>1, <1>2, <1>3 DEF OneLess

LEMMA OneLessType == ASSUME NEW n \in Nat PROVE OneLess(n) \in Nat
  BY DEF OneLess

LEMMA ReqTypes ==
    /\ NoReq \in Req /\ NoReq.pc = "idle"
    /\ \A k \in Kinds, c \in Classes, S \in SUBSET Students, n \in Nat :
         /\ Loaded(k, c, S, n) \in Req
         /\ Loaded(k, c, S, n).pc = "loaded" /\ Loaded(k, c, S, n).kind = k
         /\ Loaded(k, c, S, n).class = c /\ Loaded(k, c, S, n).who = S
         /\ Loaded(k, c, S, n).snap = n
    /\ \A q \in Req, S, T \in SUBSET Students :
         /\ Decided(q, S, T) \in Req
         /\ Decided(q, S, T).pc = "commit" /\ Decided(q, S, T).kind = q.kind
         /\ Decided(q, S, T).class = q.class /\ Decided(q, S, T).who = q.who
         /\ Decided(q, S, T).snap = q.snap /\ Decided(q, S, T).now = S
  BY DEF Req, NoReq, Loaded, Decided, Kinds, NoClass

----------------------------------------------------------------------------
(* The steps that change no table: a request reads, decides or gives up *)

tables == <<user, legacy, exists, count, members, events, tainted>>

\* Such a step keeps the invariant when the new request is as ReadInv wants it.
LEMMA QuietRequest ==
    ASSUME IInv, UNCHANGED tables, NEW r \in Requests, NEW q \in Req,
           req' = [req EXCEPT ![r] = q],
           raced' = raced \/ (raced' = raced \ {r} /\ q.pc = "idle"),
           q.pc # "idle" => q.class \in Classes,
           q.pc # "idle" /\ q.kind = "remove" => \E s \in Students : q.who = {s},
           q.pc # "idle" /\ r \notin raced =>
               /\ exists[q.class] /\ q.snap = count[q.class]
               /\ q.pc = "commit" /\ q.kind = "remove" =>
                    \E s \in members[q.class] : q.now = {s}
    PROVE  IInv'
<1> USE DEF IInv, tables
<1>1. req \in [Requests -> Req]
  BY DEF TypeOK
<1>2. req'[r] = q /\ \A x \in Requests \ {r} : req'[x] = req[x]
  BY <1>1
<1>3. \A x \in Requests \ {r} : x \in raced' <=> x \in raced
  OBVIOUS
<1>4. r \in raced' => r \in raced
  OBVIOUS
<1>5. TypeOK'
  <2>1. req' \in [Requests -> Req]
    BY <1>1
  <2>2. \A x \in Requests : req'[x].pc # "idle" => req'[x].class \in Classes
    BY <1>2 DEF TypeOK
  <2>3. raced' \subseteq Requests
    BY DEF TypeOK
  <2>4. QED
    BY <2>1, <2>2, <2>3 DEF TypeOK
<1>6. RemovesOne'
  BY <1>2 DEF RemovesOne, InFlight
<1>7. ReadInv'
  <2> SUFFICES ASSUME NEW x \in Requests, InFlight(x)', x \notin raced'
               PROVE  /\ exists[req'[x].class] /\ req'[x].snap = count[req'[x].class]
                      /\ req'[x].pc = "commit" /\ req'[x].kind = "remove"
                           => \E s \in members[req'[x].class] : req'[x].now = {s}
    BY DEF ReadInv, Removing
  <2>1. CASE x = r
    <3>1. r \notin raced
      BY <2>1, <1>2 DEF InFlight
    <3>2. QED
      BY <2>1, <3>1, <1>2 DEF InFlight
  <2>2. CASE x # r
    BY <2>2, <1>2, <1>3 DEF ReadInv, InFlight, Removing
  <2>3. QED
    BY <2>1, <2>2
<1>8. CountExact'
  BY DEF CountExact
<1>9. QED
  BY <1>5, <1>6, <1>7, <1>8

LEMMA AnswerInv ==
    ASSUME IInv, NEW r \in Requests, Answer(r), UNCHANGED tables
    PROVE  IInv'
<1>1. NoReq \in Req /\ NoReq.pc = "idle"
  BY ReqTypes
<1>2. QED
  BY <1>1, QuietRequest DEF Answer

LEMMA DecideInv ==
    ASSUME IInv, NEW r \in Requests, req[r].pc = "loaded",
           NEW S \in SUBSET Students, NEW T \in SUBSET Students,
           req[r].kind = "remove" => S = req[r].who /\ S \subseteq members[req[r].class],
           req' = [req EXCEPT ![r] = Decided(@, S, T)],
           raced' = raced, UNCHANGED tables
    PROVE  IInv'
<1> DEFINE q == Decided(req[r], S, T)
<1>1. req[r] \in Req /\ req[r].class \in Classes
  BY DEF IInv, TypeOK
<1>2. /\ q \in Req /\ q.pc = "commit" /\ q.kind = req[r].kind /\ q.class = req[r].class
      /\ q.who = req[r].who /\ q.snap = req[r].snap /\ q.now = S
  BY <1>1, ReqTypes
<1>3. InFlight(r)
  BY DEF InFlight
<1>4. req[r].kind = "remove" => \E s \in Students : req[r].who = {s}
  BY <1>3 DEF IInv, RemovesOne
<1>5. r \notin raced => exists[req[r].class] /\ req[r].snap = count[req[r].class]
  BY <1>3 DEF IInv, ReadInv
<1>6. req[r].kind = "remove" => \E s \in members[req[r].class] : S = {s}
  BY <1>4
<1>7. req' = [req EXCEPT ![r] = q]
  OBVIOUS
<1> HIDE DEF q
<1>8. /\ q.class \in Classes
      /\ q.kind = "remove" => \E s \in Students : q.who = {s}
      /\ r \notin raced => exists[q.class] /\ q.snap = count[q.class]
      /\ q.kind = "remove" => \E s \in members[q.class] : q.now = {s}
  BY <1>1, <1>2, <1>4, <1>5, <1>6
<1>9. q \in Req
  BY <1>2
<1>10. QED
  BY <1>7, <1>8, <1>9, QuietRequest

----------------------------------------------------------------------------
(* The steps that write a class *)

\* A request that is not raced after r has written its class is one on another class.
LEMMA OvertakenByWrite ==
    ASSUME IInv, NEW r \in Requests, InFlight(r),
           req' = [req EXCEPT ![r] = NoReq],
           raced' = (raced \cup Races(r)) \ {r}
    PROVE  \A x \in Requests : InFlight(x)' /\ x \notin raced' =>
              /\ x # r /\ req'[x] = req[x] /\ InFlight(x) /\ x \notin raced
              /\ req[x].class # req[r].class
<1>1. req \in [Requests -> Req] /\ NoReq.pc = "idle"
  BY ReqTypes DEF IInv, TypeOK
<1>2. QED
  BY <1>1 DEF InFlight, Races

\* r writes S and n to its class: the invariant is kept when n is the size of S, or
\* when the write is one that CountExact excuses.
LEMMA WriteInv ==
    ASSUME IInv, NEW r \in Requests, InFlight(r),
           NEW S \in SUBSET Students, NEW n \in Nat, Write(r, S, n),
           r \notin raced /\ req[r].class \notin tainted => n = Cardinality(S)
    PROVE  IInv'
<1> DEFINE c == req[r].class
<1> USE DEF IInv, Write
<1>1. c \in Classes /\ req \in [Requests -> Req]
  BY DEF TypeOK, InFlight
<1>2. /\ members' = [members EXCEPT ![c] = S] /\ count' = [count EXCEPT ![c] = n]
      /\ tainted' = IF r \in raced THEN tainted \cup {c} ELSE tainted
      /\ req' = [req EXCEPT ![r] = NoReq] /\ raced' = (raced \cup Races(r)) \ {r}
      /\ UNCHANGED <<user, legacy, exists, events>>
  OBVIOUS
<1>3. \A x \in Requests : InFlight(x)' /\ x \notin raced' =>
        /\ x # r /\ req'[x] = req[x] /\ InFlight(x) /\ x \notin raced
        /\ req[x].class # c
  BY <1>2, OvertakenByWrite
<1>4. NoReq \in Req /\ NoReq.pc = "idle"
  BY ReqTypes
<1>5. \A x \in Requests : InFlight(x)' => req'[x] = req[x] /\ InFlight(x)
  BY <1>1, <1>2, <1>4 DEF InFlight
<1> HIDE DEF c, Write
<1>6. TypeOK'
  <2>1. /\ members' \in [Classes -> SUBSET Students] /\ count' \in [Classes -> Nat]
        /\ req' \in [Requests -> Req] /\ tainted' \subseteq Classes
    BY <1>1, <1>2, <1>4 DEF TypeOK
  <2>2. raced' \subseteq Requests
    BY <1>2 DEF TypeOK, Races
  <2>3. \A x \in Requests : req'[x].pc # "idle" => req'[x].class \in Classes
    BY <1>5 DEF TypeOK, InFlight
  <2>4. QED
    BY <1>2, <2>1, <2>2, <2>3 DEF TypeOK
<1>7. RemovesOne'
  BY <1>5 DEF RemovesOne
<1>8. ReadInv'
  <2> SUFFICES ASSUME NEW x \in Requests, InFlight(x)', x \notin raced'
               PROVE  /\ exists[req[x].class] /\ req[x].snap = count'[req[x].class]
                      /\ Removing(x) => \E s \in members'[req[x].class] : req[x].now = {s}
    BY <1>2, <1>3 DEF ReadInv, Removing
  <2>1. InFlight(x) /\ x \notin raced /\ req[x].class # c
    BY <1>3
  <2>2. /\ count'[req[x].class] = count[req[x].class]
        /\ members'[req[x].class] = members[req[x].class]
    BY <1>2, <2>1 DEF TypeOK, InFlight
  <2>3. QED
    BY <2>1, <2>2 DEF ReadInv
<1>9. CountExact'
  <2> SUFFICES ASSUME NEW d \in Classes, exists[d], d \notin tainted'
               PROVE  count'[d] = Cardinality(members'[d])
    BY <1>2 DEF CountExact
  <2>1. d \notin tainted
    BY <1>2
  <2>2. CASE d = c
    <3>1. r \notin raced
      BY <1>2, <2>2
    <3>2. n = Cardinality(S)
      BY <2>1, <2>2, <3>1 DEF c
    <3>3. count'[d] = n /\ members'[d] = S
      BY <1>1, <1>2, <2>2 DEF TypeOK
    <3>4. QED
      BY <3>2, <3>3
  <2>3. CASE d # c
    <3>1. count'[d] = count[d] /\ members'[d] = members[d]
      BY <1>2, <2>3 DEF TypeOK
    <3>2. QED
      BY <2>1, <3>1 DEF CountExact
  <2>4. QED
    BY <2>2, <2>3
<1>10. QED
  BY <1>6, <1>7, <1>8, <1>9

\* assign and import
LEMMA CommitAddInv ==
    ASSUME IInv, NEW r \in Requests, CommitAdd(r)
    PROVE  IInv'
<1> DEFINE S == members[req[r].class] \cup Added(r)
           n == req[r].snap + Cardinality(Added(r))
<1>1. InFlight(r) /\ CanAdd(r) /\ Write(r, S, n)
  BY DEF CommitAdd, Adding, InFlight
<1>2. /\ req[r] \in Req /\ req[r].class \in Classes
      /\ members[req[r].class] \in SUBSET Students
  BY <1>1 DEF IInv, TypeOK, InFlight
<1>3. req[r].snap \in Nat /\ req[r].now \subseteq Students /\ req[r].rest \subseteq Students
  BY <1>2 DEF Req
<1>4. Added(r) \in SUBSET Students /\ members[req[r].class] \cap Added(r) = {}
  BY <1>1, <1>2, <1>3 DEF Added, CanAdd
<1>5. S \in SUBSET Students /\ n \in Nat
  BY <1>2, <1>3, <1>4, MembersFinite
<1>6. Cardinality(S) = Cardinality(members[req[r].class]) + Cardinality(Added(r))
  BY <1>2, <1>4, AddingCounts
<1>7. r \notin raced /\ req[r].class \notin tainted
        => req[r].snap = Cardinality(members[req[r].class])
  BY <1>1, <1>2 DEF IInv, ReadInv, CountExact
<1>8. r \notin raced /\ req[r].class \notin tainted => n = Cardinality(S)
  BY <1>6, <1>7
<1> HIDE DEF S, n
<1>9. QED
  BY <1>1, <1>5, <1>8, WriteInv

LEMMA CommitRemoveInv ==
    ASSUME IInv, NEW r \in Requests, CommitRemove(r)
    PROVE  IInv'
<1> DEFINE c == req[r].class
           S == members[c] \ req[r].now
           n == IF OneLess(req[r].snap) = req[r].snap THEN count[c] ELSE OneLess(req[r].snap)
<1>1. InFlight(r) /\ Removing(r) /\ Write(r, S, n)
  BY DEF CommitRemove, Removing, InFlight
<1>2. req[r] \in Req /\ c \in Classes /\ members[c] \in SUBSET Students /\ count[c] \in Nat
  BY <1>1 DEF IInv, TypeOK, InFlight
<1>3. req[r].snap \in Nat
  BY <1>2 DEF Req
<1>4. S \in SUBSET Students /\ n \in Nat
  BY <1>2, <1>3, OneLessType
<1>5. ASSUME r \notin raced, c \notin tainted PROVE n = Cardinality(S)
  <2>1. req[r].snap = Cardinality(members[c])
    BY <1>1, <1>2, <1>5 DEF IInv, ReadInv, CountExact
  <2>2. PICK s \in members[c] : req[r].now = {s}
    BY <1>1, <1>5 DEF IInv, ReadInv
  <2>3. /\ Cardinality(members[c] \ {s}) = OneLess(Cardinality(members[c]))
        /\ OneLess(Cardinality(members[c])) # Cardinality(members[c])
    BY <1>2, RemovingCounts
  <2>4. QED
    BY <2>1, <2>2, <2>3
<1> HIDE DEF c, S, n
<1>6. r \notin raced /\ req[r].class \notin tainted => n = Cardinality(S)
  BY <1>5 DEF c
<1>7. QED
  BY <1>1, <1>4, <1>6, WriteInv

\* DELETE /classes/{class_id} by the teacher
LEMMA CommitDeleteInv ==
    ASSUME IInv, NEW r \in Requests, CommitDelete(r)
    PROVE  IInv'
<1> DEFINE c == req[r].class
<1> USE DEF IInv
<1>1. InFlight(r)
  BY DEF CommitDelete, InFlight
<1>2. c \in Classes /\ req \in [Requests -> Req]
  BY <1>1 DEF TypeOK, InFlight
<1>3. /\ members' = [members EXCEPT ![c] = @ \ req[r].now]
      /\ exists' = [exists EXCEPT ![c] = FALSE]
      /\ count' = [count EXCEPT ![c] = 0]
      /\ req' = [req EXCEPT ![r] = NoReq]
      /\ raced' = (raced \cup Races(r)) \ {r}
      /\ UNCHANGED <<user, legacy, events, tainted>>
  BY DEF CommitDelete
<1>4. \A x \in Requests : InFlight(x)' /\ x \notin raced' =>
        /\ x # r /\ req'[x] = req[x] /\ InFlight(x) /\ x \notin raced
        /\ req[x].class # c
  BY <1>1, <1>3, OvertakenByWrite
<1>5. NoReq \in Req /\ NoReq.pc = "idle"
  BY ReqTypes
<1>6. \A x \in Requests : InFlight(x)' => req'[x] = req[x] /\ InFlight(x)
  BY <1>2, <1>3, <1>5 DEF InFlight
<1> HIDE DEF c
<1>7. \A d \in Classes \ {c} : /\ exists'[d] = exists[d] /\ count'[d] = count[d]
                              /\ members'[d] = members[d]
  BY <1>3 DEF TypeOK
<1>8. ~exists'[c]
  BY <1>2, <1>3 DEF TypeOK
<1>9. TypeOK'
  <2>1. /\ members' \in [Classes -> SUBSET Students] /\ count' \in [Classes -> Nat]
        /\ exists' \in [Classes -> BOOLEAN] /\ req' \in [Requests -> Req]
    BY <1>2, <1>3, <1>5 DEF TypeOK
  <2>2. raced' \subseteq Requests
    BY <1>3 DEF TypeOK, Races
  <2>3. \A x \in Requests : req'[x].pc # "idle" => req'[x].class \in Classes
    BY <1>6 DEF TypeOK, InFlight
  <2>4. QED
    BY <1>3, <2>1, <2>2, <2>3 DEF TypeOK
<1>10. RemovesOne'
  BY <1>6 DEF RemovesOne
<1>11. ReadInv'
  <2> SUFFICES ASSUME NEW x \in Requests, InFlight(x)', x \notin raced'
               PROVE  /\ exists'[req[x].class] /\ req[x].snap = count'[req[x].class]
                      /\ Removing(x) => \E s \in members'[req[x].class] : req[x].now = {s}
    BY <1>4 DEF ReadInv, Removing
  <2>1. InFlight(x) /\ x \notin raced /\ req[x].class \in Classes \ {c}
    BY <1>4 DEF TypeOK, InFlight
  <2>2. QED
    BY <1>7, <2>1 DEF ReadInv
<1>12. CountExact'
  BY <1>3, <1>7, <1>8 DEF CountExact
<1>13. QED
  BY <1>9, <1>10, <1>11, <1>12

\* POST /classes: no request that is still right about its class has the new id.
LEMMA CreateClassInv ==
    ASSUME IInv, NEW c \in Classes, CreateClass(c)
    PROVE  IInv'
<1> USE DEF IInv
<1>1. /\ exists' = [exists EXCEPT ![c] = TRUE] /\ count' = [count EXCEPT ![c] = 0]
      /\ tainted' = IF members[c] = {} THEN tainted \ {c} ELSE tainted \cup {c}
      /\ UNCHANGED <<user, legacy, members, req, raced, events>>
  BY DEF CreateClass, reqVars
<1>2. ~exists[c]
  <2>1. c \in Nat /\ Rows \subseteq Nat
    BY RosterAssumption DEF Rows
  <2>2. c \notin Rows
    BY <2>1 DEF CreateClass, IsNextId
  <2>3. QED
    BY <2>2 DEF Rows
<1>3. TypeOK'
  BY <1>1 DEF TypeOK
<1>4. RemovesOne'
  BY <1>1 DEF RemovesOne, InFlight
<1>5. ReadInv'
  <2> SUFFICES ASSUME NEW x \in Requests, InFlight(x), x \notin raced
               PROVE  /\ exists'[req[x].class] /\ req[x].snap = count'[req[x].class]
                      /\ Removing(x) => \E s \in members[req[x].class] : req[x].now = {s}
    BY <1>1 DEF ReadInv, Removing, InFlight
  <2>1. /\ exists[req[x].class] /\ req[x].snap = count[req[x].class]
        /\ Removing(x) => \E s \in members[req[x].class] : req[x].now = {s}
        /\ req[x].class \in Classes
    BY DEF ReadInv, TypeOK, InFlight
  <2>2. req[x].class # c
    BY <1>2, <2>1
  <2>3. QED
    BY <1>1, <2>1, <2>2 DEF TypeOK
<1>6. CountExact'
  <2> SUFFICES ASSUME NEW d \in Classes, exists'[d], d \notin tainted'
               PROVE  count'[d] = Cardinality(members[d])
    BY <1>1 DEF CountExact
  <2>1. CASE d = c
    <3>1. members[c] = {}
      BY <1>1, <2>1
    <3>2. count'[d] = 0
      BY <1>1, <2>1 DEF TypeOK
    <3>3. QED
      BY <2>1, <3>1, <3>2, FS_EmptySet
  <2>2. CASE d # c
    BY <1>1, <2>2 DEF TypeOK, CountExact
  <2>3. QED
    BY <2>1, <2>2
<1>7. QED
  BY <1>3, <1>4, <1>5, <1>6

----------------------------------------------------------------------------
(* The administrator and the restart *)

LEMMA AdminDeleteClassInv ==
    ASSUME IInv, NEW c \in Classes, AdminDeleteClass(c)
    PROVE  IInv'
<1> USE DEF IInv
<1>1. /\ exists' = [exists EXCEPT ![c] = FALSE] /\ count' = [count EXCEPT ![c] = 0]
      /\ raced' = raced \cup {r \in Requests : req[r].pc # "idle" /\ req[r].class = c}
      /\ UNCHANGED <<user, legacy, members, req, tainted>>
      /\ events < MaxEvents /\ events' = events + 1
  BY DEF AdminDeleteClass, CountEvent
<1>2. \A d \in Classes \ {c} : exists'[d] = exists[d] /\ count'[d] = count[d]
  BY <1>1 DEF TypeOK
<1>3. ~exists'[c]
  BY <1>1 DEF TypeOK
<1>4. TypeOK'
  <2>1. events' \in 0 .. MaxEvents
    BY <1>1, RosterAssumption DEF TypeOK
  <2>2. exists' \in [Classes -> BOOLEAN] /\ count' \in [Classes -> Nat]
    BY <1>1 DEF TypeOK
  <2>3. QED
    BY <1>1, <2>1, <2>2 DEF TypeOK
<1>5. RemovesOne'
  BY <1>1 DEF RemovesOne, InFlight
<1>6. ReadInv'
  <2> SUFFICES ASSUME NEW x \in Requests, InFlight(x), x \notin raced'
               PROVE  /\ exists'[req[x].class] /\ req[x].snap = count'[req[x].class]
                      /\ Removing(x) => \E s \in members[req[x].class] : req[x].now = {s}
    BY <1>1 DEF ReadInv, Removing, InFlight
  <2>1. req[x].class \in Classes \ {c} /\ x \notin raced
    BY <1>1 DEF TypeOK, InFlight
  <2>2. QED
    BY <1>2, <2>1 DEF ReadInv
<1>7. CountExact'
  BY <1>1, <1>2, <1>3 DEF CountExact
<1>8. QED
  BY <1>4, <1>5, <1>6, <1>7

\* The accounts alone say nothing about the counters.
LEMMA AccountStepInv ==
    ASSUME IInv,
           user' \in [Students -> {"none", "student", "other"}],
           legacy' \in [Students -> Classes \cup {NoClass}],
           events' \in 0 .. MaxEvents,
           UNCHANGED <<exists, count, members, req, raced, tainted>>
    PROVE  IInv'
  BY DEF IInv, TypeOK, RemovesOne, ReadInv, CountExact, InFlight, Removing

LEMMA AdminUserInv ==
    ASSUME IInv, NEW s \in Students,
           AdminDeleteUser(s) \/ AdminCreateUser(s) \/ AdminSetRole(s)
    PROVE  IInv'
<1>1. /\ user' \in [Students -> {"none", "student", "other"}]
      /\ legacy' \in [Students -> Classes \cup {NoClass}]
  BY DEF IInv, TypeOK, AdminDeleteUser, AdminCreateUser, AdminSetRole
<1>2. events < MaxEvents /\ events' = events + 1
  BY DEF AdminDeleteUser, AdminCreateUser, AdminSetRole, CountEvent
<1>3. events' \in 0 .. MaxEvents
  BY <1>2, RosterAssumption DEF IInv, TypeOK
<1>4. UNCHANGED <<exists, count, members, req, raced, tainted>>
  BY DEF AdminDeleteUser, AdminCreateUser, AdminSetRole, reqVars
<1>5. QED
  BY <1>1, <1>3, <1>4, AccountStepInv

LEMMA RestartInv ==
    ASSUME IInv, Restart
    PROVE  IInv'
<1> USE DEF IInv
<1>1. /\ count' = Recount /\ members' = Backfill
      /\ tainted' = {c \in Rows : Backfill[c] # members[c]}
      /\ req' = [r \in Requests |-> NoReq] /\ raced' = {}
      /\ UNCHANGED <<user, legacy, exists>>
      /\ events < MaxEvents /\ events' = events + 1
  BY DEF Restart, CountEvent
<1>2. NoReq \in Req /\ NoReq.pc = "idle"
  BY ReqTypes
<1>3. \A r \in Requests : ~InFlight(r)'
  BY <1>1, <1>2 DEF InFlight
<1>4. Recount \in [Classes -> Nat]
  <2>1. \A c \in Classes : Cardinality(members[c]) \in Nat
    BY MembersFinite DEF TypeOK
  <2>2. QED
    BY <2>1 DEF Recount
<1>5. Backfill \in [Classes -> SUBSET Students]
  BY DEF Backfill, TypeOK
<1>6. TypeOK'
  <2>1. events' \in 0 .. MaxEvents
    BY <1>1, RosterAssumption DEF TypeOK
  <2>2. req' \in [Requests -> Req] /\ tainted' \subseteq Classes
    BY <1>1, <1>2 DEF Rows
  <2>3. \A r \in Requests : req'[r].pc # "idle" => req'[r].class \in Classes
    BY <1>3 DEF InFlight
  <2>4. QED
    BY <1>1, <1>4, <1>5, <2>1, <2>2, <2>3 DEF TypeOK
<1>7. RemovesOne'
  BY <1>3 DEF RemovesOne
<1>8. ReadInv'
  BY <1>3 DEF ReadInv
<1>9. CountExact'
  <2> SUFFICES ASSUME NEW c \in Classes, exists[c], c \notin tainted'
               PROVE  count'[c] = Cardinality(members'[c])
    BY <1>1 DEF CountExact
  <2>1. Backfill[c] = members[c]
    BY <1>1 DEF Rows
  <2>2. Recount[c] = Cardinality(members[c])
    BY DEF Recount
  <2>3. QED
    BY <1>1, <2>1, <2>2
<1>10. QED
  BY <1>6, <1>7, <1>8, <1>9

----------------------------------------------------------------------------
(* The invariant *)

LEMMA InitInv == Init => IInv
<1> SUFFICES ASSUME Init PROVE IInv
  OBVIOUS
<1>1. NoReq \in Req /\ NoReq.pc = "idle"
  BY ReqTypes
<1>2. \A r \in Requests : ~InFlight(r)
  BY <1>1 DEF Init, InFlight
<1>3. TypeOK
  <2>1. req \in [Requests -> Req] /\ events \in 0 .. MaxEvents
    BY <1>1, RosterAssumption DEF Init
  <2>2. \A r \in Requests : req[r].pc # "idle" => req[r].class \in Classes
    BY <1>2 DEF InFlight
  <2>3. QED
    BY <2>1, <2>2 DEF Init, TypeOK
<1>4. RemovesOne /\ ReadInv
  BY <1>2 DEF RemovesOne, ReadInv
<1>5. CountExact
  BY DEF Init, CountExact
<1>6. QED
  BY <1>3, <1>4, <1>5 DEF IInv

LEMMA RequestStepInv ==
    ASSUME IInv, NEW r \in Requests, RequestStep(r)
    PROVE  IInv'
<1>1. ASSUME NEW k \in Kinds, NEW c \in Classes, NEW S \in SUBSET Students, Load(r, k, c, S)
      PROVE  IInv'
  <2> DEFINE q == Loaded(k, c, S, count[c])
  <2>1. count[c] \in Nat
    BY DEF IInv, TypeOK
  <2>2. /\ q \in Req /\ q.pc = "loaded" /\ q.kind = k /\ q.class = c /\ q.who = S
        /\ q.snap = count[c]
    BY <2>1, ReqTypes
  <2>3. req' = [req EXCEPT ![r] = q] /\ raced' = raced /\ UNCHANGED tables /\ exists[c]
    BY <1>1 DEF Load, tables
  <2>4. k = "remove" => \E s \in Students : S = {s}
    BY <1>1 DEF Load
  <2> HIDE DEF q
  <2>5. /\ q.class \in Classes
        /\ q.kind = "remove" => \E s \in Students : q.who = {s}
        /\ exists[q.class] /\ q.snap = count[q.class] /\ q.pc # "commit"
    BY <2>2, <2>3, <2>4
  <2>6. QED
    BY <2>2, <2>3, <2>5, QuietRequest
<1>2. ASSUME req[r].pc = "loaded" PROVE Missing(r) \subseteq Students /\ Found(r) \subseteq Students
  BY DEF IInv, TypeOK, Req, Missing, Found
<1>3. CASE CheckAssign(r)
  <2>1. CASE Missing(r) = {}
    BY <1>3, <2>1, AnswerInv DEF CheckAssign, tables
  <2>2. CASE Missing(r) # {}
    <3>1. PICK s \in Missing(r) :
            req' = [req EXCEPT ![r] = Decided(@, {s}, {x \in Found(r) : x > s})]
      BY <1>3, <2>2 DEF CheckAssign
    <3>2. {s} \in SUBSET Students /\ {x \in Found(r) : x > s} \in SUBSET Students
      BY <1>2, <1>3 DEF CheckAssign
    <3>3. raced' = raced /\ UNCHANGED tables /\ req[r].pc = "loaded" /\ req[r].kind # "remove"
      BY <1>3, <2>2 DEF CheckAssign, tables
    <3>4. QED
      BY <3>1, <3>2, <3>3, DecideInv
  <2>3. QED
    BY <2>1, <2>2
<1>4. CASE CheckImport(r)
  <2>1. CASE Missing(r) = {}
    BY <1>4, <2>1, AnswerInv DEF CheckImport, tables
  <2>2. CASE Missing(r) # {}
    <3>1. /\ req' = [req EXCEPT ![r] = Decided(@, Missing(r), {})]
          /\ raced' = raced /\ UNCHANGED tables
          /\ req[r].pc = "loaded" /\ req[r].kind # "remove"
      BY <1>4, <2>2 DEF CheckImport, tables
    <3>2. Missing(r) \in SUBSET Students /\ {} \in SUBSET Students
      BY <1>2, <3>1
    <3>3. QED
      BY <3>1, <3>2, DecideInv
  <2>3. QED
    BY <2>1, <2>2
<1>5. CASE CheckRemove(r)
  <2>1. CASE ~(req[r].who \subseteq members[req[r].class])
    BY <1>5, <2>1, AnswerInv DEF CheckRemove, tables
  <2>2. CASE req[r].who \subseteq members[req[r].class]
    <3>1. /\ req' = [req EXCEPT ![r] = Decided(@, req[r].who, {})]
          /\ raced' = raced /\ UNCHANGED tables /\ req[r].pc = "loaded"
      BY <1>5, <2>2 DEF CheckRemove, tables
    <3>2. req[r].who \in SUBSET Students /\ {} \in SUBSET Students
      BY DEF IInv, TypeOK, Req
    <3>3. QED
      BY <2>2, <3>1, <3>2, DecideInv
  <2>3. QED
    BY <2>1, <2>2
<1>6. CASE CheckDelete(r)
  <2>1. /\ req' = [req EXCEPT ![r] = Decided(@, members[req[r].class], {})]
        /\ raced' = raced /\ UNCHANGED tables
        /\ req[r].pc = "loaded" /\ req[r].kind # "remove"
    BY <1>6 DEF CheckDelete, tables
  <2>2. members[req[r].class] \in SUBSET Students /\ {} \in SUBSET Students
    BY <2>1 DEF IInv, TypeOK
  <2>3. QED
    BY <2>1, <2>2, DecideInv
<1>7. CASE AbortAdd(r) \/ AbortRemove(r)
  BY <1>7, AnswerInv DEF AbortAdd, AbortRemove, tables
<1>8. QED
  BY <1>1, <1>3, <1>4, <1>5, <1>6, <1>7, CommitAddInv, CommitRemoveInv, CommitDeleteInv
  DEF RequestStep

LEMMA StepInv ==
    ASSUME IInv, [Next]_vars
    PROVE  IInv'
<1>1. CASE UNCHANGED vars
  BY <1>1 DEF vars, reqVars, IInv, TypeOK, RemovesOne, ReadInv, CountExact, InFlight, Removing
<1>2. CASE Next
  BY <1>2, RequestStepInv, CreateClassInv, AdminDeleteClassInv, AdminUserInv, RestartInv DEF Next
<1>3. QED
  BY <1>1, <1>2

\* The invariant is inductive: it holds in every reachable state.
THEOREM Inductive == Spec => []IInv
<1>1. Init => IInv
  BY InitInv
<1>2. IInv /\ [Next]_vars => IInv'
  BY StepInv
<1>3. QED
  BY <1>1, <1>2, PTL DEF Spec

\* Every table and request keeps its shape, and no student_count is ever negative.
THEOREM RosterTypeCorrect == Spec => []TypeOK
<1>1. IInv => TypeOK
  BY DEF IInv
<1>2. QED
  BY <1>1, Inductive, PTL

\* student_count of a class is the number of its membership rows unless a race, a
\* left-over row or a backfill excuses it, however many students, classes and
\* requests there are.
THEOREM CounterIsExact == Spec => []CountExact
<1>1. IInv => CountExact
  BY DEF IInv
<1>2. QED
  BY <1>1, Inductive, PTL
=============================================================================
