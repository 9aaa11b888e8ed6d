----------------------------- MODULE PagesProofs -----------------------------
(***************************************************************************)
(* The pages of a tab: what the preview says of a chapter is what the      *)
(* server has on record; the sessions of the chats stay apart and what is  *)
(* stored stays stored; the button of a course has something that will     *)
(* stop it.  For every number of mounts, chapters, papers, sessions,       *)
(* questions, courses and tasks.                                           *)
(***************************************************************************)
EXTENDS ChatPage, PreviewPage, CoursesPage, DataLemmas

----------------------------------------------------------------------------
(* The tab *)

\* A page on the screen has been mounted.
TabInv == mount \in 0 .. MaxMounts /\ mounted \in BOOLEAN /\ (mounted => mount \in Mounts)

LEMMA TabInitInv == MaxMounts \in Nat /\ TabInit => TabInv
<1>1. MaxMounts \in Nat => 0 \in 0 .. MaxMounts
  OBVIOUS
<1> QED
  BY <1>1 DEF TabInit, TabInv

LEMMA TabStep ==
    ASSUME MaxMounts \in Nat, TabInv, Mount \/ Unmount \/ UNCHANGED tabVars
    PROVE  TabInv'
<1>1. CASE Mount
  BY <1>1 DEF TabInv, Mount, Mounts
<1>2. CASE Unmount
  BY <1>2 DEF TabInv, Unmount, Mounts
<1>3. CASE UNCHANGED tabVars
  BY <1>3 DEF TabInv, tabVars, Mounts
<1> QED
  BY <1>1, <1>2, <1>3

----------------------------------------------------------------------------
(* The preview *)

\* A loop that is left with questions has one to send.
LEMMA UngradedTyped ==
    ASSUME NEW S, NEW s \in Seq(S), NEW done
    PROVE  /\ Ungraded(s, done) \in Seq(S)
           /\ ~(Range(s) \subseteq done) => Ungraded(s, done) # <<>>
<1> DEFINE K == {i \in DOMAIN s : s[i] \notin done}
           t == Ungraded(s, done)
<1>1. DOMAIN s = 1 .. Len(s) /\ t = Keeping(s, K)
  BY DEF Ungraded
<1>2. K \in SUBSET (1 .. Len(s))
  BY <1>1
<1> HIDE DEF t
<1>3. t \in Seq(S) /\ \E p : Visits(t, s, p, K)
  <2> HIDE DEF K
  <2> QED
    BY <1>1, <1>2, KeptList
<1>4. ASSUME ~(Range(s) \subseteq done), t = <<>> PROVE FALSE
  <2>1. PICK i \in DOMAIN s : s[i] \notin done
    BY <1>4 DEF Range
  <2>2. i \in K
    BY <2>1
  <2>3. PICK p : Visits(t, s, p, K)
    BY <1>3
  <2>4. \E k \in 1 .. Len(t) : p[k] = i
    BY <2>2, <2>3 DEF Visits
  <2>5. Len(t) = 0
    BY <1>4
  <2> QED
    BY <2>4, <2>5
<1> QED
  BY <1>3, <1>4 DEF t

PreviewTypeInv == TabInv /\ PreviewTypeOK

LEMMA PreviewTypeStep == PreviewTypeInv /\ [PreviewNext]_previewVars => PreviewTypeInv'
<1> SUFFICES ASSUME PreviewTypeInv, [PreviewNext]_previewVars PROVE PreviewTypeInv'
  OBVIOUS
<1> DEFINE Fetch == [page : Mounts, n : 1 .. MaxPicks, chapter : Chapters]
           Loop  == [page : Mounts, phase : {"sent", "graded"}, done : SUBSET Problems,
                     left : Seq(Problems) \ {<<>>}]
           Done  == [page : Mounts, chapter : Chapters, phase : {"sent", "done"}]
           Rest7 == /\ taskFetches' \subseteq Fetch /\ gradings' \subseteq Loop
                    /\ completions' \subseteq Done /\ recorded' \subseteq Problems
                    /\ completed' \subseteq Chapters /\ mixed' \subseteq Chapters
                    /\ crossed' \in BOOLEAN
<1>1. /\ TabInv /\ preview \in PreviewState /\ taskFetches \subseteq Fetch
      /\ gradings \subseteq Loop /\ completions \subseteq Done /\ recorded \subseteq Problems
      /\ completed \subseteq Chapters /\ mixed \subseteq Chapters /\ crossed \in BOOLEAN
  BY DEF PreviewTypeInv, PreviewTypeOK
<1>2. /\ MaxMounts \in Nat /\ MaxPicks \in Nat /\ Paper \in [Chapters -> Seq(Problems)]
  BY PreviewAssumption
<1>3. ASSUME Mount \/ Unmount \/ UNCHANGED tabVars, preview' \in PreviewState, Rest7
      PROVE  PreviewTypeInv'
  BY <1>1, <1>2, <1>3, TabStep DEF PreviewTypeInv, PreviewTypeOK, TabInv, Mounts
<1>4. FreshPreview \in PreviewState /\ preview.shown \in Chapters \cup {NoChapter}
  BY <1>1 DEF FreshPreview, PreviewState
<1>5. mounted => mount \in Mounts
  BY <1>1 DEF TabInv
<1> HIDE DEF Fetch, Loop, Done
<1>6. ASSUME UNCHANGED previewVars PROVE PreviewTypeInv'
  BY <1>1, <1>3, <1>6 DEF previewVars, tabVars
<1>7. ASSUME OpenPreview \/ ClosePreview \/ PickNone \/ Study PROVE PreviewTypeInv'
  <2>1. preview' \in PreviewState
    BY <1>1, <1>4, <1>7 DEF OpenPreview, ClosePreview, PickNone, Study, PreviewState
  <2>2. Rest7
    BY <1>1, <1>7 DEF OpenPreview, ClosePreview, PickNone, Study
  <2> QED
    BY <1>3, <1>7, <2>1, <2>2 DEF OpenPreview, ClosePreview, PickNone, Study, tabVars
<1>8. ASSUME NEW c \in Chapters, Pick(c) PROVE PreviewTypeInv'
  <2>1. preview' \in PreviewState
    BY <1>1, <1>8 DEF Pick, PreviewState, FreshPreview
  <2>2. PICK n \in 1 .. MaxPicks :
            taskFetches' = taskFetches \cup {[page |-> mount, n |-> n, chapter |-> c]}
    BY <1>8 DEF Pick, Picks
  <2>3. [page |-> mount, n |-> n, chapter |-> c] \in Fetch
    BY <1>5, <1>8 DEF Pick, Picks, Fetch
  <2>4. taskFetches' \subseteq Fetch
    BY <1>1, <2>2, <2>3
  <2> QED
    BY <1>1, <1>3, <1>8, <2>1, <2>4 DEF Pick, Picks, tabVars
<1>9. ASSUME NEW f \in taskFetches, TaskArrives(f) PROVE PreviewTypeInv'
  <2>1. f.chapter \in Chapters
    BY <1>1 DEF Fetch
  <2>2. preview' \in PreviewState
    BY <1>1, <1>9, <2>1 DEF TaskArrives, PreviewState
  <2>3. taskFetches' \subseteq Fetch
    BY <1>1, <1>9 DEF TaskArrives
  <2> QED
    BY <1>1, <1>3, <1>9, <2>2, <2>3 DEF TaskArrives, tabVars
<1>10. ASSUME NEW x \in Problems, AnswerProblem(x) PROVE PreviewTypeInv'
  <2>1. preview' \in PreviewState
    BY <1>1, <1>10 DEF AnswerProblem, PreviewState
  <2> QED
    BY <1>1, <1>3, <1>10, <2>1 DEF AnswerProblem, tabVars
<1>11. ASSUME SubmitPaper PROVE PreviewTypeInv'
  <2>1. preview.shown \in Chapters
    BY <1>4, <1>11 DEF SubmitPaper
  <2> DEFINE l == Ungraded(Paper[preview.shown], preview.results)
             g == [page |-> mount, phase |-> "sent", done |-> preview.results, left |-> l]
  <2>2. Paper[preview.shown] \in Seq(Problems)
    BY <1>2, <2>1
  <2>3. ~(Range(Paper[preview.shown]) \subseteq preview.results)
    BY <1>11, <2>1, PreviewAssumption DEF SubmitPaper, AllChecked, PaperOf
  <2>4. l \in Seq(Problems) \ {<<>>}
    BY <2>2, <2>3, UngradedTyped
  <2>5. gradings' = gradings \cup {g} /\ mounted
    BY <1>11 DEF SubmitPaper
  <2> HIDE DEF l
  <2>6. g \in Loop
    BY <1>1, <1>5, <2>4, <2>5 DEF Loop, PreviewState
  <2>7. gradings' \subseteq Loop
    BY <1>1, <2>5, <2>6
  <2>8. preview' \in PreviewState
    BY <1>1, <1>11 DEF SubmitPaper, PreviewState
  <2> QED
    BY <1>1, <1>3, <1>11, <2>7, <2>8 DEF SubmitPaper, tabVars
<1>12. ASSUME NEW g \in gradings PROVE Head(g.left) \in Problems
  <2>1. g.left \in Seq(Problems) /\ g.left # <<>>
    BY <1>1 DEF Loop
  <2> DEFINE l == g.left
  <2> HIDE DEF l
  <2>2. l \in Seq(Problems) /\ l # <<>> => Head(l) \in Problems
    OBVIOUS
  <2> QED
    BY <2>1, <2>2 DEF l
<1>13. ASSUME NEW g \in gradings, RecordAnswer(g) PROVE PreviewTypeInv'
  <2>1. g \in Loop
    BY <1>1
  <2>2. [g EXCEPT !.phase = "graded"] \in Loop
    BY <2>1 DEF Loop
  <2>3. gradings' \subseteq Loop /\ recorded' \subseteq Problems
    BY <1>1, <1>12, <1>13, <2>2 DEF RecordAnswer
  <2> QED
    BY <1>1, <1>3, <1>13, <2>3 DEF RecordAnswer, tabVars
<1>14. ASSUME NEW g \in gradings, GradeNext(g) PROVE PreviewTypeInv'
  <2> DEFINE done == g.done \cup {Head(g.left)}
             left == Ungraded(g.left, done)
  <2>1. g \in Loop /\ g.left \in Seq(Problems) /\ g.done \subseteq Problems
    BY <1>1 DEF Loop
  <2>2. done \subseteq Problems
    BY <1>12, <2>1
  <2>3. left \in Seq(Problems)
    BY <2>1, UngradedTyped
  <2>4. \/ /\ left # <<>>
           /\ gradings' = (gradings \ {g})
                          \cup {[g EXCEPT !.phase = "sent", !.done = done, !.left = left]}
           /\ UNCHANGED preview
        \/ /\ gradings' = gradings \ {g}
           /\ preview' = preview \/ preview' = [preview EXCEPT !.results = done, !.checking = FALSE]
    BY <1>14 DEF GradeNext
  <2> HIDE DEF done, left
  <2>5. left # <<>> => [g EXCEPT !.phase = "sent", !.done = done, !.left = left] \in Loop
    BY <2>1, <2>2, <2>3 DEF Loop
  <2>6. gradings' \subseteq Loop
    BY <1>1, <2>4, <2>5
  <2>7. preview' \in PreviewState
    BY <1>1, <2>2, <2>4 DEF PreviewState
  <2>8. UNCHANGED <<tabVars, taskFetches, completions, recorded, completed, mixed, crossed>>
    BY <1>14 DEF GradeNext
  <2> QED
    BY <1>1, <1>3, <2>6, <2>7, <2>8 DEF tabVars
<1>15. ASSUME NEW g \in gradings, GradeFails(g) PROVE PreviewTypeInv'
  <2>1. preview' \in PreviewState
    BY <1>1, <1>15 DEF GradeFails, PreviewState
  <2>2. gradings' \subseteq Loop
    BY <1>1, <1>15 DEF GradeFails
  <2> QED
    BY <1>1, <1>3, <1>15, <2>1, <2>2 DEF GradeFails, tabVars
<1>16. ASSUME Complete PROVE PreviewTypeInv'
  <2> DEFINE x == [page |-> mount, chapter |-> preview.selected, phase |-> "sent"]
  <2>1. preview.selected \in Chapters /\ mounted
    BY <1>1, <1>16 DEF Complete, PreviewState
  <2>2. x \in Done
    BY <1>5, <2>1 DEF Done
  <2>3. completions' \subseteq Done /\ mixed' \subseteq Chapters
    BY <1>1, <1>16, <2>1, <2>2 DEF Complete
  <2> QED
    BY <1>1, <1>3, <1>16, <2>3 DEF Complete, tabVars
<1>17. ASSUME NEW x \in completions, RecordPreview(x) \/ CompleteAnswered(x) \/ CompleteFails(x)
       PROVE  PreviewTypeInv'
  <2>1. x \in Done
    BY <1>1
  <2>2. [x EXCEPT !.phase = "done"] \in Done /\ x.chapter \in Chapters
    BY <2>1 DEF Done
  <2>3. completions' \subseteq Done /\ completed' \subseteq Chapters
    BY <1>1, <1>17, <2>2 DEF RecordPreview, CompleteAnswered, CompleteFails
  <2>4. preview' \in PreviewState /\ crossed' \in BOOLEAN
    BY <1>1, <1>17 DEF RecordPreview, CompleteAnswered, CompleteFails, PreviewState
  <2>5. UNCHANGED <<tabVars, taskFetches, gradings, recorded, mixed>>
    BY <1>17 DEF RecordPreview, CompleteAnswered, CompleteFails
  <2> QED
    BY <1>1, <1>3, <2>3, <2>4, <2>5 DEF tabVars
<1> HIDE DEF Rest7
<1> QED
  BY <1>6, <1>7, <1>8, <1>9, <1>10, <1>11, <1>13, <1>14, <1>15, <1>16, <1>17 DEF PreviewNext, Grade

LEMMA PreviewTypeInit == PreviewInit => PreviewTypeInv
<1> SUFFICES ASSUME PreviewInit PROVE PreviewTypeInv
  OBVIOUS
<1>1. TabInv
  BY PreviewAssumption, TabInitInv DEF PreviewInit
<1>2. preview \in PreviewState
  BY DEF PreviewInit, FreshPreview, PreviewState
<1> QED
  BY <1>1, <1>2 DEF PreviewInit, PreviewTypeInv, TabInv, PreviewTypeOK

\* Every loop has a question to send and every completion a chapter, on any number of
\* mounts.
THEOREM PreviewTypeCorrect == PreviewSpec => []PreviewTypeOK
<1>1. PreviewInit => PreviewTypeInv
  BY PreviewTypeInit
<1>2. PreviewTypeInv => PreviewTypeOK
  BY DEF PreviewTypeInv
<1> QED
  BY <1>1, <1>2, PreviewTypeStep, PTL DEF PreviewSpec

\* The records of the page, whatever they hold.
Shapes ==
    /\ preview = [selected |-> preview.selected, shown |-> preview.shown,
                  studied |-> preview.studied, answered |-> preview.answered,
                  results |-> preview.results, submitted |-> preview.submitted,
                  checking |-> preview.checking]
    /\ \A g \in gradings :
          g = [page |-> g.page, phase |-> g.phase, done |-> g.done, left |-> g.left]
    /\ \A x \in completions : x = [page |-> x.page, chapter |-> x.chapter, phase |-> x.phase]

\* What a loop takes for graded is recorded, though it has not shown it yet.
LoopsHaveRecords ==
    \A g \in gradings :
        g.done \subseteq recorded /\ (g.phase = "graded" => Head(g.left) \in recorded)

\* A completion on its way is as good as one that has arrived.
CompletionsEarned ==
    \A x \in completions :
        /\ x.chapter \in Chapters
        /\ x.chapter \in mixed \/ PaperOf(x.chapter) \subseteq recorded
        /\ x.phase = "done" => x.chapter \in completed

PreviewInv ==
    /\ Shapes /\ LoopsHaveRecords /\ CompletionsEarned
    /\ preview.selected \in Chapters \cup {NoChapter}
    /\ GradesAreRecorded /\ CompletedWasGraded /\ SubmittedIsCompleted

----------------------------------------------------------------------------

LEMMA PreviewInitInv == PreviewInit => PreviewInv
BY DEF PreviewInit, PreviewInv, FreshPreview, Shapes, LoopsHaveRecords, CompletionsEarned,
       GradesAreRecorded, CompletedWasGraded, SubmittedIsCompleted

\* The steps of the page that leave the loops and the server alone.
LEMMA PageStep ==
    ASSUME PreviewInv,
           \/ OpenPreview \/ ClosePreview \/ PickNone \/ Study
           \/ \E c \in Chapters : Pick(c)
           \/ \E x \in Problems : AnswerProblem(x)
           \/ \E f \in taskFetches : TaskArrives(f)
    PROVE  PreviewInv'
<1> USE DEF PreviewInv, Shapes, LoopsHaveRecords, CompletionsEarned,
            GradesAreRecorded, CompletedWasGraded, SubmittedIsCompleted
<1>1. CASE OpenPreview
  BY <1>1 DEF OpenPreview
<1>2. CASE ClosePreview
  BY <1>2 DEF ClosePreview, FreshPreview
<1>3. CASE PickNone
  BY <1>3 DEF PickNone
<1>4. CASE Study
  BY <1>4 DEF Study
<1>5. ASSUME NEW c \in Chapters, Pick(c) PROVE PreviewInv'
  BY <1>5 DEF Pick, Picks, FreshPreview
<1>6. ASSUME NEW x \in Problems, AnswerProblem(x) PROVE PreviewInv'
  BY <1>6 DEF AnswerProblem
<1>7. ASSUME NEW f \in taskFetches, TaskArrives(f) PROVE PreviewInv'
  <2>1. preview' = preview \/ preview' = [preview EXCEPT !.shown = f.chapter]
    BY <1>7 DEF TaskArrives
  <2>2. UNCHANGED <<gradings, completions, recorded, completed, mixed, crossed>>
    BY <1>7 DEF TaskArrives
  <2> QED
    BY <2>1, <2>2
<1> QED
  BY <1>1, <1>2, <1>3, <1>4, <1>5, <1>6, <1>7

\* The paper is sent and graded question by question.
LEMMA GradingStep ==
    ASSUME PreviewInv, SubmitPaper \/ \E g \in gradings : Grade(g)
    PROVE  PreviewInv'
<1> USE DEF PreviewInv, Shapes, LoopsHaveRecords, CompletionsEarned,
            GradesAreRecorded, CompletedWasGraded, SubmittedIsCompleted
<1>1. CASE SubmitPaper
  <2>1. preview' = [preview EXCEPT !.checking = TRUE]
    BY <1>1 DEF SubmitPaper
  <2>2. \A h \in gradings' : h \in gradings
           \/ h = [page |-> mount, phase |-> "sent", done |-> preview.results,
                   left |-> Ungraded(Paper[preview.shown], preview.results)]
    BY <1>1 DEF SubmitPaper
  <2>3. UNCHANGED <<completions, recorded, completed, mixed, crossed>>
    BY <1>1 DEF SubmitPaper
  <2>4. Shapes'
    <3>1. ASSUME NEW h \in gradings'
          PROVE  h = [page |-> h.page, phase |-> h.phase, done |-> h.done, left |-> h.left]
      <4>1. CASE h \in gradings
        BY <4>1
      <4>2. CASE h \notin gradings
        BY <2>2, <4>2
      <4> QED
        BY <4>1, <4>2
    <3> QED
      BY <2>1, <2>3, <3>1
  <2>5. LoopsHaveRecords'
    BY <2>2, <2>3
  <2>6. CompletionsEarned' /\ GradesAreRecorded' /\ CompletedWasGraded' /\ SubmittedIsCompleted'
    BY <2>1, <2>3
  <2> QED
    BY <2>1, <2>4, <2>5, <2>6
<1>2. ASSUME NEW g \in gradings, RecordAnswer(g) PROVE PreviewInv'
  BY <1>2 DEF RecordAnswer
<1>3. ASSUME NEW g \in gradings, GradeNext(g) PROVE PreviewInv'
  <2> DEFINE done == g.done \cup {Head(g.left)}
  <2>1. done \subseteq recorded
    BY <1>3 DEF GradeNext
  <2>2. UNCHANGED <<completions, recorded, completed, mixed, crossed>>
    BY <1>3 DEF GradeNext
  <2>3. preview' = preview \/ preview' = [preview EXCEPT !.results = done, !.checking = FALSE]
    BY <1>3 DEF GradeNext
  <2>4. \A h \in gradings' : h \in gradings
           \/ h = [g EXCEPT !.phase = "sent", !.done = done, !.left = Ungraded(g.left, done)]
    BY <1>3 DEF GradeNext
  <2> QED
    <3>1. ASSUME NEW h \in gradings'
          PROVE  h = [page |-> h.page, phase |-> h.phase, done |-> h.done, left |-> h.left]
      <4>1. CASE h \in gradings
        BY <4>1
      <4>2. CASE h = [g EXCEPT !.phase = "sent", !.done = done, !.left = Ungraded(g.left, done)]
        BY <4>2
      <4> QED
        BY <2>4, <4>1, <4>2
    <3>2. Shapes'
      BY <2>2, <2>3, <3>1
    <3>3. LoopsHaveRecords'
      BY <2>1, <2>2, <2>4
    <3> QED
      BY <2>1, <2>2, <2>3, <3>2, <3>3
<1>4. ASSUME NEW g \in gradings, GradeFails(g) PROVE PreviewInv'
  <2>1. preview' = preview \/ preview' = [preview EXCEPT !.checking = FALSE]
    BY <1>4 DEF GradeFails
  <2> QED
    BY <1>4, <2>1 DEF GradeFails
<1> QED
  BY <1>1, <1>2, <1>3, <1>4 DEF Grade

\* The chapter is completed.
LEMMA CompletingStep ==
    ASSUME PreviewInv,
           \/ Complete
           \/ \E x \in completions : RecordPreview(x) \/ CompleteAnswered(x) \/ CompleteFails(x)
    PROVE  PreviewInv'
<1> USE DEF PreviewInv, Shapes, LoopsHaveRecords, CompletionsEarned,
            GradesAreRecorded, CompletedWasGraded, SubmittedIsCompleted
<1>1. CASE Complete
  <2>1. preview.shown = preview.selected => PaperOf(preview.selected) \subseteq recorded
    BY <1>1 DEF Complete, CanComplete, AllChecked
  <2>2. mixed \subseteq mixed' /\ (preview.shown # preview.selected => preview.selected \in mixed')
    BY <1>1 DEF Complete
  <2>3. \A x \in completions' : x \in completions
           \/ x = [page |-> mount, chapter |-> preview.selected, phase |-> "sent"]
    BY <1>1 DEF Complete
  <2>4. preview.selected \in Chapters /\ UNCHANGED <<preview, gradings, recorded, completed, crossed>>
    BY <1>1 DEF Complete
  <2>5. \A c : PaperOf(c)' = PaperOf(c)
    BY DEF PaperOf
  <2> QED
    BY <2>1, <2>2, <2>3, <2>4, <2>5
<1>2. ASSUME NEW x \in completions, RecordPreview(x) PROVE PreviewInv'
  BY <1>2 DEF RecordPreview
<1>3. ASSUME NEW x \in completions, CompleteAnswered(x) PROVE PreviewInv'
  <2>1. CASE Alive(x.page)
    BY <1>3, <2>1 DEF CompleteAnswered
  <2>2. CASE ~Alive(x.page)
    BY <1>3, <2>2 DEF CompleteAnswered
  <2> QED
    BY <2>1, <2>2
<1>4. ASSUME NEW x \in completions, CompleteFails(x) PROVE PreviewInv'
  BY <1>4 DEF CompleteFails
<1> QED
  BY <1>1, <1>2, <1>3, <1>4

----------------------------------------------------------------------------

LEMMA PreviewStep == PreviewInv /\ [PreviewNext]_previewVars => PreviewInv'
<1>1. CASE UNCHANGED previewVars
  BY <1>1 DEF previewVars, PreviewInv, Shapes, LoopsHaveRecords, CompletionsEarned,
              GradesAreRecorded, CompletedWasGraded, SubmittedIsCompleted
<1> QED
  BY <1>1, PageStep, GradingStep, CompletingStep DEF PreviewNext

\* The invariant: what the page shows or is about to show has its record.
THEOREM PreviewInvariant == PreviewSpec => []PreviewInv
BY PreviewInitInv, PreviewStep, PTL DEF PreviewSpec

\* A grade on the screen is in the table of answers, through every failure of a loop.
THEOREM GradesHaveRecords == PreviewSpec => []GradesAreRecorded
BY PreviewInvariant, PTL DEF PreviewInv

\* A chapter is completed with its paper graded, or with another task on the screen.
THEOREM CompletionIsEarned == PreviewSpec => []CompletedWasGraded
BY PreviewInvariant, PTL DEF PreviewInv

\* The page calls a chapter completed when the server does.
THEOREM SubmittedIsRecorded == PreviewSpec => []SubmittedIsCompleted
BY PreviewInvariant, PTL DEF PreviewInv
----------------------------------------------------------------------------
(* The course page: the cache *)

Members(s) == {s[i] : i \in DOMAIN s}
GoodCache(s) == s \in Seq(Ids) /\ Len(s) <= CacheSize

\* The tasks of a set are taken out of a list, and no others.
LEMMA WithoutMembers ==
    ASSUME NEW S, NEW s \in Seq(S), NEW T
    PROVE  /\ Without(s, T) \in Seq(S) /\ Len(Without(s, T)) <= Len(s)
           /\ Members(Without(s, T)) = Members(s) \ T
<1> DEFINE K == {i \in DOMAIN s : s[i] \notin T}
           t == Without(s, T)
<1>1. DOMAIN s = 1 .. Len(s) /\ t = Keeping(s, K)
  BY DEF Without
<1>2. K \in SUBSET (1 .. Len(s))
  BY <1>1
<1> HIDE DEF t
<1>3. t \in Seq(S) /\ Len(t) <= Len(s) /\ \E p : Visits(t, s, p, K)
  <2> HIDE DEF K
  <2> QED
    BY <1>1, <1>2, KeptList
<1>4. PICK p : Visits(t, s, p, K)
  BY <1>3
<1>5. DOMAIN t = 1 .. Len(t)
  BY <1>3
<1>6. ASSUME NEW x \in Members(t) PROVE x \in Members(s) \ T
  <2>1. PICK k \in 1 .. Len(t) : x = t[k]
    BY <1>5 DEF Members
  <2>2. p[k] \in K /\ t[k] = s[p[k]]
    BY <1>4, <2>1 DEF Visits
  <2> QED
    BY <2>1, <2>2 DEF Members
<1>7. ASSUME NEW x \in Members(s) \ T PROVE x \in Members(t)
  <2>1. PICK i \in DOMAIN s : x = s[i]
    BY DEF Members
  <2>2. i \in K
    BY <2>1
  <2>3. PICK k \in 1 .. Len(t) : p[k] = i
    BY <1>4, <2>2 DEF Visits
  <2>4. t[k] = s[p[k]]
    BY <1>4, <2>3 DEF Visits
  <2> QED
    BY <1>5, <2>1, <2>3, <2>4 DEF Members
<1>8. Members(t) = Members(s) \ T
  BY <1>6, <1>7
<1> QED
  BY <1>3, <1>8 DEF t

\* The newest tasks are all of them or CacheSize.
LEMMA NewestMembers ==
    ASSUME NEW S, NEW s \in Seq(S)
    PROVE  /\ Newest(s) \in Seq(S) /\ Len(Newest(s)) <= CacheSize
           /\ Newest(s) = s \/ Len(Newest(s)) = CacheSize
<1>1. CacheSize \in Nat \ {0} /\ Len(s) \in Nat
  BY CoursesAssumption
<1>2. CASE Len(s) > CacheSize
  <2> DEFINE m == Len(s) - CacheSize + 1
             n == Len(s)
  <2>1. m \in 1 .. n /\ n \in Nat /\ n - m + 1 = CacheSize
    BY <1>1, <1>2
  <2>2. Newest(s) = SubSeq(s, m, n)
    BY <1>2 DEF Newest
  <2> HIDE DEF m
  <2>3. SubSeq(s, m, n) \in Seq(S) /\ Len(SubSeq(s, m, n)) = n - m + 1
    BY <2>1
  <2> QED
    BY <1>1, <2>1, <2>2, <2>3
<1>3. CASE ~(Len(s) > CacheSize)
  BY <1>1, <1>3 DEF Newest
<1> QED
  BY <1>2, <1>3

\* An announced task leaves the cache, alone.
LEMMA AnnounceCache ==
    ASSUME GoodCache(cache), NEW p, NEW t, Announce(p, t)
    PROVE  GoodCache(cache)' /\ Cached \ Cached' \subseteq {t} /\ <<p, t>> \in notified'
<1>1. cache \in Seq(Ids) /\ Len(cache) <= CacheSize /\ cache' = Without(cache, {t})
  BY DEF GoodCache, Announce
<1>2. /\ cache' \in Seq(Ids) /\ Len(cache') <= Len(cache)
      /\ Members(cache') = Members(cache) \ {t}
  BY <1>1, WithoutMembers
<1>3. Cached = Members(cache) /\ Cached' = Members(cache')
  BY DEF Cached, Members
<1>4. Len(cache') <= CacheSize
  BY <1>1, <1>2, CoursesAssumption
<1> QED
  BY <1>1, <1>2, <1>3, <1>4 DEF GoodCache, Announce, Ids

\* Remembering tasks pushes others out only when the cache is full.
LEMMA RememberCache ==
    ASSUME GoodCache(cache), NEW s \in Seq(Ids), Remember(s)
    PROVE  GoodCache(cache)' /\ (Cached \subseteq Cached' \/ Len(cache') = CacheSize)
<1> DEFINE w == Without(cache, Members(s))
<1>1. cache \in Seq(Ids) /\ cache' = Newest(w \o s)
  BY DEF GoodCache, Remember, Members
<1>2. w \in Seq(Ids) /\ Members(w) = Members(cache) \ Members(s)
  BY <1>1, WithoutMembers
<1> HIDE DEF w
<1>3. w \o s \in Seq(Ids) /\ Len(w \o s) = Len(w) + Len(s) /\ Len(w) \in Nat /\ Len(s) \in Nat
  BY <1>2
<1>4. /\ \A i \in 1 .. Len(w) : (w \o s)[i] = w[i]
      /\ \A i \in 1 .. Len(s) : (w \o s)[Len(w) + i] = s[i]
  BY <1>2
<1>5. Members(w) \cup Members(s) \subseteq Members(w \o s)
  <2>1. ASSUME NEW x \in Members(w) PROVE x \in Members(w \o s)
    <3>1. PICK i \in 1 .. Len(w) : x = w[i]
      BY <1>2 DEF Members
    <3>2. i \in DOMAIN (w \o s) /\ (w \o s)[i] = x
      BY <1>3, <1>4, <3>1
    <3> QED
      BY <3>2 DEF Members
  <2>2. ASSUME NEW x \in Members(s) PROVE x \in Members(w \o s)
    <3>1. PICK i \in 1 .. Len(s) : x = s[i]
      BY DEF Members
    <3>2. Len(w) + i \in DOMAIN (w \o s) /\ (w \o s)[Len(w) + i] = x
      BY <1>3, <1>4, <3>1
    <3> QED
      BY <3>2 DEF Members
  <2> QED
    BY <2>1, <2>2
<1>6. /\ cache' \in Seq(Ids) /\ Len(cache') <= CacheSize
      /\ cache' = w \o s \/ Len(cache') = CacheSize
  BY <1>1, <1>3, NewestMembers
<1>7. Cached = Members(cache) /\ Cached' = Members(cache')
  BY DEF Cached, Members
<1>8. Cached \subseteq Cached' \/ Len(cache') = CacheSize
  BY <1>2, <1>5, <1>6, <1>7
<1> QED
  BY <1>6, <1>8 DEF GoodCache, Ids

----------------------------------------------------------------------------
(* The course page: tasks and their courses *)

\* The task is one of the course, or its row was deleted and its id may be in use again.
Linked(t, c) == t \in deleted \/ courseOf[t] = c

GoodPoll(q) == q \in Poll /\ Linked(q.task, q.course)

GoodQuery(x) ==
    x.seen \in {"open", "settled"} =>
        x.task \in Ids /\ (x.course \in Courses => Linked(x.task, x.course))

GoodJob(j) ==
    /\ j \in Job
    /\ \A c \in Courses : j.active[c] # 0 => Linked(j.active[c], c)
    /\ \A x \in j.left : GoodQuery(x)

GoodPost(x) ==
    x \in Post /\ (x.phase = "ok" => x.task \in Ids /\ Linked(x.task, x.course))

\* The entries of a mount are tasks of their courses, and there are none before it.
GoodEntry(e) ==
    /\ e \in [Mounts -> [Courses -> Shown]]
    /\ \A p \in Mounts, c \in Courses :
          (e[p][c] \in Ids => Linked(e[p][c], c)) /\ (p > mount => e[p][c] = 0)

GoodRows ==
    /\ rows \in [Ids -> Row] /\ courseOf \in [Ids -> Courses \cup {NoCourse}]
    /\ \A t \in Ids : rows[t] = "none" => courseOf[t] = NoCourse
    /\ deleted \subseteq Ids

Lists3 == courses \subseteq Courses /\ listed \in [Mounts -> SUBSET Courses]

Tracks ==
    /\ GoodRows /\ Lists3 /\ GoodEntry(entry)
    /\ notified \subseteq Mounts \X Ids /\ GoodCache(cache)
    /\ \A q \in polls : GoodPoll(q)
    /\ \A j \in jobs : GoodJob(j)
    /\ \A x \in posts : GoodPost(x)

\* Something will make the button of the course stop saying "indexing".
Busy(c) ==
    \/ entry[mount][c] = 0
    \/ entry[mount][c] \in deleted
    \/ \E q \in polls : q.page = mount /\ q.task = entry[mount][c]
    \/ \E x \in posts : x.page = mount /\ x.course = c

Spinners == mounted => \A c \in Courses : Busy(c)

CoursesInv == TabInv /\ Tracks /\ Spinners

\* What a task is linked to, it stays linked to.
LinksStay == \A t \in Ids, c \in Courses : Linked(t, c) => Linked(t, c)'

LEMMA GoodStays ==
    ASSUME LinksStay
    PROVE  /\ \A q : GoodPoll(q) => GoodPoll(q)'
           /\ \A j : GoodJob(j) => GoodJob(j)'
           /\ \A x : GoodPost(x) => GoodPost(x)'
<1>1. ASSUME NEW q, GoodPoll(q) PROVE GoodPoll(q)'
  <2>1. q.task \in Ids /\ q.course \in Courses
    BY <1>1 DEF GoodPoll, Poll
  <2> QED
    BY <1>1, <2>1 DEF GoodPoll, LinksStay
<1>2. ASSUME NEW j, GoodJob(j) PROVE GoodJob(j)'
  <2>1. \A c \in Courses : j.active[c] \in Ids \cup {0}
    BY <1>2 DEF GoodJob, Job
  <2>2. \A c \in Courses : j.active[c] # 0 => Linked(j.active[c], c)'
    BY <1>2, <2>1 DEF GoodJob, LinksStay
  <2>3. ASSUME NEW x \in j.left PROVE GoodQuery(x)'
    <3>1. GoodQuery(x)
      BY <1>2 DEF GoodJob
    <3> QED
      BY <3>1 DEF GoodQuery, LinksStay
  <2> QED
    BY <1>2, <2>2, <2>3 DEF GoodJob
<1>3. ASSUME NEW x, GoodPost(x) PROVE GoodPost(x)'
  <2>1. x.course \in Courses
    BY <1>3 DEF GoodPost, Post
  <2> QED
    BY <1>3, <2>1 DEF GoodPost, LinksStay
<1> QED
  BY <1>1, <1>2, <1>3

\* A step of the page alone: the rows are as they were.
PageOnly == UNCHANGED <<courses, rows, courseOf, deleted>>

LEMMA PageOnlyStep ==
    ASSUME Tracks, PageOnly,
           listed' \in [Mounts -> SUBSET Courses], GoodEntry(entry)',
           notified' \subseteq Mounts \X Ids, GoodCache(cache)',
           \A q \in polls' : GoodPoll(q), \A j \in jobs' : GoodJob(j), \A x \in posts' : GoodPost(x)
    PROVE  Tracks'
<1>1. LinksStay
  BY DEF LinksStay, Linked, PageOnly
<1>2. /\ \A q \in polls' : GoodPoll(q)'
      /\ \A j \in jobs' : GoodJob(j)'
      /\ \A x \in posts' : GoodPost(x)'
  BY <1>1, GoodStays
<1>3. GoodRows' /\ Lists3'
  BY DEF Tracks, PageOnly, GoodRows, Lists3, Ids
<1> QED
  BY <1>2, <1>3 DEF Tracks

\* The entries stay good while nothing is mounted anew.
LEMMA EntryStays ==
    ASSUME PageOnly, NEW e, GoodEntry(e), entry' = e, UNCHANGED mount
    PROVE  GoodEntry(entry)'
BY DEF PageOnly, GoodEntry, Linked

LEMMA ShownEntry ==
    ASSUME Tracks, TabInv, NEW p \in Mounts, NEW c \in Courses, NEW e \in Shown,
           e \in Ids => Linked(e, c)
    PROVE  /\ GoodEntry(Show(p, c, e))
           /\ \A m \in Mounts, d \in Courses :
                 Show(p, c, e)[m][d] = IF Alive(p) /\ m = p /\ d = c THEN e ELSE entry[m][d]
<1> DEFINE f == Show(p, c, e)
<1>1. entry \in [Mounts -> [Courses -> Shown]] /\ GoodEntry(entry)
  BY DEF Tracks, GoodEntry
<1>2. CASE ~Alive(p)
  BY <1>1, <1>2 DEF Show
<1>3. CASE Alive(p)
  <2> DEFINE row == [entry[p] EXCEPT ![c] = e]
  <2>1. f = [entry EXCEPT ![p] = row]
    BY <1>3 DEF Show
  <2>2. row \in [Courses -> Shown] /\ \A d \in Courses : row[d] = IF d = c THEN e ELSE entry[p][d]
    BY <1>1
  <2> HIDE DEF row, f
  <2>3. f \in [Mounts -> [Courses -> Shown]] /\ \A m \in Mounts : f[m] = IF m = p THEN row ELSE entry[m]
    BY <1>1, <2>1, <2>2
  <2>4. \A m \in Mounts, d \in Courses : f[m][d] = IF m = p /\ d = c THEN e ELSE entry[m][d]
    BY <2>2, <2>3
  <2>5. p = mount /\ mount \in Nat
    BY <1>3 DEF Alive, TabInv
  <2>6. ASSUME NEW m \in Mounts, NEW d \in Courses
        PROVE  (f[m][d] \in Ids => Linked(f[m][d], d)) /\ (m > mount => f[m][d] = 0)
    <3>1. CASE m = p /\ d = c
      <4>1. f[m][d] = e /\ ~(m > mount)
        BY <2>4, <2>5, <3>1
      <4> QED
        BY <3>1, <4>1
    <3>2. CASE ~(m = p /\ d = c)
      <4>1. f[m][d] = entry[m][d]
        BY <2>4, <3>2
      <4> QED
        BY <1>1, <4>1 DEF GoodEntry
    <3> QED
      BY <3>1, <3>2
  <2> QED
    BY <1>3, <2>3, <2>4, <2>6 DEF GoodEntry, f
<1> QED
  BY <1>2, <1>3

\* A course stays busy unless its entry, the loop of its task or its submission go.
PollsStay(T) ==
    \A q \in polls : q.page = mount /\ q.task \notin T =>
        \E r \in polls' : r.page = q.page /\ r.task = q.task

PostsStay(C) ==
    \A x \in posts : x.page = mount /\ x.course \notin C =>
        \E y \in posts' : y.page = x.page /\ y.course = x.course

LEMMA StaysBusy ==
    ASSUME NEW c, NEW T, NEW C, Busy(c), UNCHANGED mount, deleted \subseteq deleted',
           entry'[mount][c] = entry[mount][c],
           PollsStay(T), entry[mount][c] \notin T \/ entry[mount][c] \in deleted,
           PostsStay(C), c \notin C
    PROVE  Busy(c)'
BY DEF Busy, PollsStay, PostsStay

LEMMA AllStayBusy ==
    ASSUME Spinners, UNCHANGED <<mount, entry>>, mounted' => mounted, deleted \subseteq deleted',
           PollsStay({}), PostsStay({})
    PROVE  Spinners'
<1> SUFFICES ASSUME mounted', NEW c \in Courses PROVE Busy(c)'
  BY DEF Spinners
<1>1. Busy(c)
  BY DEF Spinners
<1> QED
  BY <1>1, StaysBusy


\* The loop of a task sends, reads or loses its GET.
LEMMA PollTalks ==
    ASSUME CoursesInv, NEW q \in polls, PollSend(q) \/ PollRead(q) \/ PollLose(q)
    PROVE  CoursesInv'
<1>1. /\ UNCHANGED <<mount, mounted, courses, rows, courseOf, listed, entry, notified, cache, jobs,
                     posts, deleted>>
  BY DEF PollSend, PollRead, PollLose, tabVars
<1>2. GoodPoll(q) /\ GoodRows
  BY DEF CoursesInv, Tracks
<1>3. RowOf(q.task) \in Row
  BY <1>2 DEF RowOf, GoodRows, Row
<1>4. ASSUME NEW v \in Seen PROVE GoodPoll([q EXCEPT !.seen = v])
  BY <1>2 DEF GoodPoll, Poll
<1>5. \A v \in {"wait", "sent", RowOf(q.task), "none"} : v \in Seen
  BY <1>3 DEF Seen, Row
<1>6. \/ ~Alive(q.page) /\ polls' = polls \ {q}
      \/ \E v \in Seen : polls' = (polls \ {q}) \cup {[q EXCEPT !.seen = v]}
  BY <1>5 DEF PollSend, PollRead, PollLose
<1>7. \A r \in polls' : GoodPoll(r)
  BY <1>4, <1>6 DEF CoursesInv, Tracks
<1>8. PageOnly /\ GoodEntry(entry)'
  BY <1>1 DEF PageOnly, CoursesInv, Tracks, GoodEntry, Linked
<1>9. Tracks'
  BY <1>1, <1>7, <1>8, PageOnlyStep DEF CoursesInv, Tracks, Lists3, GoodCache
<1>10. mounted => PollsStay({})
  <2>1. CASE ~Alive(q.page) /\ polls' = polls \ {q}
    BY <2>1 DEF Alive, PollsStay
  <2>2. ASSUME NEW v \in Seen, polls' = (polls \ {q}) \cup {[q EXCEPT !.seen = v]}
        PROVE  PollsStay({})
    <3> DEFINE n == [q EXCEPT !.seen = v]
    <3>1. n.page = q.page /\ n.task = q.task /\ n \in polls'
      BY <1>2, <2>2 DEF GoodPoll, Poll
    <3> HIDE DEF n
    <3>2. \A r \in polls : r = q \/ r \in polls'
      BY <2>2
    <3> QED
      BY <3>1, <3>2 DEF PollsStay
  <2> QED
    BY <1>6, <2>1, <2>2
<1>11. PostsStay({})
  BY <1>1 DEF PostsStay
<1>12. Spinners'
  <2>1. CASE mounted
    BY <1>1, <1>10, <1>11, <2>1, AllStayBusy DEF CoursesInv
  <2>2. CASE ~mounted
    BY <1>1, <2>2 DEF Spinners
  <2> QED
    BY <2>1, <2>2
<1>13. TabInv'
  BY <1>1 DEF CoursesInv, TabInv, Mounts
<1> QED
  BY <1>9, <1>12, <1>13 DEF CoursesInv

\* The entries of a page that shows e for the course c, while the loops of T end.
LEMMA ShowStep ==
    ASSUME CoursesInv, NEW p \in Mounts, NEW c \in Courses, NEW e \in Shown,
           e \in Ids => Linked(e, c), NEW T, NEW C,
           PageOnly, UNCHANGED <<mount, mounted, listed>>, entry' = Show(p, c, e),
           notified' \subseteq Mounts \X Ids, GoodCache(cache)',
           \A q \in polls' : GoodPoll(q), \A j \in jobs' : GoodJob(j), \A x \in posts' : GoodPost(x),
           mounted => PollsStay(T) /\ PostsStay(C),
           \* the courses that lose a loop or a submission are the course shown
           \A d \in Courses : Alive(p) /\ d # c => /\ entry[p][d] \notin T \/ entry[p][d] \in deleted
                                                   /\ d \notin C,
           ~Alive(p) => T = {} /\ C = {},
           Alive(p) => \/ e = 0 \/ e \in deleted
                       \/ \E q \in polls' : q.page = p /\ q.task = e
                       \/ \E x \in posts' : x.page = p /\ x.course = c
    PROVE  CoursesInv'
<1>1. GoodEntry(Show(p, c, e))
      /\ \A m \in Mounts, d \in Courses :
            Show(p, c, e)[m][d] = IF Alive(p) /\ m = p /\ d = c THEN e ELSE entry[m][d]
  BY ShownEntry DEF CoursesInv
<1>2. GoodEntry(entry)'
  BY <1>1, EntryStays
<1>3. Tracks'
  BY <1>2, PageOnlyStep DEF CoursesInv, Tracks, Lists3
<1>4. ASSUME mounted', NEW d \in Courses PROVE Busy(d)'
  <2>1. mounted /\ mount \in Mounts /\ Busy(d) /\ deleted' = deleted
    BY <1>4 DEF CoursesInv, Spinners, TabInv, PageOnly
  <2>2. CASE Alive(p) /\ d = c
    <3>1. p = mount /\ mount' = mount /\ entry'[mount][d] = e
      BY <1>1, <2>1, <2>2 DEF Alive
    <3> QED
      BY <2>1, <2>2, <3>1 DEF Busy
  <2>3. CASE Alive(p) /\ d # c
    <3>1. p = mount /\ entry'[mount][d] = entry[mount][d]
      BY <1>1, <2>1, <2>3 DEF Alive
    <3> QED
      BY <2>1, <2>3, <3>1, StaysBusy
  <2>4. CASE ~Alive(p)
    <3>1. entry'[mount][d] = entry[mount][d]
      BY <1>1, <2>1, <2>4
    <3> QED
      BY <2>1, <2>4, <3>1, StaysBusy
  <2> QED
    BY <2>2, <2>3, <2>4
<1>5. Spinners' /\ TabInv'
  BY <1>4 DEF CoursesInv, Spinners, TabInv, Mounts
<1> QED
  BY <1>3, <1>5 DEF CoursesInv


LEMMA ShowSame ==
    ASSUME Tracks, NEW p \in Mounts, NEW c \in Courses
    PROVE  Show(p, c, entry[p][c]) = entry /\ entry[p][c] \in Shown
           /\ (entry[p][c] \in Ids => Linked(entry[p][c], c))
<1>1. entry \in [Mounts -> [Courses -> Shown]]
  BY DEF Tracks, GoodEntry
<1>2. [entry EXCEPT ![p][c] = entry[p][c]] = entry
  <2> DEFINE row == entry[p]
  <2>1. row \in [Courses -> Shown]
    BY <1>1
  <2>2. [row EXCEPT ![c] = row[c]] = row
    BY <2>1
  <2>3. [entry EXCEPT ![p] = row] = entry
    BY <1>1
  <2> QED
    BY <2>2, <2>3
<1> QED
  BY <1>1, <1>2 DEF Show, Tracks, GoodEntry

\* The loop of a task handles an answer.
LEMMA PollAnswers ==
    ASSUME CoursesInv, NEW q \in polls, PollSettled(q) \/ PollOn(q)
    PROVE  CoursesInv'
<1> DEFINE p == q.page
           c == q.course
           t == q.task
<1>1. /\ q \in Poll /\ p \in Mounts /\ c \in Courses /\ t \in Ids /\ Linked(t, c)
      /\ q.tries \in 0 .. MaxPoll - 1 /\ q.seen \in Seen /\ MaxPoll \in Nat \ {0}
  BY CoursesAssumption DEF CoursesInv, Tracks, GoodPoll, Poll
<1>2. /\ UNCHANGED <<mount, mounted, courses, rows, courseOf, listed, jobs, posts, deleted>>
      /\ PageOnly
  BY DEF PollSettled, PollOn, tabVars, PageOnly
<1>3. /\ \A j \in jobs' : GoodJob(j)
      /\ \A x \in posts' : GoodPost(x)
      /\ PostsStay({}) /\ GoodCache(cache) /\ notified \subseteq Mounts \X Ids
  BY <1>2 DEF CoursesInv, Tracks, PostsStay
<1>4. ASSUME NEW d \in Courses, d # c, entry[p][d] = t PROVE entry[p][d] \in deleted
  <2>1. Linked(t, d)
    BY <1>1, <1>4 DEF CoursesInv, Tracks, GoodEntry
  <2> QED
    BY <1>1, <1>4, <2>1 DEF Linked
<1>5. 0 \in Shown /\ 0 \notin Ids /\ t \in Shown
  BY <1>1 DEF Shown, Ids
<1>6. notified \cup {<<p, t>>} \subseteq Mounts \X Ids
  BY <1>1, <1>3
<1>7. Refreshed(q) \in {t, entry[p][c]}
  BY DEF Refreshed
<1>8. /\ Show(p, c, entry[p][c]) = entry /\ entry[p][c] \in Shown
      /\ (entry[p][c] \in Ids => Linked(entry[p][c], c))
  BY <1>1, ShowSame DEF CoursesInv
\* The loop ends, with the entry 0 or of another task.
<1>9. ASSUME polls' = polls \ {q}, GoodCache(cache)', notified' \subseteq Mounts \X Ids,
             NEW e \in {0, entry[p][c]}, e # t, entry' = Show(p, c, e)
      PROVE  CoursesInv'
  <2> DEFINE T == IF Alive(p) THEN {t} ELSE {}
  <2>1. mounted => PollsStay(T)
    BY <1>9 DEF PollsStay, Alive
  <2>2. \A r \in polls' : GoodPoll(r)
    BY <1>9 DEF CoursesInv, Tracks
  <2>3. \A d \in Courses : Alive(p) /\ d # c => entry[p][d] \notin T \/ entry[p][d] \in deleted
    BY <1>4
  <2>4. e \in Shown /\ (e \in Ids => Linked(e, c))
    BY <1>5, <1>8
  <2>5. Alive(p) => \/ e = 0 \/ e \in deleted
                    \/ \E r \in polls' : r.page = p /\ r.task = e
                    \/ \E x \in posts' : x.page = p /\ x.course = c
    <3> SUFFICES ASSUME Alive(p), e # 0, e = entry[p][c], e \notin deleted
                 PROVE  \/ \E r \in polls' : r.page = p /\ r.task = e
                        \/ \E x \in posts' : x.page = p /\ x.course = c
      OBVIOUS
    <3>1. p = mount /\ mounted
      BY DEF Alive
    <3>2. Busy(c)
      BY <1>1, <3>1 DEF CoursesInv, Spinners
    <3>3. \A r \in polls : r.page = p /\ r.task = e => r \in polls'
      BY <1>9
    <3> QED
      BY <1>2, <3>1, <3>2, <3>3 DEF Busy
  <2>6. ~Alive(p) => T = {}
    OBVIOUS
  <2>7. \A d \in Courses : Alive(p) /\ d # c => /\ entry[p][d] \notin T \/ entry[p][d] \in deleted
                                                /\ d \notin {}
    BY <2>3
  <2>8. (mounted => PollsStay(T) /\ PostsStay({})) /\ (~Alive(p) => T = {} /\ {} = {})
    BY <1>3, <2>1, <2>6
  <2>9. p \in Mounts /\ c \in Courses /\ UNCHANGED <<mount, mounted, listed>> /\ PageOnly
    BY <1>1, <1>2
  <2> HIDE DEF T, c, p, t
  <2> QED
    BY <1>3, <1>9, <2>2, <2>4, <2>5, <2>7, <2>8, <2>9, ShowStep
\* The loop goes on.
<1>10. ASSUME NEW n, n \in Poll, n.page = p, n.task = t, n.course = c,
              polls' = (polls \ {q}) \cup {n}, UNCHANGED <<cache, notified>>,
              NEW e \in {t, entry[p][c]}, entry' = Show(p, c, e)
       PROVE  CoursesInv'
  <2>1. PollsStay({})
    BY <1>10 DEF PollsStay
  <2>2. \A r \in polls' : GoodPoll(r)
    BY <1>1, <1>10 DEF CoursesInv, Tracks, GoodPoll
  <2>3. e \in Shown /\ (e \in Ids => Linked(e, c))
    BY <1>1, <1>5, <1>8
  <2>4. Alive(p) => \/ e = 0 \/ e \in deleted
                    \/ \E r \in polls' : r.page = p /\ r.task = e
                    \/ \E x \in posts' : x.page = p /\ x.course = c
    <3>1. CASE e = t
      BY <1>10, <3>1
    <3>2. CASE Alive(p) /\ e = entry[p][c]
      <4>1. p = mount /\ Busy(c)
        BY <1>1, <3>2 DEF CoursesInv, Spinners, Alive
      <4> QED
        BY <1>2, <2>1, <3>2, <4>1 DEF Busy, PollsStay
    <3> QED
      BY <3>1, <3>2
  <2>5. GoodCache(cache)' /\ notified' \subseteq Mounts \X Ids
    BY <1>3, <1>10 DEF GoodCache, Ids
  <2> HIDE DEF c, p, t
  <2> QED
    BY <1>1, <1>2, <1>3, <1>10, <2>1, <2>2, <2>3, <2>4, <2>5, ShowStep
<1>11. CASE PollSettled(q)
  <2>1. /\ polls' = polls \ {q} /\ Announce(p, t) /\ entry' = Show(p, c, 0)
    BY <1>11 DEF PollSettled
  <2>2. GoodCache(cache)' /\ notified' = notified \cup {<<p, t>>}
    BY <1>3, <2>1, AnnounceCache DEF Announce
  <2> HIDE DEF p, c, t
  <2> QED
    BY <1>1, <1>5, <1>6, <1>9, <2>1, <2>2
<1>12. CASE PollOn(q) /\ PollAgain(q)
  <2> DEFINE n == [q EXCEPT !.seen = "wait", !.tries = @ + 1]
  <2>1. q.tries + 1 < MaxPoll /\ polls' = (polls \ {q}) \cup {n} /\ UNCHANGED <<cache, notified>>
        /\ entry' = Show(p, c, Refreshed(q))
    BY <1>12 DEF PollOn, PollAgain
  <2>2. q.tries + 1 \in 0 .. MaxPoll - 1 /\ "wait" \in Seen
    BY <1>1, <2>1 DEF Seen
  <2>3. n \in Poll /\ n.page = p /\ n.task = t /\ n.course = c
    BY <1>1, <2>2 DEF Poll
  <2> HIDE DEF n, p, c, t
  <2> QED
    BY <1>7, <1>10, <2>1, <2>3
<1>13. CASE PollOn(q) /\ PollGiveUp(q)
  <2>1. /\ polls' = polls \ {q} /\ UNCHANGED cache /\ notified' = notified \cup {<<p, t>>}
        /\ entry' = IF Refreshed(q) = t THEN Show(p, c, 0) ELSE entry
    BY <1>13 DEF PollOn, PollGiveUp
  <2>2. GoodCache(cache)'
    BY <1>3, <2>1 DEF GoodCache, Ids
  <2>3. CASE Refreshed(q) = t
    <3> HIDE DEF p, c, t
    <3> QED
      BY <1>1, <1>5, <1>6, <1>9, <2>1, <2>2, <2>3
  <2>4. CASE Refreshed(q) # t
    <3>1. entry[p][c] # t /\ entry' = Show(p, c, entry[p][c])
      BY <1>7, <1>8, <2>1, <2>4
    <3> HIDE DEF p, c, t
    <3> QED
      BY <1>6, <1>9, <2>1, <2>2, <3>1
  <2> QED
    BY <2>3, <2>4
<1> QED
  BY <1>11, <1>12, <1>13 DEF PollOn


\* Steps that leave entries, loops and submissions alone.
LEMMA CalmStep ==
    ASSUME CoursesInv, PageOnly, UNCHANGED <<mount, entry, polls, posts>>,
           mounted' \in BOOLEAN, mounted' => mounted,
           listed' \in [Mounts -> SUBSET Courses],
           notified' \subseteq Mounts \X Ids, GoodCache(cache)', \A j \in jobs' : GoodJob(j)
    PROVE  CoursesInv'
<1>1. TabInv'
  BY DEF CoursesInv, TabInv, Mounts
<1>2. GoodEntry(entry)'
  BY EntryStays DEF CoursesInv, Tracks
<1>3. Tracks'
  BY <1>2, PageOnlyStep DEF CoursesInv, Tracks
<1>4. PollsStay({}) /\ PostsStay({}) /\ deleted \subseteq deleted'
  BY DEF PollsStay, PostsStay, PageOnly
<1>5. Spinners'
  BY <1>4, AllStayBusy DEF CoursesInv
<1> QED
  BY <1>1, <1>3, <1>5 DEF CoursesInv

\* What a job asks for is good before it is answered.
LEMMA SentGood ==
    ASSUME NEW T \in SUBSET (Ids \cup {Asked})
    PROVE  Sent(T) \in SUBSET Query /\ \A x \in Sent(T) : GoodQuery(x)
<1>1. ASSUME NEW x \in Sent(T) PROVE x \in Query /\ GoodQuery(x)
  <2>1. PICK t \in T : x = [task |-> t, seen |-> "sent", course |-> NoCourse]
    BY DEF Sent
  <2> QED
    BY <2>1 DEF Query, Seen, GoodQuery
<1> QED
  BY <1>1

\* A job with other queries.
LEMMA JobMoves ==
    ASSUME CoursesInv, NEW j \in jobs, NEW ph \in {"load", "recover", "ask", "got", "settle"},
           NEW S \in SUBSET Courses, NEW L \in SUBSET Query, \A x \in L : GoodQuery(x)
    PROVE  /\ GoodJob([j EXCEPT !.phase = ph, !.shown = S, !.left = L])
           /\ GoodJob([j EXCEPT !.phase = ph, !.left = L])
           /\ GoodJob([j EXCEPT !.left = L])
BY DEF CoursesInv, Tracks, GoodJob, Job

LEMMA Replaced ==
    ASSUME CoursesInv, NEW j, NEW k, GoodJob(k), Replace(j, k)
    PROVE  \A i \in jobs' : GoodJob(i)
BY DEF CoursesInv, Tracks, Replace

\* The active tasks of the courses.
LEMMA ActiveGood ==
    ASSUME CoursesInv
    PROVE  /\ Active \in [Courses -> Ids \cup {0}]
           /\ \A c \in Courses : Active[c] # 0 => Linked(Active[c], c)
<1>1. ASSUME NEW c \in Courses
      PROVE  Active[c] \in Ids \cup {0} /\ (Active[c] # 0 => Linked(Active[c], c))
  <2>1. CASE OpenOf(c) = {}
    BY <2>1 DEF Active
  <2>2. CASE OpenOf(c) # {}
    <3>1. MaxId \in Nat /\ OpenOf(c) \in SUBSET (0 .. MaxId)
      BY CoursesAssumption DEF OpenOf, Ids
    <3>2. PICK x : x \in OpenOf(c)
      BY <2>2
    <3>3. \E t \in OpenOf(c) : \A u \in OpenOf(c) : u <= t
      BY <3>1, <3>2, GreatestNatural
    <3>4. Active[c] \in OpenOf(c)
      BY <2>2, <3>3 DEF Active
    <3> QED
      BY <3>4 DEF OpenOf, Linked
  <2> QED
    BY <2>1, <2>2
<1> QED
  BY <1>1 DEF Active

\* A job talks to the server.
LEMMA JobTalks ==
    ASSUME CoursesInv, NEW j \in jobs,
           LoadArrives(j) \/ SyncRead(j) \/ \E x \in j.left : JobRead(j, x)
    PROVE  CoursesInv'
<1>1. /\ PageOnly /\ UNCHANGED <<mount, mounted, entry, polls, posts, notified, cache>>
  BY DEF LoadArrives, SyncRead, JobRead, PageOnly, tabVars
<1>2. j \in Job /\ GoodJob(j) /\ j.page \in Mounts /\ j.left \in SUBSET Query
  BY DEF CoursesInv, Tracks, GoodJob, Job
<1>3. GoodCache(cache)' /\ notified' \subseteq Mounts \X Ids /\ mounted' \in BOOLEAN
  BY <1>1 DEF CoursesInv, Tracks, GoodCache, TabInv
<1>4. courses \subseteq Courses /\ listed \in [Mounts -> SUBSET Courses]
  BY DEF CoursesInv, Tracks, Lists3
<1>5. ASSUME jobs' = jobs \ {j} PROVE \A i \in jobs' : GoodJob(i)
  BY <1>5 DEF CoursesInv, Tracks
<1>6. CASE LoadArrives(j)
  <2>1. Cached \subseteq Ids
    BY DEF Cached, CoursesInv, Tracks, GoodCache
  <2>2. Sent(Cached) \in SUBSET Query /\ \A x \in Sent(Cached) : GoodQuery(x)
    BY <2>1, SentGood
  <2>3. GoodJob([j EXCEPT !.phase = "recover", !.shown = courses, !.left = Sent(Cached)])
    BY <1>4, <2>2, JobMoves
  <2>4. GoodJob([j EXCEPT !.phase = "ask"])
    BY <1>2 DEF GoodJob, Job
  <2>5. \A i \in jobs' : GoodJob(i)
    BY <1>5, <1>6, <2>3, <2>4, Replaced DEF LoadArrives
  <2>6. listed' \in [Mounts -> SUBSET Courses]
    BY <1>2, <1>4, <1>6 DEF LoadArrives
  <2> QED
    BY <1>1, <1>3, <2>5, <2>6, CalmStep
<1>7. CASE SyncRead(j)
  <2>1. GoodJob([j EXCEPT !.phase = "got", !.active = Active])
    <3> DEFINE a == Active
    <3>1. a \in [Courses -> Ids \cup {0}] /\ \A c \in Courses : a[c] # 0 => Linked(a[c], c)
      BY ActiveGood
    <3> HIDE DEF a
    <3>2. GoodJob([j EXCEPT !.phase = "got", !.active = a])
      BY <1>2, <3>1 DEF GoodJob, Job
    <3> QED
      BY <3>2 DEF a
  <2>2. \A i \in jobs' : GoodJob(i)
    BY <1>5, <1>7, <2>1, Replaced DEF SyncRead
  <2>3. listed' = listed
    BY <1>7 DEF SyncRead
  <2> QED
    BY <1>1, <1>3, <1>4, <2>2, <2>3, CalmStep
<1>8. ASSUME NEW x \in j.left, JobRead(j, x) PROVE CoursesInv'
  <2> DEFINE y1 == [x EXCEPT !.seen = RowOf(x.task), !.course = RowCourse(x.task)]
             y2 == [x EXCEPT !.seen = "none"]
  <2>1. x \in Query /\ x.task \in Ids \cup {Asked} /\ GoodRows
    BY <1>2 DEF Query, CoursesInv, Tracks
  <2>2. RowOf(x.task) \in Seen /\ RowCourse(x.task) \in Courses \cup {NoCourse} /\ "none" \in Seen
    BY <2>1 DEF RowOf, RowCourse, Seen, Row, GoodRows
  <2>3. y1 \in Query /\ y2 \in Query
    BY <2>1, <2>2 DEF Query
  <2>4. GoodQuery(y1)
    <3>1. y1.seen = RowOf(x.task) /\ y1.course = RowCourse(x.task) /\ y1.task = x.task
      BY <2>1 DEF Query
    <3> HIDE DEF y1
    <3>2. RowOf(x.task) \in {"open", "settled"} => x.task \in Ids /\ courseOf[x.task] = RowCourse(x.task)
      BY DEF RowOf, RowCourse
    <3> QED
      BY <3>1, <3>2 DEF GoodQuery, Linked
  <2>5. GoodQuery(y2)
    BY <2>1 DEF GoodQuery, Query
  <2>6. PICK y \in {y1, y2} : Replace(j, [j EXCEPT !.left = (j.left \ {x}) \cup {y}])
    BY <1>8 DEF JobRead
  <2> HIDE DEF y1, y2
  <2> DEFINE L == (j.left \ {x}) \cup {y}
  <2>7. L \in SUBSET Query /\ \A z \in L : GoodQuery(z)
    BY <1>2, <2>3, <2>4, <2>5 DEF GoodJob
  <2> HIDE DEF L
  <2>8. GoodJob([j EXCEPT !.left = L])
    BY <2>7, JobMoves
  <2>9. \A i \in jobs' : GoodJob(i)
    BY <2>6, <2>8, Replaced DEF L
  <2>10. listed' = listed
    BY <1>8 DEF JobRead
  <2> QED
    BY <1>1, <1>3, <1>4, <2>9, <2>10, CalmStep
<1> QED
  BY <1>6, <1>7, <1>8


\* New loops are good, and poll what they are started for.
LEMMA StartedGood ==
    ASSUME NEW p \in Mounts, NEW T \in SUBSET (Courses \X Ids),
           \A x \in T : Linked(x[2], x[1])
    PROVE  /\ \A q \in Started(p, T) : GoodPoll(q)
           /\ Alive(p) => \A x \in T : \E q \in polls \cup Started(p, T) :
                             q.page = p /\ q.task = x[2]
<1>1. 0 \in 0 .. MaxPoll - 1
  BY CoursesAssumption
<1>2. ASSUME NEW x \in T
      PROVE  /\ GoodPoll(NewPoll(p, x[1], x[2]))
             /\ NewPoll(p, x[1], x[2]).page = p /\ NewPoll(p, x[1], x[2]).task = x[2]
  <2>1. x[1] \in Courses /\ x[2] \in Ids
    OBVIOUS
  <2>2. Linked(x[2], x[1])
    OBVIOUS
  <2> DEFINE c == x[1]
             t == x[2]
  <2> HIDE DEF c, t
  <2>3. c \in Courses /\ t \in Ids /\ Linked(t, c) => GoodPoll(NewPoll(p, c, t))
    BY <1>1 DEF GoodPoll, NewPoll, Poll, Seen
  <2>4. NewPoll(p, c, t).page = p /\ NewPoll(p, c, t).task = t
    BY DEF NewPoll
  <2> QED
    BY <2>1, <2>2, <2>3, <2>4 DEF c, t
<1>3. \A q \in Started(p, T) : GoodPoll(q)
  BY <1>2 DEF Started
<1>4. ASSUME Alive(p), NEW x \in T
      PROVE  \E q \in polls \cup Started(p, T) : q.page = p /\ q.task = x[2]
  <2>1. CASE Polling(p, x[2])
    BY <2>1 DEF Polling
  <2>2. CASE ~Polling(p, x[2])
    <3>1. NewPoll(p, x[1], x[2]) \in Started(p, T)
      BY <1>4, <2>2 DEF Started
    <3> QED
      BY <1>2, <3>1
  <2> QED
    BY <2>1, <2>2
<1> QED
  BY <1>3, <1>4

\* The end of a sync.
LEMMA ConcludeStep ==
    ASSUME CoursesInv, NEW j \in jobs, Conclude(j), PageOnly,
           UNCHANGED <<mount, mounted, listed, posts>>,
           notified' \subseteq Mounts \X Ids, GoodCache(cache)'
    PROVE  CoursesInv'
<1> DEFINE p == j.page
           new == [c \in Courses |-> Synced(j, c)]
           T == {<<c, j.active[c]>> : c \in {d \in listed[p] : ~Inactive(j, d)}}
<1>1. /\ p \in Mounts /\ j.active \in [Courses -> Ids \cup {0}]
      /\ \A c \in Courses : j.active[c] # 0 => Linked(j.active[c], c)
  BY DEF CoursesInv, Tracks, GoodJob, Job
<1>2. /\ entry' = IF Alive(p) THEN [entry EXCEPT ![p] = new] ELSE entry
      /\ polls' = polls \cup Started(p, T)
      /\ jobs' = jobs \ {j}
  BY DEF Conclude
<1>3. entry \in [Mounts -> [Courses -> Shown]] /\ GoodEntry(entry) /\ listed[p] \subseteq Courses
  BY <1>1 DEF CoursesInv, Tracks, GoodEntry, Lists3
<1>4. /\ new \in [Courses -> Ids \cup {0}]
      /\ \A c \in Courses : /\ new[c] # 0 => c \in listed[p] /\ new[c] = j.active[c] /\ ~Inactive(j, c)
                            /\ new[c] # 0 => Linked(new[c], c)
  BY <1>1 DEF Synced, Inactive
<1>5. T \in SUBSET (Courses \X Ids) /\ \A x \in T : Linked(x[2], x[1])
  <2>1. ASSUME NEW x \in T PROVE x \in Courses \X Ids /\ Linked(x[2], x[1])
    <3>1. PICK c \in Courses : x = <<c, j.active[c]>> /\ j.active[c] # 0
      BY <1>3 DEF Inactive
    <3> QED
      BY <1>1, <3>1
  <2> QED
    BY <2>1
<1>6. \A c \in Courses : new[c] # 0 => <<c, new[c]>> \in T
  BY <1>4
<1> HIDE DEF new, T, p
<1>7. /\ \A q \in Started(p, T) : GoodPoll(q)
      /\ Alive(p) => \A x \in T : \E q \in polls' : q.page = p /\ q.task = x[2]
  BY <1>1, <1>2, <1>5, StartedGood
<1>8. /\ \A q \in polls' : GoodPoll(q)
      /\ \A i \in jobs' : GoodJob(i)
      /\ \A x \in posts' : GoodPost(x)
  BY <1>2, <1>7 DEF CoursesInv, Tracks
<1>9. /\ GoodEntry(entry')
      /\ \A m \in Mounts, d \in Courses :
            entry'[m][d] = IF Alive(p) /\ m = p THEN new[d] ELSE entry[m][d]
  <2>1. CASE ~Alive(p)
    BY <1>2, <1>3, <2>1
  <2>2. CASE Alive(p)
    <3>1. new \in [Courses -> Shown]
      BY <1>4 DEF Shown
    <3>2. /\ entry' \in [Mounts -> [Courses -> Shown]]
          /\ \A m \in Mounts : entry'[m] = IF m = p THEN new ELSE entry[m]
      BY <1>1, <1>2, <1>3, <2>2, <3>1
    <3>3. p = mount /\ mount \in Nat
      BY <2>2 DEF Alive, CoursesInv, TabInv
    <3>4. ASSUME NEW m \in Mounts, NEW d \in Courses
          PROVE  /\ entry'[m][d] \in Ids => Linked(entry'[m][d], d)
                 /\ m > mount => entry'[m][d] = 0
      <4>1. CASE m = p
        <5>1. entry'[m][d] = new[d] /\ ~(m > mount) /\ (new[d] \in Ids => new[d] # 0)
          BY <3>2, <3>3, <4>1 DEF Ids
        <5> QED
          BY <1>4, <5>1
      <4>2. CASE m # p
        <5>1. entry'[m][d] = entry[m][d]
          BY <3>2, <4>2
        <5> QED
          BY <1>3, <5>1 DEF GoodEntry
      <4> QED
        BY <4>1, <4>2
    <3>5. GoodEntry(entry')
      BY <3>2, <3>4 DEF GoodEntry
    <3> QED
      BY <2>2, <3>2, <3>5
  <2> QED
    BY <2>1, <2>2
<1>10. Tracks'
  <2>1. GoodEntry(entry)'
    BY <1>9, EntryStays
  <2>2. listed' \in [Mounts -> SUBSET Courses]
    BY DEF CoursesInv, Tracks, Lists3
  <2> QED
    BY <1>8, <2>1, <2>2, PageOnlyStep DEF CoursesInv
<1>11. ASSUME mounted', NEW c \in Courses PROVE Busy(c)'
  <2>1. mounted /\ mount \in Mounts /\ Busy(c) /\ mount' = mount
    BY <1>11 DEF CoursesInv, Spinners, TabInv
  <2>2. CASE Alive(p)
    <3>1. entry'[mount][c] = new[c] /\ p = mount
      BY <1>9, <2>1, <2>2 DEF Alive
    <3>2. new[c] = 0 \/ \E q \in polls' : q.page = p /\ q.task = new[c]
      <4>1. CASE new[c] # 0
        <5>1. <<c, new[c]>> \in T
          BY <1>6, <4>1
        <5>2. \A x \in T : \E q \in polls' : q.page = p /\ q.task = x[2]
          BY <1>7, <2>2
        <5> QED
          BY <5>1, <5>2
      <4> QED
        BY <4>1
    <3> QED
      BY <2>1, <3>1, <3>2 DEF Busy
  <2>3. CASE ~Alive(p)
    <3>1. entry'[mount][c] = entry[mount][c]
      BY <1>9, <2>1, <2>3
    <3>2. PollsStay({}) /\ PostsStay({}) /\ deleted \subseteq deleted'
      BY <1>2 DEF PollsStay, PostsStay, PageOnly
    <3> QED
      BY <2>1, <3>1, <3>2, StaysBusy
  <2> QED
    BY <2>2, <2>3
<1>12. TabInv' /\ Spinners'
  BY <1>11 DEF CoursesInv, TabInv, Mounts, Spinners
<1> QED
  BY <1>10, <1>12 DEF CoursesInv


\* The answer for a cached task.
LEMMA RecoverStep ==
    ASSUME CoursesInv, NEW j \in jobs, NEW x \in j.left, Recover(j, x)
    PROVE  CoursesInv'
<1> DEFINE p == j.page
           c == x.course
           t == x.task
<1>1. /\ PageOnly /\ UNCHANGED <<mount, mounted, listed, posts>>
  BY DEF Recover, PageOnly, tabVars
<1>2. /\ j \in Job /\ GoodJob(j) /\ p \in Mounts /\ j.left \in SUBSET Query /\ j.shown \in SUBSET Courses
      /\ x \in Query /\ GoodQuery(x)
  BY DEF CoursesInv, Tracks, GoodJob, Job
<1>3. \A i \in jobs' : GoodJob(i)
  <2>1. GoodJob([j EXCEPT !.phase = "ask", !.shown = {}, !.left = {}])
    BY <1>2 DEF GoodJob, Job
  <2>2. GoodJob([j EXCEPT !.left = j.left \ {x}])
    <3>1. j.left \ {x} \in SUBSET Query /\ \A y \in j.left \ {x} : GoodQuery(y)
      BY <1>2 DEF GoodJob
    <3> QED
      BY <1>2, <3>1 DEF GoodJob, Job
  <2>3. \/ Replace(j, [j EXCEPT !.phase = "ask", !.shown = {}, !.left = {}])
        \/ Replace(j, [j EXCEPT !.left = j.left \ {x}])
    BY DEF Recover
  <2> QED
    BY <2>1, <2>2, <2>3, Replaced
<1>4. GoodCache(cache)' /\ notified' \subseteq Mounts \X Ids
  <2>1. notified \subseteq Mounts \X Ids /\ GoodCache(cache)
    BY DEF CoursesInv, Tracks
  <2>2. CASE UNCHANGED <<notified, cache>>
    BY <2>1, <2>2 DEF GoodCache, Ids
  <2>3. CASE x.seen = "settled" /\ Announce(p, t)
    <3>1. t \in Ids
      BY <1>2, <2>3 DEF GoodQuery
    <3>2. GoodCache(cache)' /\ notified' = notified \cup {<<p, t>>}
      BY <2>1, <2>3, AnnounceCache DEF Announce
    <3> QED
      BY <1>2, <2>1, <3>1, <3>2
  <2> QED
    BY <2>2, <2>3 DEF Recover, QueryFails
<1>5. CASE ~(x.seen = "open" /\ c \in j.shown)
  <2>1. UNCHANGED <<entry, polls>>
    BY <1>5 DEF Recover
  <2>2. listed' \in [Mounts -> SUBSET Courses] /\ mounted' \in BOOLEAN
    BY <1>1 DEF CoursesInv, Tracks, Lists3, TabInv
  <2> QED
    BY <1>1, <1>3, <1>4, <2>1, <2>2, CalmStep
<1>6. CASE x.seen = "open" /\ c \in j.shown
  <2>1. entry' = Show(p, c, t) /\ polls' = polls \cup Started(p, {<<c, t>>})
    BY <1>6 DEF Recover
  <2>2. c \in Courses /\ t \in Ids /\ Linked(t, c)
    BY <1>2, <1>6 DEF GoodQuery
  <2> DEFINE T == {<<c, t>>}
  <2>3. T \in SUBSET (Courses \X Ids) /\ (\A y \in T : Linked(y[2], y[1])) /\ <<c, t>> \in T
    BY <2>2
  <2> HIDE DEF T, c, t, p
  <2>4. /\ \A q \in Started(p, T) : GoodPoll(q)
        /\ Alive(p) => \A y \in T : \E q \in polls \cup Started(p, T) : q.page = p /\ q.task = y[2]
    BY <1>2, <2>3, StartedGood
  <2>5. Alive(p) => \E q \in polls' : q.page = p /\ q.task = t
    <3>1. <<c, t>>[2] = t
      OBVIOUS
    <3> QED
      BY <2>1, <2>3, <2>4, <3>1 DEF T
  <2>6. /\ \A q \in polls' : GoodPoll(q)
        /\ \A y \in posts' : GoodPost(y)
    BY <1>1, <2>1, <2>4 DEF CoursesInv, Tracks, T
  <2> DEFINE none == {}
  <2>7. /\ mounted => PollsStay(none) /\ PostsStay(none)
        /\ \A d \in Courses : Alive(p) /\ d # c => /\ entry[p][d] \notin none \/ entry[p][d] \in deleted
                                                   /\ d \notin none
        /\ ~Alive(p) => none = {} /\ none = {}
    BY <1>1, <2>1 DEF PollsStay, PostsStay
  <2> HIDE DEF none
  <2>8. t \in Shown /\ (t \in Ids => Linked(t, c))
    BY <2>2 DEF Shown
  <2>9. Alive(p) => \/ t = 0 \/ t \in deleted
                    \/ \E q \in polls' : q.page = p /\ q.task = t
                    \/ \E y \in posts' : y.page = p /\ y.course = c
    BY <2>5
  <2>10. p \in Mounts /\ c \in Courses /\ PageOnly /\ UNCHANGED <<mount, mounted, listed>>
    BY <1>1, <1>2, <2>2
  <2>11. entry' = Show(p, c, t)
    BY <2>1
  <2> QED
    BY <1>3, <1>4, <2>6, <2>7, <2>8, <2>9, <2>10, <2>11, ShowStep
<1> QED
  BY <1>5, <1>6

\* The active tasks of a list, in the order of the reply.
LEMMA ActiveSeq ==
    ASSUME NEW j, GoodJob(j), SyncArrives(j)
    PROVE  \E s \in Seq(Ids) : Remember(s)
<1> DEFINE A == {j.active[c] : c \in {d \in Courses : ~Inactive(j, d)}}
<1>1. A \in SUBSET Ids
  BY DEF Inactive, GoodJob, Job
<1>2. PICK s \in [1 .. Cardinality(A) -> A] : Remember(s)
  BY DEF SyncArrives
<1> HIDE DEF A
<1>3. MaxId \in Nat /\ A \in SUBSET (1 .. MaxId)
  BY <1>1, CoursesAssumption DEF Ids
<1>4. Cardinality(A) \in Nat
  BY <1>3, Positions
<1>5. s \in [1 .. Cardinality(A) -> Ids]
  BY <1>1
<1>6. s \in Seq(Ids)
  BY <1>4, <1>5
<1> QED
  BY <1>2, <1>6

\* A sync handles the list of active tasks.
LEMMA SyncStep ==
    ASSUME CoursesInv, NEW j \in jobs, SyncArrives(j)
    PROVE  CoursesInv'
<1>1. /\ PageOnly /\ UNCHANGED <<mount, mounted, listed, posts, notified>>
  BY DEF SyncArrives, PageOnly, tabVars
<1>2. /\ j \in Job /\ GoodJob(j) /\ j.page \in Mounts /\ j.active \in [Courses -> Ids \cup {0}]
      /\ notified \subseteq Mounts \X Ids /\ GoodCache(cache)
      /\ entry \in [Mounts -> [Courses -> Shown]] /\ listed \in [Mounts -> SUBSET Courses]
      /\ mounted \in BOOLEAN
  BY DEF CoursesInv, Tracks, GoodJob, Job, GoodEntry, Lists3, TabInv
<1>3. PICK s \in Seq(Ids) : Remember(s)
  BY <1>2, ActiveSeq
<1>6. GoodCache(cache)' /\ notified' \subseteq Mounts \X Ids
  BY <1>1, <1>2, <1>3, RememberCache
<1>7. CASE Conclude(j)
  BY <1>1, <1>6, <1>7, ConcludeStep
<1>8. ASSUME Replace(j, [j EXCEPT !.phase = "settle", !.left = Sent(Disappeared(j))]),
             UNCHANGED <<entry, polls>>
      PROVE  CoursesInv'
  <2> DEFINE L == Sent(Disappeared(j))
  <2>1. Disappeared(j) \in SUBSET (Ids \cup {Asked})
    BY <1>2 DEF Disappeared, Shown
  <2>2. L \in SUBSET Query /\ \A x \in L : GoodQuery(x)
    BY <2>1, SentGood
  <2> HIDE DEF L
  <2>3. GoodJob([j EXCEPT !.phase = "settle", !.left = L])
    BY <1>2, <2>2 DEF GoodJob, Job
  <2>4. \A i \in jobs' : GoodJob(i)
    BY <1>8, <2>3, Replaced DEF L
  <2> QED
    BY <1>1, <1>2, <1>6, <1>8, <2>4, CalmStep
<1> QED
  BY <1>7, <1>8 DEF SyncArrives

\* The answer for a task that disappeared.
LEMMA DisappearStep ==
    ASSUME CoursesInv, NEW j \in jobs, NEW x \in j.left, Disappear(j, x)
    PROVE  CoursesInv'
<1>1. /\ PageOnly /\ UNCHANGED <<mount, mounted, listed, posts>>
  BY DEF Disappear, PageOnly, tabVars
<1>2. /\ j \in Job /\ GoodJob(j) /\ j.page \in Mounts /\ j.left \in SUBSET Query /\ GoodQuery(x)
      /\ notified \subseteq Mounts \X Ids /\ GoodCache(cache)
      /\ listed \in [Mounts -> SUBSET Courses] /\ mounted \in BOOLEAN
  BY DEF CoursesInv, Tracks, GoodJob, Job, Lists3, TabInv
<1>3. GoodCache(cache)' /\ notified' \subseteq Mounts \X Ids
  <2>1. CASE UNCHANGED <<notified, cache>>
    BY <1>2, <2>1 DEF GoodCache, Ids
  <2>2. CASE x.seen = "settled" /\ Announce(j.page, x.task)
    <3>1. x.task \in Ids
      BY <1>2, <2>2 DEF GoodQuery
    <3>2. GoodCache(cache)' /\ notified' = notified \cup {<<j.page, x.task>>}
      BY <1>2, <2>2, AnnounceCache DEF Announce
    <3> QED
      BY <1>2, <3>1, <3>2
  <2> QED
    BY <2>1, <2>2 DEF Disappear
<1>4. CASE Conclude(j)
  BY <1>1, <1>3, <1>4, ConcludeStep
<1>5. ASSUME Replace(j, [j EXCEPT !.left = j.left \ {x}]), UNCHANGED <<entry, polls>>
      PROVE  CoursesInv'
  <2>1. j.left \ {x} \in SUBSET Query /\ \A y \in j.left \ {x} : GoodQuery(y)
    BY <1>2 DEF GoodJob
  <2>2. GoodJob([j EXCEPT !.left = j.left \ {x}])
    BY <1>2, <2>1 DEF GoodJob, Job
  <2>3. \A i \in jobs' : GoodJob(i)
    BY <1>5, <2>2, Replaced
  <2> QED
    BY <1>1, <1>2, <1>3, <1>5, <2>3, CalmStep
<1> QED
  BY <1>4, <1>5 DEF Disappear


\* Steps of the server.
LEMMA ServerStep ==
    ASSUME CoursesInv, LinksStay, GoodRows', Lists3',
           UNCHANGED <<mount, mounted, entry, polls, notified, cache>>,
           \A j \in jobs' : GoodJob(j), \A x \in posts' : GoodPost(x)',
           PostsStay({}), deleted \subseteq deleted'
    PROVE  CoursesInv'
<1>1. GoodEntry(entry)'
  BY DEF CoursesInv, Tracks, GoodEntry, LinksStay
<1>2. /\ \A q \in polls' : GoodPoll(q)'
      /\ \A j \in jobs' : GoodJob(j)'
  BY GoodStays DEF CoursesInv, Tracks
<1>3. notified' \subseteq Mounts \X Ids /\ GoodCache(cache)'
  BY DEF CoursesInv, Tracks, GoodCache
<1>4. Tracks'
  BY <1>1, <1>2, <1>3 DEF Tracks
<1>5. PollsStay({})
  BY DEF PollsStay
<1>6. Spinners'
  BY <1>5, AllStayBusy DEF CoursesInv
<1>7. TabInv'
  BY DEF CoursesInv, TabInv, Mounts
<1> QED
  BY <1>4, <1>6, <1>7 DEF CoursesInv

LEMMA NewJobGood ==
    ASSUME NEW p \in Mounts, NEW ph \in {"load", "recover", "ask", "got", "settle"}
    PROVE  GoodJob([[page |-> mount, phase |-> ph, shown |-> {}, active |-> [c \in Courses |-> 0],
                     left |-> {}] EXCEPT !.page = p])
BY DEF GoodJob, Job

\* The page opens, closes, syncs.
LEMMA VisitStep ==
    ASSUME CoursesInv, OpenPage \/ ClosePage \/ SyncTick
    PROVE  CoursesInv'
<1>1. /\ PageOnly /\ UNCHANGED <<listed, entry, polls, posts, notified, cache>>
  BY DEF OpenPage, ClosePage, SyncTick, PageOnly
<1>2. /\ listed' \in [Mounts -> SUBSET Courses] /\ notified' \subseteq Mounts \X Ids /\ GoodCache(cache)'
      /\ mounted \in BOOLEAN /\ mount \in 0 .. MaxMounts /\ (mounted => mount \in Mounts)
      /\ MaxMounts \in Nat /\ \A j \in jobs : GoodJob(j)
  BY <1>1, CoursesAssumption DEF CoursesInv, Tracks, Lists3, GoodCache, TabInv
<1>3. CASE OpenPage
  <2>1. ~mounted /\ mount' = mount + 1 /\ mount + 1 \in Mounts /\ mounted' = TRUE /\ TabInv'
    <3>1. Mount
      BY <1>3 DEF OpenPage
    <3>2. TabInv'
      BY <1>2, <3>1, TabStep DEF CoursesInv
    <3> QED
      BY <1>2, <3>1, <3>2 DEF Mount, Mounts
  <2>2. jobs' = jobs \cup {[NewJob("load") EXCEPT !.page = mount + 1]}
    BY <1>3 DEF OpenPage
  <2>3. GoodJob([NewJob("load") EXCEPT !.page = mount + 1])
    BY <2>1, NewJobGood DEF NewJob
  <2>4. GoodEntry(entry)' /\ \A c \in Courses : entry[mount + 1][c] = 0
    <3>1. GoodEntry(entry)
      BY DEF CoursesInv, Tracks
    <3>2. \A p \in Mounts : p > mount + 1 => p > mount
      BY <1>2 DEF Mounts
    <3>3. mount + 1 > mount
      BY <1>2
    <3> QED
      BY <1>1, <2>1, <3>1, <3>2, <3>3 DEF GoodEntry, Linked, PageOnly
  <2>5. Tracks'
    BY <1>1, <1>2, <2>2, <2>3, <2>4, PageOnlyStep DEF CoursesInv, Tracks
  <2>6. Spinners'
    BY <1>1, <2>1, <2>4 DEF Spinners, Busy
  <2> QED
    BY <2>1, <2>5, <2>6 DEF CoursesInv
<1>4. CASE ClosePage
  BY <1>1, <1>2, <1>4, CalmStep DEF ClosePage, Unmount
<1>5. CASE SyncTick
  <2>1. mounted /\ UNCHANGED <<mount, mounted>>
    BY <1>5 DEF SyncTick, tabVars
  <2>2. PICK ph \in {"ask", "load"} : jobs' = jobs \cup {NewJob(ph)}
    BY <1>5 DEF SyncTick, Start
  <2>3. NewJob(ph) = [NewJob(ph) EXCEPT !.page = mount]
    BY DEF NewJob
  <2>4. GoodJob(NewJob(ph))
    BY <1>2, <2>1, <2>3, NewJobGood DEF NewJob
  <2> QED
    BY <1>1, <1>2, <2>1, <2>2, <2>4, CalmStep
<1> QED
  BY <1>3, <1>4, <1>5

\* A course is deleted, or a thread settles its task.
LEMMA RowsStep ==
    ASSUME CoursesInv, (\E c \in Courses : DeleteCourse(c)) \/ (\E t \in Ids : SettleRow(t))
    PROVE  CoursesInv'
<1>1. GoodRows /\ Lists3 /\ (mounted => mount \in Mounts) /\ (\A j \in jobs : GoodJob(j))
      /\ (\A x \in posts : GoodPost(x))
  BY DEF CoursesInv, Tracks, TabInv
<1>2. ASSUME NEW c \in Courses, DeleteCourse(c) PROVE CoursesInv'
  <2>1. /\ UNCHANGED <<mount, mounted, listed, entry, polls, notified, cache, posts>> /\ mounted
        /\ courses' = courses \ {c} /\ deleted' = deleted \cup {t \in Ids : courseOf[t] = c}
        /\ rows' = [t \in Ids |-> IF courseOf[t] = c THEN "none" ELSE rows[t]]
        /\ courseOf' = [t \in Ids |-> IF courseOf[t] = c THEN NoCourse ELSE courseOf[t]]
        /\ jobs' = jobs \cup {NewJob("load")}
    BY <1>2 DEF DeleteCourse, Start, tabVars
  <2>2. LinksStay
    <3>1. ASSUME NEW t \in Ids, NEW d \in Courses, Linked(t, d) PROVE Linked(t, d)'
      BY <2>1, <3>1 DEF Linked
    <3> QED
      BY <3>1 DEF LinksStay
  <2>3. GoodRows' /\ Lists3'
    BY <1>1, <2>1 DEF GoodRows, Lists3, Row
  <2>4. \A j \in jobs' : GoodJob(j)
    <3>1. NewJob("load") = [NewJob("load") EXCEPT !.page = mount]
      BY DEF NewJob
    <3>2. GoodJob(NewJob("load"))
      BY <1>1, <2>1, <3>1, NewJobGood DEF NewJob
    <3> QED
      BY <1>1, <2>1, <3>2
  <2>5. \A x \in posts' : GoodPost(x)'
    BY <1>1, <2>1, <2>2, GoodStays
  <2>6. PostsStay({}) /\ deleted \subseteq deleted'
    BY <2>1 DEF PostsStay
  <2> QED
    BY <2>1, <2>2, <2>3, <2>4, <2>5, <2>6, ServerStep
<1>3. ASSUME NEW t \in Ids, SettleRow(t) PROVE CoursesInv'
  <2>1. /\ UNCHANGED <<mount, mounted, courses, listed, entry, polls, notified, cache, posts, jobs,
                       deleted, courseOf>>
        /\ rows[t] = "open" /\ rows' = [rows EXCEPT ![t] = "settled"]
    BY <1>3 DEF SettleRow, tabVars
  <2>2. LinksStay
    BY <2>1 DEF LinksStay, Linked
  <2>3. GoodRows' /\ Lists3'
    BY <1>1, <2>1 DEF GoodRows, Lists3, Row
  <2>4. PostsStay({}) /\ \A x \in posts' : GoodPost(x)'
    BY <1>1, <2>1, <2>2, GoodStays DEF PostsStay
  <2> QED
    BY <1>1, <2>1, <2>2, <2>3, <2>4, ServerStep
<1> QED
  BY <1>2, <1>3


\* The server looks for an open task, and inserts one.
LEMMA PostServer ==
    ASSUME CoursesInv, NEW x \in posts, PostCheck(x) \/ PostInsert(x)
    PROVE  CoursesInv'
<1>1. /\ UNCHANGED <<mount, mounted, courses, listed, entry, polls, notified, cache, jobs, deleted>>
  BY DEF PostCheck, PostInsert, tabVars
<1>2. /\ x \in Post /\ GoodPost(x) /\ x.course \in Courses /\ GoodRows /\ Lists3
      /\ (\A j \in jobs : GoodJob(j)) /\ (\A y \in posts : GoodPost(y)) /\ NoCourse \notin Courses
  BY CoursesAssumption DEF CoursesInv, Tracks, GoodPost, Post
<1>3. ASSUME NEW ph \in {"sent", "new", "ok"}, NEW e \in Ids \cup {0}, Answer(x, ph, e), LinksStay,
             GoodRows', ph = "ok" => e \in Ids /\ Linked(e, x.course)'
      PROVE  CoursesInv'
  <2> DEFINE y == [x EXCEPT !.phase = ph, !.task = e]
  <2>1. /\ y \in Post /\ y.page = x.page /\ y.course = x.course /\ y.phase = ph /\ y.task = e
    BY <1>2 DEF Post
  <2>2. posts' = (posts \ {x}) \cup {y}
    BY <1>3 DEF Answer
  <2> HIDE DEF y
  <2>3. GoodPost(y)'
    BY <1>3, <2>1 DEF GoodPost, Post, Mounts, Ids
  <2>4. \A z \in posts' : GoodPost(z)'
    BY <1>2, <1>3, <2>2, <2>3, GoodStays
  <2>5. PostsStay({})
    BY <2>1, <2>2 DEF PostsStay
  <2>6. Lists3'
    BY <1>1, <1>2 DEF Lists3
  <2> QED
    BY <1>1, <1>2, <1>3, <2>4, <2>5, <2>6, ServerStep
<1>4. CASE PostCheck(x)
  <2>1. UNCHANGED <<rows, courseOf>>
    BY <1>4 DEF PostCheck
  <2>2. LinksStay /\ GoodRows'
    BY <1>1, <1>2, <2>1 DEF LinksStay, Linked, GoodRows
  <2>3. Answer(x, "new", 0) \/ \E t \in OpenOf(x.course) : Answer(x, "ok", t)
    BY <1>4 DEF PostCheck
  <2>4. CASE Answer(x, "new", 0)
    BY <1>3, <2>2, <2>4
  <2>5. ASSUME NEW t \in OpenOf(x.course), Answer(x, "ok", t) PROVE CoursesInv'
    <3>1. t \in Ids /\ Linked(t, x.course)'
      BY <2>1 DEF OpenOf, Linked
    <3> QED
      BY <1>3, <2>2, <2>5, <3>1
  <2> QED
    BY <2>3, <2>4, <2>5
<1>5. CASE PostInsert(x)
  <2>1. PICK t \in Ids : /\ rows[t] = "none" /\ rows' = [rows EXCEPT ![t] = "open"]
                         /\ courseOf' = [courseOf EXCEPT ![t] = x.course]
                         /\ Answer(x, "ok", t)
    BY <1>5 DEF PostInsert
  <2>2. GoodRows'
    BY <1>1, <1>2, <2>1 DEF GoodRows, Row
  <2>3. LinksStay
    <3>1. ASSUME NEW u \in Ids, NEW c \in Courses, Linked(u, c) PROVE Linked(u, c)'
      <4>1. CASE u = t
        BY <1>1, <1>2, <2>1, <3>1, <4>1 DEF Linked, GoodRows
      <4>2. CASE u # t
        BY <1>1, <1>2, <2>1, <3>1, <4>2 DEF Linked, GoodRows
      <4> QED
        BY <4>1, <4>2
    <3> QED
      BY <3>1 DEF LinksStay
  <2>4. Linked(t, x.course)'
    BY <1>2, <2>1 DEF Linked, GoodRows
  <2> QED
    BY <1>3, <2>1, <2>2, <2>3, <2>4
<1> QED
  BY <1>4, <1>5

\* The button is pressed, and the page handles the reply.
LEMMA ButtonStep ==
    ASSUME CoursesInv,
           (\E c \in Courses : DoReindex(c)) \/ (\E x \in posts : PostOk(x) \/ PostBad(x))
    PROVE  CoursesInv'
<1> DEFINE none == {}
<1>1. /\ (mounted => mount \in Mounts) /\ (\A j \in jobs : GoodJob(j)) /\ (\A q \in polls : GoodPoll(q))
      /\ (\A y \in posts : GoodPost(y)) /\ GoodCache(cache) /\ notified \subseteq Mounts \X Ids
  BY DEF CoursesInv, Tracks, TabInv
<1>2. 0 \in Shown /\ Asked \in Shown /\ 0 \notin Ids /\ Asked \notin Ids /\ 0 \in Ids \cup {0}
  BY CoursesAssumption DEF Shown, Asked, Ids
<1>3. none = {} /\ \A v : v \notin none
  OBVIOUS
<1> HIDE DEF none
<1>4. ASSUME NEW c \in Courses, DoReindex(c) PROVE CoursesInv'
  <2>1. /\ mounted /\ PageOnly
        /\ UNCHANGED <<mount, mounted, listed, notified, cache, polls, jobs>>
        /\ entry' = Show(mount, c, Asked)
    BY <1>4 DEF DoReindex, PageOnly, tabVars
  <2>2. PICK k \in 1 .. MaxPosts :
            posts' = posts \cup {[page |-> mount, k |-> k, course |-> c, phase |-> "sent", task |-> 0]}
    BY <1>4 DEF DoReindex
  <2> DEFINE y == [page |-> mount, k |-> k, course |-> c, phase |-> "sent", task |-> 0]
  <2>3. GoodPost(y) /\ y.page = mount /\ y.course = c
    BY <1>1, <1>2, <2>1 DEF GoodPost, Post
  <2>4. posts' = posts \cup {y}
    BY <2>2
  <2> HIDE DEF y
  <2>5. /\ \A z \in posts' : GoodPost(z)
        /\ \A q \in polls' : GoodPoll(q)
        /\ \A j \in jobs' : GoodJob(j)
        /\ GoodCache(cache)' /\ notified' \subseteq Mounts \X Ids
    BY <1>1, <2>1, <2>3, <2>4 DEF GoodCache, Ids
  <2>6. PollsStay(none) /\ PostsStay(none)
    BY <2>1, <2>4 DEF PollsStay, PostsStay
  <2>7. Alive(mount) => \/ Asked = 0 \/ Asked \in deleted
                        \/ \E q \in polls' : q.page = mount /\ q.task = Asked
                        \/ \E z \in posts' : z.page = mount /\ z.course = c
    BY <2>3, <2>4
  <2>8. mount \in Mounts /\ (Asked \in Ids => Linked(Asked, c))
        /\ UNCHANGED <<mount, mounted, listed>>
    BY <1>1, <1>2, <2>1
  <2>9. \A d \in Courses : Alive(mount) /\ d # c => /\ entry[mount][d] \notin none \/ entry[mount][d] \in deleted
                                                    /\ d \notin none
    BY <1>3
  <2>10. Asked \in Shown /\ PageOnly /\ entry' = Show(mount, c, Asked)
    BY <1>2, <2>1
  <2>11. ~Alive(mount) => none = {} /\ none = {}
    BY <1>3
  <2> QED
    BY <2>5, <2>6, <2>7, <2>8, <2>9, <2>10, <2>11, ShowStep
<1>5. ASSUME NEW x \in posts, PostOk(x) \/ PostBad(x) PROVE CoursesInv'
  <2> DEFINE p == x.page
             c == x.course
             C == IF Alive(p) THEN {c} ELSE {}
  <2>1. /\ PageOnly /\ UNCHANGED <<mount, mounted, listed>> /\ UNCHANGED <<notified, jobs>>
        /\ posts' = posts \ {x}
    BY <1>5 DEF PostOk, PostBad, PageOnly, tabVars
  <2>2. x \in Post /\ p \in Mounts /\ c \in Courses /\ GoodPost(x)
    BY <1>1 DEF GoodPost, Post
  <2>3. mounted => PostsStay(C)
    BY <2>1 DEF PostsStay, Alive
  <2>4. /\ \A z \in posts' : GoodPost(z)
        /\ \A j \in jobs' : GoodJob(j)
        /\ notified' \subseteq Mounts \X Ids
    BY <1>1, <2>1
  <2>5. \A d \in Courses : Alive(p) /\ d # c => /\ entry[p][d] \notin none \/ entry[p][d] \in deleted
                                                /\ d \notin C
    BY <1>3
  <2>6. ~Alive(p) => none = {} /\ C = {}
    BY <1>3
  <2> HIDE DEF C
  <2>7. CASE PostBad(x)
    <3>1. entry' = Show(p, c, 0) /\ UNCHANGED <<cache, polls>>
      BY <2>7 DEF PostBad
    <3>2. GoodCache(cache)' /\ (\A q \in polls' : GoodPoll(q)) /\ PollsStay(none)
      BY <1>1, <3>1 DEF GoodCache, Ids, PollsStay
    <3>3. Alive(p) => \/ 0 = 0 \/ 0 \in deleted
                      \/ \E q \in polls' : q.page = p /\ q.task = 0
                      \/ \E z \in posts' : z.page = p /\ z.course = c
      OBVIOUS
    <3>4. 0 \in Shown /\ (0 \in Ids => Linked(0, c))
      BY <1>2
    <3> HIDE DEF p, c
    <3> QED
      BY <2>1, <2>2, <2>3, <2>4, <2>5, <2>6, <3>1, <3>2, <3>3, <3>4, ShowStep
  <2>8. CASE PostOk(x)
    <3> DEFINE t == x.task
               T == {<<c, t>>}
    <3>1. x.phase = "ok" /\ entry' = Show(p, c, t) /\ Remember(<<t>>) /\ polls' = polls \cup Started(p, T)
      BY <2>8 DEF PostOk
    <3>2. t \in Ids /\ Linked(t, c)
      BY <2>2, <3>1 DEF GoodPost
    <3>3. <<t>> \in Seq(Ids)
      BY <3>2
    <3>4. GoodCache(cache)'
      BY <1>1, <3>1, <3>3, RememberCache
    <3>5. T \in SUBSET (Courses \X Ids) /\ (\A y \in T : Linked(y[2], y[1])) /\ <<c, t>> \in T
          /\ <<c, t>>[2] = t
      BY <2>2, <3>2
    <3> HIDE DEF T, t, p, c
    <3>6. /\ \A q \in Started(p, T) : GoodPoll(q)
          /\ Alive(p) => \A y \in T : \E q \in polls \cup Started(p, T) : q.page = p /\ q.task = y[2]
      BY <2>2, <3>5, StartedGood
    <3>7. \A q \in polls' : GoodPoll(q)
      BY <1>1, <3>1, <3>6
    <3>8. PollsStay(none)
      BY <3>1 DEF PollsStay
    <3>9. Alive(p) => \/ t = 0 \/ t \in deleted
                      \/ \E q \in polls' : q.page = p /\ q.task = t
                      \/ \E z \in posts' : z.page = p /\ z.course = c
      BY <3>1, <3>5, <3>6
    <3>10. t \in Shown /\ (t \in Ids => Linked(t, c)) /\ entry' = Show(p, c, t)
      BY <3>1, <3>2 DEF Shown
    <3> QED
      BY <2>1, <2>2, <2>3, <2>4, <2>5, <2>6, <3>4, <3>7, <3>8, <3>9, <3>10, ShowStep
  <2> QED
    BY <1>5, <2>7, <2>8
<1> QED
  BY <1>4, <1>5

LEMMA CoursesStep == CoursesInv /\ [CoursesNext]_coursesVars => CoursesInv'
<1> SUFFICES ASSUME CoursesInv, [CoursesNext]_coursesVars PROVE CoursesInv'
  OBVIOUS
<1>1. CASE UNCHANGED coursesVars
  <2>1. /\ PageOnly /\ UNCHANGED <<mount, mounted, listed, entry, notified, cache, polls, jobs, posts>>
    BY <1>1 DEF coursesVars, tabVars, PageOnly
  <2>2. /\ listed' \in [Mounts -> SUBSET Courses] /\ notified' \subseteq Mounts \X Ids
        /\ GoodCache(cache)' /\ (\A j \in jobs' : GoodJob(j)) /\ mounted' \in BOOLEAN
    BY <2>1 DEF CoursesInv, Tracks, Lists3, GoodCache, TabInv
  <2> QED
    BY <2>1, <2>2, CalmStep
<1>2. ASSUME NEW q \in polls, PollStep(q) PROVE CoursesInv'
  BY <1>2, PollTalks, PollAnswers DEF PollStep
<1>3. ASSUME NEW j \in jobs, JobStep(j) PROVE CoursesInv'
  BY <1>3, JobTalks, RecoverStep, SyncStep, DisappearStep DEF JobStep
<1>4. ASSUME NEW x \in posts, PostStep(x) PROVE CoursesInv'
  BY <1>4, PostServer, ButtonStep DEF PostStep
<1> QED
  BY <1>1, <1>2, <1>3, <1>4, VisitStep, RowsStep, ButtonStep DEF CoursesNext

LEMMA CoursesInitInv == CoursesInit => CoursesInv
<1> SUFFICES ASSUME CoursesInit PROVE CoursesInv
  OBVIOUS
<1>1. TabInv
  BY CoursesAssumption, TabInitInv DEF CoursesInit
<1>2. GoodEntry(entry)
  <2>1. 0 \in Shown /\ 0 \notin Ids
    BY CoursesAssumption DEF Shown, Ids
  <2> QED
    BY <2>1 DEF CoursesInit, GoodEntry
<1>3. GoodCache(cache)
  BY CoursesAssumption DEF CoursesInit, GoodCache
<1>4. GoodRows /\ Lists3
  BY DEF CoursesInit, GoodRows, Lists3, Row
<1>5. Tracks
  BY <1>2, <1>3, <1>4 DEF CoursesInit, Tracks
<1>6. Spinners
  BY DEF CoursesInit, TabInit, Spinners
<1> QED
  BY <1>1, <1>5, <1>6 DEF CoursesInv

\* The invariant: what a page tracks for a course are tasks of that course, or tasks
\* whose row was deleted.
THEOREM CoursesInvariant == CoursesSpec => []CoursesInv
BY CoursesInitInv, CoursesStep, PTL DEF CoursesSpec

\* Every answer, entry, loop and cached task is one of the tracker's, whatever order the
\* answers come in.
THEOREM CoursesTypeCorrect == CoursesSpec => []CoursesTypeOK
<1>1. CoursesInv => CoursesTypeOK
  BY DEF CoursesInv, TabInv, Tracks, GoodRows, Lists3, GoodEntry, GoodCache, GoodPoll, GoodJob, GoodPost,
         CoursesTypeOK
<1> QED
  BY <1>1, CoursesInvariant, PTL

\* The button says "indexing" only while a loop or a submission will make it stop,
\* however syncs, loops, deletions and mounts interleave.
THEOREM SpinnersHavePollers == CoursesSpec => []SpinnerHasPoller
<1>1. CoursesInv => SpinnerHasPoller
  BY DEF CoursesInv, Spinners, Busy, SpinnerHasPoller
<1> QED
  BY <1>1, CoursesInvariant, PTL

\* The cache forgets a task only when a mount told its end or newer tasks fill it.
THEOREM CacheIsKept == CoursesSpec => CacheKeeps
<1> DEFINE Kept == \A t \in Cached \ Cached' :
                      \/ \E p \in Mounts : <<p, t>> \in notified'
                      \/ Len(cache') = CacheSize
<1>1. ASSUME CoursesInv, [CoursesNext]_coursesVars PROVE Kept
  <2>1. GoodCache(cache) /\ \A j \in jobs : GoodJob(j)
    BY <1>1 DEF CoursesInv, Tracks
  <2>2. CASE UNCHANGED cache
    BY <2>2 DEF Cached
  <2>3. ASSUME NEW p \in Mounts, NEW t, Announce(p, t) PROVE Kept
    BY <2>1, <2>3, AnnounceCache
  <2>4. ASSUME NEW s \in Seq(Ids), Remember(s) PROVE Kept
    BY <2>1, <2>4, RememberCache
  <2>5. ASSUME NEW q \in polls, PollStep(q) PROVE Kept
    <3>1. q.page \in Mounts
      BY <1>1 DEF CoursesInv, Tracks, GoodPoll, Poll
    <3>2. UNCHANGED cache \/ Announce(q.page, q.task)
      BY <2>5 DEF PollStep, PollSend, PollRead, PollSettled, PollOn, PollLose
    <3> QED
      BY <2>2, <2>3, <3>1, <3>2
  <2>6. ASSUME NEW j \in jobs, JobStep(j) PROVE Kept
    <3>1. j.page \in Mounts /\ j.active \in [Courses -> Ids \cup {0}]
      BY <2>1 DEF GoodJob, Job
    <3>2. \/ UNCHANGED cache \/ SyncArrives(j)
          \/ \E x \in j.left : Announce(j.page, x.task)
      BY <2>6 DEF JobStep, LoadArrives, SyncRead, JobRead, Recover, QueryFails, Disappear
    <3>3. ASSUME SyncArrives(j) PROVE \E s \in Seq(Ids) : Remember(s)
      BY <2>1, <3>3, ActiveSeq
    <3> QED
      BY <2>2, <2>3, <2>4, <3>1, <3>2, <3>3
  <2>7. ASSUME NEW x \in posts, PostStep(x) PROVE Kept
    <3>1. UNCHANGED cache \/ (PostOk(x) /\ Remember(<<x.task>>))
      BY <2>7 DEF PostStep, PostCheck, PostInsert, PostOk, PostBad
    <3>2. PostOk(x) => <<x.task>> \in Seq(Ids)
      <4>1. PostOk(x) => x.task \in Ids
        BY <1>1 DEF CoursesInv, Tracks, GoodPost, PostOk
      <4> QED
        BY <4>1
    <3> QED
      BY <2>2, <2>4, <3>1, <3>2
  <2>8. CASE \/ OpenPage \/ ClosePage \/ SyncTick
             \/ \E c \in Courses : DeleteCourse(c) \/ DoReindex(c)
             \/ \E t \in Ids : SettleRow(t)
    BY <2>2, <2>8 DEF OpenPage, ClosePage, SyncTick, DeleteCourse, DoReindex, SettleRow
  <2>9. CASE UNCHANGED coursesVars
    BY <2>2, <2>9 DEF coursesVars
  <2> HIDE DEF Kept
  <2> QED
    BY <1>1, <2>5, <2>6, <2>7, <2>8, <2>9 DEF CoursesNext
<1>2. CoursesInv /\ [CoursesNext]_coursesVars => [Kept]_coursesVars
  BY <1>1
<1> QED
  BY <1>2, CoursesInvariant, PTL DEF CoursesSpec, CacheKeeps

----------------------------------------------------------------------------
(* The chats: lists of sessions *)

\* Different sessions, updated up to now, with messages of questions asked in them.
GoodList(ss, a, n) ==
    /\ ss \in Seq(Session)
    /\ \A i, j \in DOMAIN ss : ss[i].id = ss[j].id => i = j
    /\ \A i \in DOMAIN ss :
          /\ ss[i].updatedAt <= n
          /\ \A j \in DOMAIN ss[i].messages : a[ss[i].messages[j].q] = ss[i].id

GoodChat(c, a, n) ==
    /\ c \in Chats /\ GoodList(c.sessions, a, n) /\ Len(c.sessions) <= MaxSessions
    /\ \A i \in DOMAIN c.sessions : c.sessions[i].id < c.seq

HasActive(c) == c.active \in IdsOf(c.sessions)

\* Questions stay asked and time goes on.
LEMMA ListStays ==
    ASSUME NEW a \in [Questions -> 0 .. MaxSession], NEW n \in Nat,
           NEW b, NEW m \in Nat, n <= m, \A q \in Questions : a[q] # 0 => b[q] = a[q],
           NEW ss, GoodList(ss, a, n)
    PROVE  GoodList(ss, b, m)
<1>1. ASSUME NEW i \in DOMAIN ss
      PROVE  /\ ss[i].updatedAt <= m
             /\ \A j \in DOMAIN ss[i].messages : b[ss[i].messages[j].q] = ss[i].id
  <2>1. ss[i] \in Session
    BY DEF GoodList
  <2>2. /\ ss[i].updatedAt \in 0 .. MaxClock /\ ss[i].updatedAt <= n
        /\ ss[i].messages \in Seq(Message) /\ ss[i].id \in 1 .. MaxSession
    BY <2>1 DEF GoodList, Session
  <2>3. ss[i].updatedAt <= m
    <3>1. ss[i].updatedAt \in Nat
      BY <2>2
    <3> QED
      BY <2>2, <3>1
  <2>4. ASSUME NEW j \in DOMAIN ss[i].messages PROVE b[ss[i].messages[j].q] = ss[i].id
    <3>1. ss[i].messages[j] \in Message
      BY <2>2
    <3>2. ss[i].messages[j].q \in Questions
      BY <3>1 DEF Message
    <3>3. a[ss[i].messages[j].q] = ss[i].id /\ ss[i].id # 0
      BY <2>2 DEF GoodList
    <3> QED
      BY <3>2, <3>3
  <2> QED
    BY <2>3, <2>4
<1> QED
  BY <1>1 DEF GoodList

\* Members of a good list, each taken once, are a good list.
LEMMA PickedList ==
    ASSUME NEW ss, NEW a, NEW n, GoodList(ss, a, n),
           NEW t \in Seq(Session), NEW p \in [1 .. Len(t) -> 1 .. Len(ss)],
           \A k \in 1 .. Len(t) : t[k] = ss[p[k]],
           \A k, l \in 1 .. Len(t) : p[k] = p[l] => k = l
    PROVE  GoodList(t, a, n) /\ IdsOf(t) \subseteq IdsOf(ss)
<1>1. DOMAIN t = 1 .. Len(t) /\ DOMAIN ss = 1 .. Len(ss)
  BY DEF GoodList
<1>2. \A k \in DOMAIN t : p[k] \in DOMAIN ss /\ t[k] = ss[p[k]]
  BY <1>1
<1>3. ASSUME NEW k \in DOMAIN t, NEW l \in DOMAIN t, t[k].id = t[l].id PROVE k = l
  <2>1. ss[p[k]].id = ss[p[l]].id
    BY <1>2, <1>3
  <2>2. p[k] = p[l]
    BY <1>2, <2>1 DEF GoodList
  <2> QED
    BY <1>1, <2>2
<1>4. \A k \in DOMAIN t : /\ t[k].updatedAt <= n
                          /\ \A j \in DOMAIN t[k].messages : a[t[k].messages[j].q] = t[k].id
  BY <1>2 DEF GoodList
<1>5. IdsOf(t) \subseteq IdsOf(ss)
  BY <1>2 DEF IdsOf
<1> QED
  BY <1>3, <1>4, <1>5 DEF GoodList

\* Trimming takes some sessions out, and never the one that was updated last.
LEMMA TrimmedList ==
    ASSUME NEW ss, NEW a, NEW n, GoodList(ss, a, n)
    PROVE  /\ GoodList(Trim(ss), a, n) /\ Len(Trim(ss)) <= MaxSessions
           /\ IdsOf(Trim(ss)) \subseteq IdsOf(ss)
           /\ Len(ss) <= MaxSessions => Trim(ss) = ss
           /\ \A i \in DOMAIN ss :
                 (\A j \in DOMAIN ss : j # i => ss[j].updatedAt < ss[i].updatedAt)
                     => ss[i].id \in IdsOf(Trim(ss))
<1>1. /\ ss \in Seq(Session) /\ DOMAIN ss = 1 .. Len(ss) /\ Len(ss) \in Nat
      /\ MaxSessions \in Nat \ {0}
  BY ChatAssumption DEF GoodList
<1>2. CASE Len(ss) <= MaxSessions
  BY <1>1, <1>2 DEF Trim, IdsOf
<1>3. CASE ~(Len(ss) <= MaxSessions)
  <2> DEFINE key == [i \in DOMAIN ss |-> -ss[i].updatedAt]
             w == ByUpdate(ss)
             t == SubSeq(w, 1, MaxSessions)
  <2>1. Trim(ss) = t /\ w = Sorted(ss, key)
    BY <1>3 DEF Trim, ByUpdate
  <2>2. ASSUME NEW i \in DOMAIN ss PROVE ss[i].updatedAt \in 0 .. MaxClock
    <3>1. ss[i] \in Session
      BY <1>1
    <3> QED
      BY <3>1 DEF Session
  <2>3. key \in [1 .. Len(ss) -> Int] /\ \A i \in DOMAIN ss : key[i] = -ss[i].updatedAt
    BY <1>1, <2>2
  <2> HIDE DEF key, w
  <2>4. /\ w \in Seq(Session) /\ Len(w) = Len(ss)
        /\ \E p : /\ Visits(w, ss, p, 1 .. Len(ss))
                  /\ \A k, l \in 1 .. Len(ss) : k < l => Upto(key, p[k], p[l])
    BY <1>1, <2>1, <2>3, SortedList
  <2>5. PICK p : /\ Visits(w, ss, p, 1 .. Len(ss))
                 /\ \A k, l \in 1 .. Len(ss) : k < l => Upto(key, p[k], p[l])
    BY <2>4
  <2>6. /\ p \in [1 .. Len(ss) -> 1 .. Len(ss)]
        /\ \A k \in 1 .. Len(ss) : w[k] = ss[p[k]]
        /\ \A i \in 1 .. Len(ss) : \E k \in 1 .. Len(ss) : p[k] = i
        /\ \A k, l \in 1 .. Len(ss) : p[k] = p[l] => k = l
    BY <2>4, <2>5 DEF Visits
  <2>7. /\ t \in Seq(Session) /\ Len(t) = MaxSessions
        /\ \A k \in 1 .. MaxSessions : t[k] = w[k] /\ k \in 1 .. Len(ss)
    BY <1>1, <1>3, <2>4
  <2> HIDE DEF t
  <2> DEFINE r == [k \in 1 .. Len(t) |-> p[k]]
  <2>8. /\ r \in [1 .. Len(t) -> 1 .. Len(ss)]
        /\ \A k \in 1 .. Len(t) : t[k] = ss[r[k]]
        /\ \A k, l \in 1 .. Len(t) : r[k] = r[l] => k = l
    BY <2>6, <2>7
  <2> HIDE DEF r
  <2>9. GoodList(t, a, n) /\ IdsOf(t) \subseteq IdsOf(ss)
    BY <2>7, <2>8, PickedList
  <2>10. ASSUME NEW i \in DOMAIN ss, \A j \in DOMAIN ss : j # i => ss[j].updatedAt < ss[i].updatedAt
         PROVE  ss[i].id \in IdsOf(t)
    <3>1. PICK k \in 1 .. Len(ss) : p[k] = i
      BY <1>1, <2>6
    <3>2. k = 1
      <4> SUFFICES ASSUME k # 1 PROVE FALSE
        OBVIOUS
      <4>1. 1 \in 1 .. Len(ss) /\ 1 < k
        BY <1>1, <3>1
      <4>2. Upto(key, p[1], i) /\ p[1] \in DOMAIN ss /\ p[1] # i
        BY <1>1, <2>5, <2>6, <3>1, <4>1
      <4>3. ss[p[1]].updatedAt < ss[i].updatedAt
        BY <2>10, <4>2
      <4>4. /\ key[p[1]] = -ss[p[1]].updatedAt /\ key[i] = -ss[i].updatedAt
            /\ ss[p[1]].updatedAt \in 0 .. MaxClock /\ ss[i].updatedAt \in 0 .. MaxClock
        BY <2>2, <2>3, <4>2
      <4>5. key[p[1]] < key[i] \/ key[p[1]] = key[i]
        BY <4>2 DEF Upto
      <4> QED
        BY <4>3, <4>4, <4>5, ChatAssumption
    <3>3. 1 \in 1 .. Len(t) /\ 1 \in 1 .. MaxSessions /\ 1 \in DOMAIN t
      BY <1>1, <2>7
    <3>4. t[1] = ss[i]
      BY <2>6, <2>7, <3>1, <3>2, <3>3
    <3> QED
      BY <3>3, <3>4 DEF IdsOf
  <2>11. Len(t) <= MaxSessions
    BY <1>1, <2>7
  <2> QED
    BY <1>3, <2>1, <2>9, <2>10, <2>11
<1> QED
  BY <1>2, <1>3


\* A chat on the screen has sessions, and those that are stored are them.
ChatData ==
    /\ GoodChat(chat, asked, clock) /\ HasActive(chat)
    /\ GoodChat(stored, asked, clock)
    /\ asked \in [Questions -> 0 .. MaxSession] /\ clock \in 0 .. MaxClock

\* Nobody asks before the load of the mount is over.
Waiting ==
    /\ asks \subseteq [page : Mounts, session : 1 .. MaxSession, q : Questions]
    /\ \A x \in asks : /\ asked[x.q] = x.session /\ x.page <= mount
                       /\ mounted /\ x.page = mount => arriving = {} /\ ~timer

Loading ==
    /\ loadedRef \in BOOLEAN /\ timer \in BOOLEAN
    /\ arriving \subseteq {Loaded}
    /\ mounted /\ ~timer => loadedRef

\* Once the stored chat is on the screen, it is what is on the screen.
StoredIsShown == mounted /\ arriving = {} => stored.sessions \in {chat.sessions, <<>>}

ChatInv == TabInv /\ ChatData /\ Waiting /\ Loading /\ StoredIsShown

\* A render of a chat stores it as it is.
LEMMA RenderStores ==
    ASSUME NEW a, NEW n, NEW c, GoodChat(c, a, n), Render(c)
    PROVE  chat' = c /\ stored' = IF loadedRef THEN c ELSE stored
<1>1. c \in Chats /\ Trim(c.sessions) = c.sessions
  BY TrimmedList DEF GoodChat
<1>2. [c EXCEPT !.sessions = c.sessions] = c
  BY <1>1 DEF Chats
<1>3. [c EXCEPT !.sessions = Trim(c.sessions)] = c
  BY <1>1, <1>2
<1> QED
  BY <1>3 DEF Render, Persist

LEMMA FallbackGood ==
    ASSUME NEW a, NEW n \in Nat
    PROVE  GoodChat(Fallback, a, n) /\ HasActive(Fallback)
<1> DEFINE f == NewSession(1, 0)
           ss == <<f>>
<1>1. MaxSession \in Nat \ {0} /\ MaxClock \in Nat /\ MaxSessions \in Nat \ {0}
  BY ChatAssumption
<1>2. <<>> \in Seq(Message)
  OBVIOUS
<1>3. f \in Session
  BY <1>1, <1>2 DEF NewSession, Session
<1>4. f.id = 1 /\ f.updatedAt = 0 /\ f.messages = <<>>
  BY DEF NewSession
<1> HIDE DEF f
<1>5. ss \in Seq(Session) /\ Len(ss) = 1 /\ ss[1] = f /\ DOMAIN ss = {1}
  BY <1>3
<1>6. Fallback = [sessions |-> ss, seq |-> 2, active |-> 1]
  BY DEF Fallback, f
<1> HIDE DEF ss
<1>7. Fallback \in Chats /\ Fallback.sessions = ss /\ Fallback.seq = 2 /\ Fallback.active = 1
  BY <1>1, <1>5, <1>6 DEF Chats
<1>8. GoodList(ss, a, n)
  BY <1>4, <1>5 DEF GoodList
<1>9. GoodChat(Fallback, a, n)
  <2>1. Len(Fallback.sessions) <= MaxSessions
    <3>1. 1 <= MaxSessions
      BY <1>1
    <3>2. Len(Fallback.sessions) = 1
      BY <1>5, <1>7
    <3> QED
      BY <3>1, <3>2
  <2>2. \A i \in DOMAIN Fallback.sessions : Fallback.sessions[i].id < Fallback.seq
    BY <1>4, <1>5, <1>7
  <2> QED
    BY <1>7, <1>8, <2>1, <2>2 DEF GoodChat
<1> QED
  BY <1>4, <1>5, <1>7, <1>9 DEF HasActive, IdsOf

\* What is loaded is good, and is what was stored.
LEMMA LoadedGood ==
    ASSUME NEW a, NEW n \in Nat, GoodChat(stored, a, n)
    PROVE  /\ GoodChat(Loaded, a, n) /\ HasActive(Loaded)
           /\ stored.sessions \in {Loaded.sessions, <<>>}
<1> DEFINE ss == stored.sessions
<1>1. CASE ss = <<>>
  BY <1>1, FallbackGood DEF Loaded
<1>2. CASE ss # <<>>
  <2>1. /\ GoodList(ss, a, n) /\ Len(ss) <= MaxSessions /\ stored.seq \in 0 .. MaxSession + 1
        /\ \A i \in DOMAIN ss : ss[i].id < stored.seq
        /\ MaxSession \in Nat
    BY ChatAssumption DEF GoodChat, Chats
  <2>2. Trim(ss) = ss
    BY <2>1, TrimmedList
  <2> HIDE DEF ss
  <2>3. ss \in Seq(Session) /\ 1 \in DOMAIN ss
    BY <1>2, <2>1 DEF GoodList
  <2>4. \A i \in IdsOf(ss) : i \in 1 .. MaxSession /\ i \in 0 .. MaxSession /\ i < stored.seq
    <3>1. ASSUME NEW i \in DOMAIN ss PROVE ss[i].id \in 1 .. MaxSession
      <4>1. ss[i] \in Session
        BY <2>3
      <4> QED
        BY <4>1 DEF Session
    <3>2. \A i \in IdsOf(ss) : i \in 1 .. MaxSession /\ i < stored.seq
      BY <2>1, <3>1 DEF IdsOf
    <3> QED
      BY <3>2, <2>1
  <2>5. ss[1].id \in IdsOf(ss)
    BY <2>3 DEF IdsOf
  <2> DEFINE g == CHOOSE i \in IdsOf(ss) : \A j \in IdsOf(ss) : j <= i
             m == 1 + g
             seq == IF stored.seq > m THEN stored.seq ELSE m
             act == IF stored.active \in IdsOf(ss) THEN stored.active ELSE ss[1].id
  <2>6. g \in IdsOf(ss) /\ \A j \in IdsOf(ss) : j <= g
    <3>1. IdsOf(ss) \in SUBSET (0 .. MaxSession)
      BY <2>4
    <3>2. \E i \in IdsOf(ss) : \A j \in IdsOf(ss) : j <= i
      BY <2>1, <2>5, <3>1, GreatestNatural
    <3> QED
      BY <3>2
  <2>7. Loaded = [sessions |-> ss, seq |-> seq, active |-> act]
    BY <1>2, <2>2 DEF Loaded, ss
  <2> HIDE DEF g
  <2>8. seq \in 0 .. MaxSession + 1 /\ \A j \in IdsOf(ss) : j < seq
    <3>1. g \in 1 .. MaxSession /\ g < stored.seq
      BY <2>4, <2>6
    <3>2. m \in 0 .. MaxSession + 1 /\ m <= stored.seq
      BY <2>1, <3>1
    <3>3. seq = stored.seq
      BY <2>1, <3>2
    <3> QED
      BY <2>1, <2>4, <3>3
  <2>9. act \in IdsOf(ss) /\ act \in 0 .. MaxSession
    BY <2>4, <2>5
  <2> HIDE DEF seq, act
  <2>10. Loaded \in Chats /\ Loaded.sessions = ss /\ Loaded.seq = seq /\ Loaded.active = act
    BY <2>3, <2>7, <2>8, <2>9 DEF Chats
  <2>11. \A i \in DOMAIN ss : ss[i].id < seq
    BY <2>8 DEF IdsOf
  <2>12. GoodChat(Loaded, a, n) /\ HasActive(Loaded)
    BY <2>1, <2>9, <2>10, <2>11 DEF GoodChat, HasActive
  <2> QED
    BY <2>10, <2>12 DEF ss
<1> QED
  BY <1>1, <1>2

\* New messages of a session, of questions asked in it.
LEMMA PutGood ==
    ASSUME GoodChat(chat, asked, clock), clock \in Nat, clock + 1 \in 0 .. MaxClock,
           NEW a, GoodList(chat.sessions, a, clock + 1),
           NEW id, NEW ms \in Seq(Message), \A j \in DOMAIN ms : a[ms[j].q] = id
    PROVE  /\ GoodChat(Put(id, ms), a, clock + 1)
           /\ Put(id, ms).active = chat.active /\ Put(id, ms).seq = chat.seq
           /\ IdsOf(Put(id, ms).sessions) = IdsOf(chat.sessions)
           /\ DOMAIN Put(id, ms).sessions = DOMAIN chat.sessions
           /\ \A i \in DOMAIN chat.sessions :
                 Put(id, ms).sessions[i].messages =
                     IF chat.sessions[i].id = id THEN ms ELSE chat.sessions[i].messages
<1> DEFINE ss == chat.sessions
           t == [i \in DOMAIN ss |-> IF ss[i].id # id THEN ss[i]
                                     ELSE [ss[i] EXCEPT !.messages = ms, !.updatedAt = clock + 1]]
           c == Put(id, ms)
<1>1. /\ chat \in Chats /\ ss \in Seq(Session) /\ DOMAIN ss = 1 .. Len(ss) /\ Len(ss) <= MaxSessions
      /\ \A i \in DOMAIN ss : ss[i].id < chat.seq
      /\ \A i, j \in DOMAIN ss : ss[i].id = ss[j].id => i = j
  BY DEF GoodChat, GoodList, Chats
<1>2. c = [chat EXCEPT !.sessions = t]
  BY DEF Put
<1>3. ASSUME NEW i \in DOMAIN ss
      PROVE  /\ t[i] \in Session /\ t[i].id = ss[i].id /\ t[i].updatedAt <= clock + 1
             /\ t[i].messages = IF ss[i].id = id THEN ms ELSE ss[i].messages
  <2> DEFINE s == ss[i]
  <2>1. s \in Session /\ ss[i].updatedAt <= clock + 1
    BY <1>1 DEF GoodList
  <2>2. t[i] = IF s.id # id THEN s ELSE [s EXCEPT !.messages = ms, !.updatedAt = clock + 1]
    OBVIOUS
  <2> HIDE DEF s, t
  <2>3. /\ t[i] \in Session /\ t[i].id = s.id /\ (t[i].updatedAt = clock + 1 \/ t[i] = s)
        /\ t[i].messages = IF s.id = id THEN ms ELSE s.messages
    BY <2>1, <2>2 DEF Session
  <2> QED
    BY <2>1, <2>3 DEF s
<1> HIDE DEF t
<1>4. t \in Seq(Session) /\ Len(t) = Len(ss) /\ DOMAIN t = DOMAIN ss
  <2>1. t \in [1 .. Len(ss) -> Session]
    BY <1>1, <1>3 DEF t
  <2> QED
    BY <1>1, <2>1
<1>5. c \in Chats /\ c.sessions = t /\ c.seq = chat.seq /\ c.active = chat.active
  BY <1>1, <1>2, <1>4 DEF Chats
<1>6. ASSUME NEW i \in DOMAIN ss, NEW j \in DOMAIN t[i].messages
      PROVE  a[t[i].messages[j].q] = t[i].id
  BY <1>3, <1>6 DEF GoodList
<1> HIDE DEF c, ss
<1>7. GoodList(t, a, clock + 1)
  BY <1>1, <1>3, <1>4, <1>6 DEF GoodList
<1>8. GoodChat(c, a, clock + 1)
  BY <1>1, <1>3, <1>4, <1>5, <1>7 DEF GoodChat
<1>9. IdsOf(t) = IdsOf(ss)
  BY <1>3, <1>4 DEF IdsOf
<1>10. \A i \in DOMAIN ss : t[i].messages = IF ss[i].id = id THEN ms ELSE ss[i].messages
  BY <1>3
<1> QED
  BY <1>4, <1>5, <1>8, <1>9, <1>10 DEF c, ss


\* A step of a page that has loaded: a new chat is rendered, and stored.
LEMMA ReadyStep ==
    ASSUME ChatInv, Ready, NEW c, Render(c), GoodChat(c, asked', clock'), HasActive(c),
           UNCHANGED <<tabVars, loadedRef, timer, arriving>>,
           asked' \in [Questions -> 0 .. MaxSession], clock' \in 0 .. MaxClock, Waiting'
    PROVE  ChatInv' /\ stored' = c
<1>1. mounted /\ arriving = {} /\ loadedRef
  BY DEF Ready, ChatInv, Loading
<1>2. chat' = c /\ stored' = c
  BY <1>1, RenderStores
<1>3. TabInv'
  BY DEF ChatInv, TabInv, tabVars, Mounts
<1>4. ChatData' /\ StoredIsShown'
  BY <1>2 DEF ChatData, HasActive, StoredIsShown, IdsOf
<1>5. Loading'
  BY <1>1 DEF ChatInv, Loading, tabVars
<1> QED
  BY <1>2, <1>3, <1>4, <1>5 DEF ChatInv

\* What is stored is on the screen, or nothing is.
LEMMA ReadyFacts ==
    ASSUME ChatInv, Ready
    PROVE  /\ GoodChat(chat, asked, clock) /\ HasActive(chat) /\ clock \in 0 .. MaxClock
           /\ stored.sessions \in {chat.sessions, <<>>}
           /\ asked \in [Questions -> 0 .. MaxSession] /\ chat.sessions \in Seq(Session)
           /\ MaxClock \in Nat /\ clock \in Nat
BY ChatAssumption DEF Ready, ChatInv, ChatData, StoredIsShown, GoodChat, GoodList

\* The time of a step.
LEMMA TickFacts ==
    ASSUME ChatInv, Tick
    PROVE  /\ clock' = clock + 1 /\ clock + 1 \in 0 .. MaxClock /\ clock \in Nat /\ clock + 1 \in Nat
           /\ clock <= clock + 1
BY ChatAssumption DEF ChatInv, ChatData, Tick

\* Asks on their way stay on their way.
LEMMA WaitingStays ==
    ASSUME ChatInv, Ready, asks' \subseteq asks, UNCHANGED <<tabVars, asked, arriving, timer>>
    PROVE  Waiting'
BY DEF ChatInv, Waiting, tabVars, Mounts, Questions

\* The session on the screen.
LEMMA CurrentFacts ==
    ASSUME ChatInv
    PROVE  /\ Current \in DOMAIN chat.sessions /\ chat.sessions[Current].id = chat.active
           /\ Messages \in Seq(Message) /\ chat.active \in 1 .. MaxSession
           /\ \A j \in DOMAIN Messages : asked[Messages[j].q] = chat.active
           /\ \A i \in DOMAIN chat.sessions : chat.sessions[i].id = chat.active => i = Current
<1>1. GoodChat(chat, asked, clock) /\ \E i \in DOMAIN chat.sessions : chat.sessions[i].id = chat.active
  BY DEF ChatInv, ChatData, HasActive, IdsOf
<1>2. Current \in DOMAIN chat.sessions /\ chat.sessions[Current].id = chat.active
  BY <1>1 DEF Current
<1>3. chat.sessions[Current] \in Session
  BY <1>1, <1>2 DEF GoodChat, GoodList
<1>4. Messages \in Seq(Message) /\ chat.active \in 1 .. MaxSession
  BY <1>2, <1>3 DEF Messages, Session
<1>5. \A j \in DOMAIN Messages : asked[Messages[j].q] = chat.active
  BY <1>1, <1>2 DEF Messages, GoodChat, GoodList
<1>6. \A i \in DOMAIN chat.sessions : chat.sessions[i].id = chat.active => i = Current
  BY <1>1, <1>2 DEF GoodChat, GoodList
<1> QED
  BY <1>2, <1>4, <1>5, <1>6

\* The active session gets other messages of its own questions.
LEMMA OwnMessages ==
    ASSUME ChatInv, Ready, Tick, NEW ms \in Seq(Message), NEW id \in IdsOf(chat.sessions),
           \A j \in DOMAIN ms : asked[ms[j].q] = id,
           Render(Put(id, ms)), UNCHANGED <<tabVars, loadedRef, timer, arriving, asked>>,
           asks' \subseteq asks
    PROVE  /\ ChatInv' /\ stored' = Put(id, ms)
           /\ IdsOf(stored'.sessions) = IdsOf(chat.sessions)
           /\ DOMAIN stored'.sessions = DOMAIN chat.sessions
           /\ \A i \in DOMAIN chat.sessions :
                 stored'.sessions[i].messages =
                     IF chat.sessions[i].id = id THEN ms ELSE chat.sessions[i].messages
<1>1. /\ clock' = clock + 1 /\ clock + 1 \in 0 .. MaxClock /\ clock \in Nat /\ clock + 1 \in Nat
      /\ clock <= clock + 1
  BY TickFacts
<1>2. GoodChat(chat, asked, clock) /\ HasActive(chat) /\ asked \in [Questions -> 0 .. MaxSession]
  BY ReadyFacts
<1>3. GoodList(chat.sessions, asked, clock + 1)
  BY <1>1, <1>2, ListStays DEF GoodChat
<1> DEFINE c == Put(id, ms)
<1>4. /\ GoodChat(c, asked, clock + 1) /\ c.active = chat.active
      /\ IdsOf(c.sessions) = IdsOf(chat.sessions)
      /\ DOMAIN c.sessions = DOMAIN chat.sessions
      /\ \A i \in DOMAIN chat.sessions :
            c.sessions[i].messages = IF chat.sessions[i].id = id THEN ms ELSE chat.sessions[i].messages
  BY <1>1, <1>2, <1>3, PutGood
<1>5. Render(c)
  OBVIOUS
<1> HIDE DEF c
<1>6. HasActive(c) /\ GoodChat(c, asked', clock')
  BY <1>1, <1>2, <1>4 DEF HasActive
<1>7. Waiting'
  BY WaitingStays
<1>8. ChatInv' /\ stored' = c
  BY <1>1, <1>2, <1>5, <1>6, <1>7, ReadyStep
<1> QED
  BY <1>4, <1>8 DEF c

----------------------------------------------------------------------------
(* The chats: what is stored stays stored *)

KeptStored(m) == \E i \in DOMAIN stored'.sessions : m \in Range(stored'.sessions[i].messages)

IdsKept ==
    \A id \in IdsOf(stored.sessions) \ IdsOf(stored'.sessions) : DeleteSession(id) \/ NewChat

HistoryStep ==
    /\ IdsKept
    /\ \A i \in DOMAIN stored.sessions : \A m \in Range(stored.sessions[i].messages) :
          KeptStored(m) \/ EditStep

LEMMA SameKeeps ==
    ASSUME stored'.sessions = stored.sessions \/ stored.sessions = <<>>
    PROVE  HistoryStep
BY DEF HistoryStep, IdsKept, KeptStored, IdsOf

\* A message is added to a session, and the others stay.
LEMMA AppendKeeps ==
    ASSUME ChatInv, Ready, NEW id, NEW z \in Message, NEW old \in Seq(Message),
           \A i \in DOMAIN chat.sessions : chat.sessions[i].id = id => chat.sessions[i].messages = old,
           IdsOf(stored'.sessions) = IdsOf(chat.sessions),
           DOMAIN stored'.sessions = DOMAIN chat.sessions,
           \A i \in DOMAIN chat.sessions :
               stored'.sessions[i].messages =
                   IF chat.sessions[i].id = id THEN Append(old, z) ELSE chat.sessions[i].messages
    PROVE  HistoryStep
<1>1. CASE stored.sessions = <<>>
  BY <1>1, SameKeeps
<1>2. CASE stored.sessions = chat.sessions
  <2>1. IdsKept
    BY <1>2 DEF IdsKept
  <2>2. ASSUME NEW i \in DOMAIN chat.sessions, NEW m \in Range(chat.sessions[i].messages)
        PROVE  KeptStored(m)
    <3>1. CASE chat.sessions[i].id = id
      <4>1. m \in Range(old) /\ stored'.sessions[i].messages = Append(old, z)
        BY <2>2, <3>1
      <4>2. PICK j \in DOMAIN old : m = old[j]
        BY <4>1 DEF Range
      <4>3. j \in DOMAIN Append(old, z) /\ Append(old, z)[j] = m
        BY <4>2
      <4> QED
        BY <4>1, <4>3 DEF Range, KeptStored
    <3>2. CASE chat.sessions[i].id # id
      BY <2>2, <3>2 DEF KeptStored
    <3> QED
      BY <3>1, <3>2
  <2> QED
    BY <1>2, <2>1, <2>2 DEF HistoryStep
<1> QED
  BY <1>1, <1>2, ReadyFacts

\* A question is asked.
LEMMA AskStep ==
    ASSUME ChatInv, NEW q \in Questions, Ask(q)
    PROVE  ChatInv' /\ HistoryStep
<1> DEFINE id == chat.active
           z  == [q |-> q, role |-> "user"]
           ms == Append(Messages, z)
           c  == Put(id, ms)
           x  == [page |-> mount, session |-> id, q |-> q]
<1>1. /\ Ready /\ Tick /\ asked[q] = 0
      /\ asked' = [asked EXCEPT ![q] = id] /\ asks' = asks \cup {x} /\ Render(c)
      /\ UNCHANGED <<tabVars, loadedRef, timer, arriving>>
  BY DEF Ask
<1>2. /\ clock' = clock + 1 /\ clock + 1 \in 0 .. MaxClock /\ clock \in Nat /\ clock + 1 \in Nat
      /\ clock <= clock + 1
  BY <1>1, TickFacts
<1>3. /\ GoodChat(chat, asked, clock) /\ HasActive(chat) /\ asked \in [Questions -> 0 .. MaxSession]
      /\ stored.sessions \in {chat.sessions, <<>>}
  BY <1>1, ReadyFacts
<1>4. /\ Messages \in Seq(Message) /\ id \in 1 .. MaxSession
      /\ \A j \in DOMAIN Messages : asked[Messages[j].q] = id
      /\ \A i \in DOMAIN chat.sessions : chat.sessions[i].id = id => chat.sessions[i].messages = Messages
  BY CurrentFacts DEF Messages
<1>5. /\ asked' \in [Questions -> 0 .. MaxSession] /\ asked'[q] = id
      /\ \A r \in Questions : asked[r] # 0 => asked'[r] = asked[r]
  BY <1>1, <1>3, <1>4
<1>6. GoodList(chat.sessions, asked', clock + 1)
  BY <1>2, <1>3, <1>5, ListStays DEF GoodChat
<1>7. z \in Message /\ z.q = q
  BY DEF Message
<1> HIDE DEF z
<1>8. ms \in Seq(Message) /\ \A j \in DOMAIN ms : asked'[ms[j].q] = id
  <2>1. ms \in Seq(Message) /\ Len(ms) = Len(Messages) + 1 /\ Len(Messages) \in Nat
    BY <1>4, <1>7
  <2>2. ASSUME NEW j \in DOMAIN ms PROVE asked'[ms[j].q] = id
    <3>1. CASE j = Len(Messages) + 1
      <4>1. ms[j] = z
        BY <1>4, <3>1
      <4> QED
        BY <1>5, <1>7, <4>1
    <3>2. CASE j # Len(Messages) + 1
      <4>1. j \in DOMAIN Messages /\ ms[j] = Messages[j]
        BY <1>4, <2>1, <2>2, <3>2
      <4>2. Messages[j] \in Message
        BY <1>4, <4>1
      <4>3. Messages[j].q \in Questions
        BY <4>2 DEF Message
      <4>4. asked[Messages[j].q] = id /\ id # 0
        BY <1>4, <4>1
      <4> QED
        BY <1>5, <4>1, <4>3, <4>4
    <3> QED
      BY <3>1, <3>2
  <2> QED
    BY <2>1, <2>2
<1> HIDE DEF ms, id
<1>9. /\ GoodChat(c, asked', clock + 1) /\ c.active = chat.active
      /\ IdsOf(c.sessions) = IdsOf(chat.sessions)
      /\ DOMAIN c.sessions = DOMAIN chat.sessions
      /\ \A i \in DOMAIN chat.sessions :
            c.sessions[i].messages = IF chat.sessions[i].id = id THEN ms ELSE chat.sessions[i].messages
  BY <1>2, <1>3, <1>6, <1>8, PutGood
<1> HIDE DEF c
<1>10. HasActive(c) /\ GoodChat(c, asked', clock')
  BY <1>2, <1>3, <1>9 DEF HasActive
<1>11. Waiting'
  <2>1. mounted /\ mount \in Mounts /\ mount \in Nat /\ arriving = {} /\ ~timer
    BY <1>1, ChatAssumption DEF Ready, ChatInv, TabInv, Mounts
  <2>2. x \in [page : Mounts, session : 1 .. MaxSession, q : Questions] /\ x.page = mount /\ x.q = q
        /\ x.session = id
    BY <1>4, <2>1
  <2> HIDE DEF x
  <2>3. ASSUME NEW y \in asks'
        PROVE  /\ y \in [page : Mounts, session : 1 .. MaxSession, q : Questions]
               /\ asked'[y.q] = y.session /\ y.page <= mount
    <3>1. CASE y = x
      BY <1>5, <2>1, <2>2, <3>1
    <3>2. CASE y # x
      <4>1. y \in asks
        BY <1>1, <2>3, <3>2
      <4>2. /\ y \in [page : Mounts, session : 1 .. MaxSession, q : Questions]
            /\ asked[y.q] = y.session /\ y.page <= mount
        BY <4>1 DEF ChatInv, Waiting
      <4>3. y.q \in Questions /\ y.session # 0
        BY <4>2
      <4> QED
        BY <1>5, <4>2, <4>3
    <3> QED
      BY <3>1, <3>2
  <2>4. asks' \subseteq [page : Mounts, session : 1 .. MaxSession, q : Questions]
    BY <2>3
  <2> QED
    BY <1>1, <2>1, <2>3, <2>4 DEF Waiting, tabVars, Mounts, Questions
<1>12. ChatInv' /\ stored' = c
  BY <1>1, <1>2, <1>5, <1>10, <1>11, ReadyStep
<1>13. HistoryStep
  BY <1>1, <1>4, <1>7, <1>9, <1>12, AppendKeeps DEF ms
<1> QED
  BY <1>12, <1>13


\* An ask ends without a word.
LEMMA AskEnds ==
    ASSUME ChatInv, asks' \subseteq asks,
           UNCHANGED <<tabVars, chat, stored, loadedRef, timer, arriving, asked, clock>>
    PROVE  ChatInv' /\ HistoryStep
<1>1. TabInv'
  BY DEF ChatInv, TabInv, tabVars, Mounts
<1>2. ChatData' /\ StoredIsShown'
  BY DEF ChatInv, ChatData, HasActive, IdsOf, StoredIsShown, tabVars, Questions
<1>3. Waiting'
  BY DEF ChatInv, Waiting, tabVars, Mounts, Questions
<1>4. Loaded' = Loaded
  BY DEF Loaded, Fallback
<1>5. Loading'
  BY <1>4 DEF ChatInv, Loading, tabVars
<1> QED
  BY <1>1, <1>2, <1>3, <1>5, SameKeeps DEF ChatInv

\* An answer arrives.
LEMMA AnswerStep ==
    ASSUME ChatInv, NEW x \in asks, AnswerArrives(x)
    PROVE  ChatInv' /\ HistoryStep
<1> DEFINE id == x.session
<1>1. /\ asks' = asks \ {x} /\ UNCHANGED <<tabVars, loadedRef, timer, arriving, asked>>
      /\ x.q \in Questions /\ asked[x.q] = id
  BY DEF AnswerArrives, ChatInv, Waiting
<1>2. CASE ~(Alive(x.page) /\ id \in IdsOf(chat.sessions))
  <2>1. UNCHANGED <<chat, stored, clock>>
    BY <1>2 DEF AnswerArrives, Target
  <2> QED
    BY <1>1, <2>1, AskEnds
<1>3. CASE Alive(x.page) /\ id \in IdsOf(chat.sessions)
  <2>1. Ready
    BY <1>3 DEF Alive, ChatInv, Waiting, Ready
  <2> DEFINE i == CHOOSE i \in DOMAIN chat.sessions : chat.sessions[i].id = id
             old == chat.sessions[i].messages
             z == [q |-> x.q, role |-> "assistant"]
             ms == Append(old, z)
  <2>2. Render(Put(id, ms)) /\ Tick
    BY <1>3 DEF AnswerArrives, Target
  <2>3. i \in DOMAIN chat.sessions /\ chat.sessions[i].id = id
    BY <1>3 DEF IdsOf
  <2>4. GoodChat(chat, asked, clock) /\ chat.sessions \in Seq(Session)
    BY <2>1, ReadyFacts
  <2> HIDE DEF i
  <2>5. old \in Seq(Message) /\ \A j \in DOMAIN old : asked[old[j].q] = id
    <3>1. chat.sessions[i] \in Session
      BY <2>3, <2>4
    <3> QED
      BY <2>3, <2>4, <3>1 DEF Session, GoodChat, GoodList
  <2>6. z \in Message /\ z.q = x.q
    BY <1>1 DEF Message
  <2>7. \A k \in DOMAIN chat.sessions : chat.sessions[k].id = id => chat.sessions[k].messages = old
    BY <2>3, <2>4 DEF GoodChat, GoodList
  <2> HIDE DEF z, old
  <2>8. ms \in Seq(Message) /\ \A j \in DOMAIN ms : asked[ms[j].q] = id
    BY <1>1, <2>5, <2>6
  <2> HIDE DEF ms, id
  <2>9. /\ ChatInv' /\ stored' = Put(id, ms)
        /\ IdsOf(stored'.sessions) = IdsOf(chat.sessions)
        /\ DOMAIN stored'.sessions = DOMAIN chat.sessions
        /\ \A k \in DOMAIN chat.sessions :
              stored'.sessions[k].messages =
                  IF chat.sessions[k].id = id THEN ms ELSE chat.sessions[k].messages
    BY <1>1, <1>3, <2>1, <2>2, <2>8, OwnMessages
  <2> QED
    BY <2>1, <2>5, <2>6, <2>7, <2>9, AppendKeeps DEF ms
<1> QED
  BY <1>2, <1>3

\* The ids that were stored are stored.
LEMMA SameIds ==
    ASSUME stored.sessions \in {chat.sessions, <<>>}, IdsOf(stored'.sessions) = IdsOf(chat.sessions)
    PROVE  IdsKept
<1>1. CASE stored.sessions = chat.sessions
  BY <1>1 DEF IdsKept
<1>2. CASE stored.sessions = <<>>
  <2>1. IdsOf(stored.sessions) = {}
    BY <1>2 DEF IdsOf
  <2> QED
    BY <2>1 DEF IdsKept
<1> QED
  BY <1>1, <1>2

\* Messages of the active session go, and no others come.
LEMMA FewerMessages ==
    ASSUME ChatInv, Ready, Tick, NEW ms \in Seq(Message),
           \A j \in DOMAIN ms : \E k \in DOMAIN Messages : ms[j] = Messages[k],
           Render(Put(chat.active, ms)),
           UNCHANGED <<tabVars, loadedRef, timer, arriving, asks, asked>>
    PROVE  ChatInv' /\ IdsKept
<1>1. \A j \in DOMAIN ms : asked[ms[j].q] = chat.active
  BY CurrentFacts
<1>2. chat.active \in IdsOf(chat.sessions) /\ stored.sessions \in {chat.sessions, <<>>}
  BY ReadyFacts DEF HasActive
<1> DEFINE id == chat.active
<1>3. Render(Put(id, ms)) /\ id \in IdsOf(chat.sessions) /\ \A j \in DOMAIN ms : asked[ms[j].q] = id
  BY <1>1, <1>2
<1> HIDE DEF id
<1>4. asks' \subseteq asks /\ UNCHANGED <<tabVars, loadedRef, timer, arriving, asked>>
  OBVIOUS
<1>5. ChatInv' /\ IdsOf(stored'.sessions) = IdsOf(chat.sessions)
  BY <1>3, <1>4, OwnMessages
<1> QED
  BY <1>2, <1>5, SameIds

LEMMA EditQuestionStep ==
    ASSUME ChatInv, NEW i, EditQuestion(i)
    PROVE  ChatInv' /\ IdsKept
<1> DEFINE ms == SubSeq(Messages, 1, i - 1)
<1>1. Messages \in Seq(Message) /\ i \in 1 .. Len(Messages) /\ Len(Messages) \in Nat
  BY CurrentFacts DEF EditQuestion
<1>2. ms \in Seq(Message) /\ Len(ms) = i - 1 /\ \A j \in 1 .. i - 1 : ms[j] = Messages[j]
  BY <1>1
<1>3. \A j \in DOMAIN ms : \E k \in DOMAIN Messages : ms[j] = Messages[k]
  <2>1. ASSUME NEW j \in DOMAIN ms PROVE j \in DOMAIN Messages /\ ms[j] = Messages[j]
    BY <1>1, <1>2
  <2> QED
    BY <2>1
<1>4. /\ Ready /\ Tick /\ Render(Put(chat.active, ms))
      /\ UNCHANGED <<tabVars, loadedRef, timer, arriving, asks, asked>>
  BY DEF EditQuestion
<1> HIDE DEF ms
<1> QED
  BY <1>2, <1>3, <1>4, FewerMessages

LEMMA DeleteMessageStep ==
    ASSUME ChatInv, NEW i, DeleteMessage(i)
    PROVE  ChatInv' /\ IdsKept
<1> DEFINE n == Len(Messages)
           gone == Pair(i)
           last == CHOOSE j \in gone : \A k \in gone : k <= j
           fst  == CHOOSE j \in gone : \A k \in gone : j <= k
           l == SubSeq(Messages, 1, fst - 1)
           r == SubSeq(Messages, last + 1, n)
           ms == l \o r
<1>1. Messages \in Seq(Message) /\ i \in 1 .. n /\ n \in Nat
  BY CurrentFacts DEF DeleteMessage
<1>2. /\ Ready /\ Tick /\ Render(Put(chat.active, ms))
      /\ UNCHANGED <<tabVars, loadedRef, timer, arriving, asks, asked>>
  BY DEF DeleteMessage
<1>3. i \in gone /\ gone \in SUBSET (1 .. n)
  BY <1>1 DEF Pair
<1> HIDE DEF gone
<1>4. fst \in 1 .. n /\ last \in 1 .. n
  <2>1. gone \in SUBSET Nat /\ gone \in SUBSET (0 .. n)
    BY <1>1, <1>3
  <2>2. \E j \in gone : \A k \in gone : j <= k
    BY <1>3, <2>1, LeastNatural
  <2>3. \E j \in gone : \A k \in gone : k <= j
    BY <1>1, <1>3, <2>1, GreatestNatural
  <2> QED
    BY <1>3, <2>2, <2>3
<1> HIDE DEF fst, last
<1> DEFINE m == n - last
<1>5. /\ l \in Seq(Message) /\ Len(l) = fst - 1 /\ \A j \in 1 .. fst - 1 : l[j] = Messages[j]
      /\ r \in Seq(Message) /\ Len(r) = n - last
      /\ \A j \in 1 .. n - last : r[j] = Messages[last + j] /\ last + j \in 1 .. n
  BY <1>1, <1>4
<1> HIDE DEF l, r
<1>6. ms \in Seq(Message)
  BY <1>5
<1>7. ASSUME NEW j \in DOMAIN ms PROVE \E k \in DOMAIN Messages : ms[j] = Messages[k]
  <2>1. Len(l) \in Nat /\ Len(r) \in Nat /\ j \in 1 .. Len(l) + Len(r)
    BY <1>5, <1>7
  <2>2. CASE j <= Len(l)
    <3>1. j \in 1 .. fst - 1 /\ ms[j] = l[j] /\ j \in 1 .. n
      BY <1>1, <1>4, <1>5, <2>1, <2>2
    <3>2. ms[j] = Messages[j]
      BY <1>5, <3>1
    <3>3. j \in DOMAIN Messages
      BY <1>1, <3>1
    <3> QED
      BY <3>2, <3>3
  <2>3. CASE ~(j <= Len(l))
    <3> DEFINE k == j - Len(l)
    <3>1. k \in 1 .. Len(r) /\ ms[j] = r[k]
      BY <1>5, <2>1, <2>3
    <3> HIDE DEF k
    <3>2. r[k] = Messages[last + k] /\ last + k \in 1 .. n
      BY <1>5, <3>1
    <3>3. last + k \in DOMAIN Messages
      BY <1>1, <3>2
    <3> QED
      BY <3>1, <3>2, <3>3
  <2> QED
    BY <2>2, <2>3
<1> HIDE DEF ms
<1> QED
  BY <1>2, <1>6, <1>7, FewerMessages

LEMMA RenameStep ==
    ASSUME ChatInv, NEW id, Rename(id)
    PROVE  ChatInv' /\ IdsKept
<1>1. PICK i \in DOMAIN chat.sessions :
          chat.sessions[i].id = id /\ Render(Put(id, chat.sessions[i].messages))
  BY DEF Rename
<1>2. Ready /\ Tick /\ UNCHANGED <<tabVars, loadedRef, timer, arriving, asks, asked>>
  BY DEF Rename
<1>3. GoodChat(chat, asked, clock) /\ stored.sessions \in {chat.sessions, <<>>}
      /\ chat.sessions \in Seq(Session)
  BY <1>2, ReadyFacts
<1> DEFINE ms == chat.sessions[i].messages
<1>4. ms \in Seq(Message) /\ \A j \in DOMAIN ms : asked[ms[j].q] = id
  <2>1. chat.sessions[i] \in Session
    BY <1>3
  <2> QED
    BY <1>1, <1>3, <2>1 DEF Session, GoodChat, GoodList
<1>5. id \in IdsOf(chat.sessions) /\ Render(Put(id, ms))
  BY <1>1 DEF IdsOf
<1> HIDE DEF ms
<1>6. asks' \subseteq asks /\ UNCHANGED <<tabVars, loadedRef, timer, arriving, asked>>
  BY <1>2
<1>7. ChatInv' /\ IdsOf(stored'.sessions) = IdsOf(chat.sessions)
  BY <1>2, <1>4, <1>5, <1>6, OwnMessages
<1> QED
  BY <1>3, <1>7, SameIds


\* Another chat of a page that has loaded: its sessions are the user's choice.
LEMMA OtherChat ==
    ASSUME ChatInv, Ready, NEW c, Render(c), GoodChat(c, asked, clock'), HasActive(c),
           UNCHANGED <<tabVars, loadedRef, timer, arriving, asks, asked>>,
           clock' \in 0 .. MaxClock
    PROVE  ChatInv' /\ stored' = c
<1>1. asks' \subseteq asks /\ UNCHANGED <<tabVars, asked, arriving, timer>>
  OBVIOUS
<1>2. Waiting'
  BY <1>1, WaitingStays
<1>3. asked' \in [Questions -> 0 .. MaxSession] /\ GoodChat(c, asked', clock')
  BY ReadyFacts
<1>4. UNCHANGED <<tabVars, loadedRef, timer, arriving>>
  OBVIOUS
<1> QED
  BY <1>2, <1>3, <1>4, ReadyStep

\* Another session comes on the screen.
LEMMA ActiveStep ==
    ASSUME ChatInv, Ready, NEW id \in IdsOf(chat.sessions), Render([chat EXCEPT !.active = id]),
           UNCHANGED <<tabVars, loadedRef, timer, arriving, asks, asked, clock>>
    PROVE  ChatInv' /\ IdsKept
<1>1. /\ GoodChat(chat, asked, clock) /\ chat \in Chats /\ clock \in 0 .. MaxClock
      /\ chat.sessions \in Seq(Session) /\ stored.sessions \in {chat.sessions, <<>>}
  BY ReadyFacts DEF GoodChat
<1> DEFINE c == [chat EXCEPT !.active = id]
<1>2. id \in 0 .. MaxSession
  <2>1. PICK i \in DOMAIN chat.sessions : chat.sessions[i].id = id
    BY DEF IdsOf
  <2>2. chat.sessions[i] \in Session
    BY <1>1
  <2> QED
    BY <2>1, <2>2, ChatAssumption DEF Session
<1>3. c \in Chats /\ c.sessions = chat.sessions /\ c.seq = chat.seq /\ c.active = id /\ Render(c)
  BY <1>1, <1>2 DEF Chats
<1> HIDE DEF c
<1>4. clock' = clock /\ UNCHANGED <<tabVars, loadedRef, timer, arriving, asks, asked>>
  OBVIOUS
<1>5. GoodChat(c, asked, clock') /\ HasActive(c) /\ clock' \in 0 .. MaxClock
  BY <1>1, <1>3, <1>4 DEF GoodChat, HasActive
<1>6. ChatInv' /\ stored' = c
  BY <1>3, <1>4, <1>5, OtherChat
<1> QED
  BY <1>1, <1>3, <1>6 DEF IdsKept, IdsOf

\* A session that nothing was asked in yet.
LEMMA FreshGood ==
    ASSUME ChatInv, Ready, Tick, chat.seq <= MaxSession
    PROVE  LET f == NewSession(chat.seq, clock + 1)
           IN  /\ f \in Session /\ f.id = chat.seq /\ f.updatedAt = clock + 1 /\ f.messages = <<>>
               /\ chat.seq \in 1 .. MaxSession
<1>1. clock + 1 \in 0 .. MaxClock
  BY TickFacts
<1>2. GoodChat(chat, asked, clock) /\ chat \in Chats /\ MaxSession \in Nat
  BY ReadyFacts, ChatAssumption DEF GoodChat
<1>3. chat.active \in 1 .. MaxSession /\ Current \in DOMAIN chat.sessions
      /\ chat.sessions[Current].id = chat.active
  BY CurrentFacts
<1>4. chat.seq \in 1 .. MaxSession
  <2>1. chat.active < chat.seq /\ chat.seq \in 0 .. MaxSession + 1
    BY <1>2, <1>3 DEF GoodChat, Chats
  <2> QED
    BY <1>2, <1>3, <2>1
<1>5. <<>> \in Seq(Message)
  OBVIOUS
<1> QED
  BY <1>1, <1>4, <1>5 DEF NewSession, Session

\* A new session, on top of sessions that were there.
LEMMA NewSessionGood ==
    ASSUME ChatInv, Ready, Tick, chat.seq <= MaxSession,
           NEW ss, GoodList(ss, asked, clock), \A i \in DOMAIN ss : ss[i].id < chat.seq,
           NEW c, c = [sessions |-> Trim(<<NewSession(chat.seq, clock + 1)>> \o ss),
                       seq |-> chat.seq + 1, active |-> chat.seq]
    PROVE  GoodChat(c, asked, clock + 1) /\ HasActive(c)
<1> DEFINE f == NewSession(chat.seq, clock + 1)
           w == <<f>> \o ss
           t == Trim(w)
<1>1. /\ f \in Session /\ f.id = chat.seq /\ f.updatedAt = clock + 1 /\ f.messages = <<>>
      /\ chat.seq \in 1 .. MaxSession
  BY FreshGood
<1> HIDE DEF f
<1>2. /\ clock + 1 \in 0 .. MaxClock /\ clock \in Nat /\ clock + 1 \in Nat /\ clock <= clock + 1
      /\ MaxSession \in Nat
  BY TickFacts, ChatAssumption
<1>3. ss \in Seq(Session) /\ DOMAIN ss = 1 .. Len(ss) /\ Len(ss) \in Nat
  BY DEF GoodList
<1>4. /\ w \in Seq(Session) /\ Len(w) = Len(ss) + 1 /\ w[1] = f
      /\ \A i \in 2 .. Len(ss) + 1 : w[i] = ss[i - 1] /\ i - 1 \in DOMAIN ss
      /\ DOMAIN w = 1 .. Len(ss) + 1
  BY <1>1, <1>3
<1> HIDE DEF w
<1>5. ASSUME NEW i \in DOMAIN w, i # 1
      PROVE  /\ w[i] = ss[i - 1] /\ i - 1 \in DOMAIN ss /\ i \in Nat /\ i - 1 + 1 = i
             /\ w[i].id < chat.seq /\ w[i].updatedAt <= clock /\ w[i].updatedAt \in Nat
             /\ \A j \in DOMAIN w[i].messages : asked[w[i].messages[j].q] = w[i].id
  <2>1. w[i] = ss[i - 1] /\ i - 1 \in DOMAIN ss /\ i \in Nat /\ i - 1 + 1 = i
    BY <1>3, <1>4, <1>5
  <2>2. ss[i - 1] \in Session
    BY <1>3, <2>1
  <2>3. ss[i - 1].updatedAt \in Nat
    BY <2>2 DEF Session
  <2> QED
    BY <2>1, <2>3 DEF GoodList
<1>6. GoodList(w, asked, clock + 1)
  <2>1. ASSUME NEW i \in DOMAIN w, NEW j \in DOMAIN w, w[i].id = w[j].id PROVE i = j
    <3>1. CASE i = 1 \/ j = 1
      <4>1. \A k \in DOMAIN w : k # 1 => w[k].id # w[1].id
        <5>1. ASSUME NEW k \in DOMAIN w, k # 1 PROVE w[k].id # w[1].id
          <6>1. w[k].id < chat.seq
            BY <1>5, <5>1
          <6> QED
            BY <1>1, <1>4, <6>1
        <5> QED
          BY <5>1
      <4> QED
        BY <2>1, <3>1, <4>1
    <3>2. CASE i # 1 /\ j # 1
      <4>1. /\ w[i] = ss[i - 1] /\ i - 1 \in DOMAIN ss /\ i \in Nat /\ i - 1 + 1 = i
            /\ w[j] = ss[j - 1] /\ j - 1 \in DOMAIN ss /\ j \in Nat /\ j - 1 + 1 = j
        BY <1>5, <3>2
      <4>2. i - 1 = j - 1
        BY <2>1, <4>1 DEF GoodList
      <4> QED
        BY <4>1, <4>2
    <3> QED
      BY <3>1, <3>2
  <2>2. ASSUME NEW i \in DOMAIN w
        PROVE  /\ w[i].updatedAt <= clock + 1
               /\ \A j \in DOMAIN w[i].messages : asked[w[i].messages[j].q] = w[i].id
    <3>1. CASE i = 1
      BY <1>1, <1>2, <1>4, <3>1
    <3>2. CASE i # 1
      <4>1. /\ w[i].updatedAt <= clock /\ w[i].updatedAt \in Nat
            /\ \A j \in DOMAIN w[i].messages : asked[w[i].messages[j].q] = w[i].id
        BY <1>5, <3>2
      <4> QED
        BY <1>2, <4>1
    <3> QED
      BY <3>1, <3>2
  <2> QED
    BY <1>4, <2>1, <2>2 DEF GoodList
<1>7. \A i \in DOMAIN w : w[i].id < chat.seq + 1
  <2>1. ASSUME NEW i \in DOMAIN w PROVE w[i].id < chat.seq + 1
    <3>1. w[i] \in Session
      BY <1>4
    <3>2. w[i].id \in Nat /\ chat.seq \in Nat
      BY <1>1, <3>1 DEF Session
    <3>3. CASE i = 1
      BY <1>1, <1>4, <3>2, <3>3
    <3>4. CASE i # 1
      <4>1. w[i].id < chat.seq
        BY <1>5, <3>4
      <4> QED
        BY <3>2, <4>1
    <3> QED
      BY <3>3, <3>4
  <2> QED
    BY <2>1
<1>8. /\ GoodList(t, asked, clock + 1) /\ Len(t) <= MaxSessions /\ IdsOf(t) \subseteq IdsOf(w)
      /\ \A i \in DOMAIN w :
            (\A j \in DOMAIN w : j # i => w[j].updatedAt < w[i].updatedAt) => w[i].id \in IdsOf(t)
  BY <1>6, TrimmedList
<1> HIDE DEF t
<1>9. chat.seq \in IdsOf(t)
  <2>1. ASSUME NEW j \in DOMAIN w, j # 1 PROVE w[j].updatedAt < w[1].updatedAt
    <3>1. w[j].updatedAt <= clock /\ w[j].updatedAt \in Nat
      BY <1>5, <2>1
    <3> QED
      BY <1>1, <1>2, <1>4, <3>1
  <2>2. 1 \in DOMAIN w
    BY <1>3, <1>4
  <2>3. w[1].id \in IdsOf(t)
    BY <1>8, <2>1, <2>2
  <2> QED
    BY <1>1, <1>4, <2>3
<1>10. c = [sessions |-> t, seq |-> chat.seq + 1, active |-> chat.seq]
  BY DEF t, w, f
<1>11. c \in Chats /\ c.sessions = t /\ c.seq = chat.seq + 1 /\ c.active = chat.seq
  <2>1. t \in Seq(Session) /\ chat.seq + 1 \in 0 .. MaxSession + 1 /\ chat.seq \in 0 .. MaxSession
    BY <1>1, <1>2, <1>8 DEF GoodList
  <2> QED
    BY <1>10, <2>1 DEF Chats
<1>12. ASSUME NEW i \in DOMAIN t PROVE t[i].id < chat.seq + 1
  <2>1. t[i].id \in IdsOf(w)
    BY <1>8 DEF IdsOf
  <2> QED
    BY <1>7, <2>1 DEF IdsOf
<1> QED
  BY <1>8, <1>9, <1>11, <1>12 DEF GoodChat, HasActive

LEMMA NewChatStep ==
    ASSUME ChatInv, NewChat
    PROVE  ChatInv' /\ IdsKept
<1>1. Ready /\ UNCHANGED <<tabVars, loadedRef, timer, arriving, asks, asked>>
  BY DEF NewChat
<1>2. GoodChat(chat, asked, clock) /\ chat.sessions \in Seq(Session)
  BY <1>1, ReadyFacts
<1>3. IdsKept
  BY DEF IdsKept
<1>4. CASE Unused # {} /\ UNCHANGED clock
           /\ LET i == CHOOSE i \in Unused : \A j \in Unused : i <= j
              IN  Render([chat EXCEPT !.active = chat.sessions[i].id])
  <2> DEFINE i == CHOOSE i \in Unused : \A j \in Unused : i <= j
             id == chat.sessions[i].id
  <2>1. Unused \in SUBSET (DOMAIN chat.sessions) /\ DOMAIN chat.sessions \in SUBSET Nat
    BY <1>2 DEF Unused
  <2>2. \E k \in Unused : \A j \in Unused : k <= j
    <3>1. Unused \in SUBSET Nat /\ \E k : k \in Unused
      BY <1>4, <2>1
    <3> QED
      BY <3>1, LeastNatural
  <2>3. i \in Unused
    BY <2>2
  <2>4. id \in IdsOf(chat.sessions)
    BY <2>1, <2>3 DEF IdsOf
  <2>5. Render([chat EXCEPT !.active = id]) /\ clock' = clock
    BY <1>4
  <2> HIDE DEF id
  <2>6. UNCHANGED <<tabVars, loadedRef, timer, arriving, asks, asked, clock>>
    BY <1>1, <2>5
  <2> QED
    BY <1>1, <2>4, <2>5, <2>6, ActiveStep
<1>5. CASE /\ chat.seq <= MaxSession /\ Tick
           /\ Render([sessions |-> Trim(<<NewSession(chat.seq, clock + 1)>> \o chat.sessions),
                      seq |-> chat.seq + 1, active |-> chat.seq])
  <2> DEFINE c == [sessions |-> Trim(<<NewSession(chat.seq, clock + 1)>> \o chat.sessions),
                   seq |-> chat.seq + 1, active |-> chat.seq]
             ss == chat.sessions
  <2>1. clock' = clock + 1 /\ clock + 1 \in 0 .. MaxClock
    BY <1>5, TickFacts
  <2>2. GoodList(ss, asked, clock) /\ \A i \in DOMAIN ss : ss[i].id < chat.seq
    BY <1>2 DEF GoodChat
  <2>3. chat.seq <= MaxSession /\ Tick /\ Render(c)
    BY <1>5
  <2>4. c = [sessions |-> Trim(<<NewSession(chat.seq, clock + 1)>> \o ss),
             seq |-> chat.seq + 1, active |-> chat.seq]
    OBVIOUS
  <2> HIDE DEF c, ss
  <2>5. GoodChat(c, asked, clock + 1) /\ HasActive(c)
    BY <1>1, <2>2, <2>3, <2>4, NewSessionGood
  <2>6. GoodChat(c, asked, clock') /\ clock' \in 0 .. MaxClock
    BY <2>1, <2>5
  <2> QED
    BY <1>1, <1>3, <2>3, <2>5, <2>6, OtherChat
<1> QED
  BY <1>4, <1>5 DEF NewChat

\* The rest of the sessions are the others, and all of them.
LEMMA RestFacts ==
    ASSUME ChatInv, Ready, NEW id
    PROVE  /\ GoodList(Rest(id), asked, clock) /\ Len(Rest(id)) <= MaxSessions
           /\ IdsOf(Rest(id)) = IdsOf(chat.sessions) \ {id}
           /\ Rest(id) \in Seq(Session)
<1> DEFINE ss == chat.sessions
           K == {i \in DOMAIN ss : ss[i].id # id}
           t == Rest(id)
<1>1. /\ GoodList(ss, asked, clock) /\ ss \in Seq(Session) /\ Len(ss) <= MaxSessions
      /\ MaxSessions \in Nat
  BY ReadyFacts, ChatAssumption DEF GoodChat
<1>2. t = Keeping(ss, K)
  BY DEF Rest
<1>3. K \in SUBSET (1 .. Len(ss)) /\ \A i \in K : i \in DOMAIN ss /\ ss[i].id # id
  BY <1>1
<1>4. \A i \in DOMAIN ss : ss[i].id # id => i \in K
  OBVIOUS
<1> HIDE DEF K, ss, t
<1>5. /\ t \in Seq(Session) /\ Len(t) <= Len(ss)
      /\ \E p : Visits(t, ss, p, K)
  BY <1>1, <1>2, <1>3, KeptList
<1>6. PICK p : Visits(t, ss, p, K)
  BY <1>5
<1>7. /\ p \in [1 .. Len(t) -> K]
      /\ \A k \in 1 .. Len(t) : t[k] = ss[p[k]]
      /\ \A i \in K : \E k \in 1 .. Len(t) : p[k] = i
      /\ \A k, l \in 1 .. Len(t) : p[k] = p[l] => k = l
  BY <1>6 DEF Visits
<1>8. p \in [1 .. Len(t) -> 1 .. Len(ss)]
  BY <1>3, <1>7
<1>9. GoodList(t, asked, clock) /\ IdsOf(t) \subseteq IdsOf(ss)
  BY <1>1, <1>5, <1>7, <1>8, PickedList
<1>10. id \notin IdsOf(t)
  <2>1. ASSUME NEW k \in DOMAIN t PROVE t[k].id # id
    <3>1. k \in 1 .. Len(t)
      BY <1>5
    <3>2. p[k] \in K /\ t[k] = ss[p[k]]
      BY <1>7, <3>1
    <3> QED
      BY <1>3, <3>2
  <2> QED
    BY <2>1 DEF IdsOf
<1>11. IdsOf(ss) \ {id} \subseteq IdsOf(t)
  <2>1. ASSUME NEW i \in DOMAIN ss, ss[i].id # id PROVE ss[i].id \in IdsOf(t)
    <3>1. PICK k \in 1 .. Len(t) : p[k] = i
      BY <1>4, <1>7, <2>1
    <3>2. k \in DOMAIN t /\ t[k] = ss[i]
      BY <1>5, <1>7, <3>1
    <3> QED
      BY <3>2 DEF IdsOf
  <2> QED
    BY <2>1 DEF IdsOf
<1>12. Len(t) <= MaxSessions
  BY <1>1, <1>5
<1> QED
  BY <1>5, <1>9, <1>10, <1>11, <1>12 DEF t, ss

LEMMA DeleteSessionStep ==
    ASSUME ChatInv, NEW id, DeleteSession(id)
    PROVE  ChatInv' /\ \A lost \in IdsOf(stored.sessions) \ IdsOf(stored'.sessions) : DeleteSession(lost)
<1>1. /\ Ready /\ id \in IdsOf(chat.sessions)
      /\ UNCHANGED <<tabVars, loadedRef, timer, arriving, asks, asked>>
  BY DEF DeleteSession
<1>2. /\ GoodChat(chat, asked, clock) /\ chat \in Chats /\ clock \in 0 .. MaxClock /\ clock \in Nat
      /\ HasActive(chat) /\ stored.sessions \in {chat.sessions, <<>>} /\ chat.seq \in 0 .. MaxSession + 1
      /\ MaxSession \in Nat
  BY <1>1, ReadyFacts, ChatAssumption DEF GoodChat, Chats
<1> DEFINE t == Rest(id)
<1>3. /\ GoodList(t, asked, clock) /\ Len(t) <= MaxSessions /\ t \in Seq(Session)
      /\ IdsOf(t) = IdsOf(chat.sessions) \ {id}
  BY <1>1, RestFacts
<1>4. ASSUME stored'.sessions = t
      PROVE  \A lost \in IdsOf(stored.sessions) \ IdsOf(stored'.sessions) : DeleteSession(lost)
  <2>1. CASE stored.sessions = chat.sessions
    BY <1>3, <1>4, <2>1
  <2>2. CASE stored.sessions = <<>>
    BY <2>2 DEF IdsOf
  <2> QED
    BY <1>2, <2>1, <2>2
<1>5. ASSUME t = <<>>
      PROVE  \A lost \in IdsOf(stored.sessions) \ IdsOf(stored'.sessions) : DeleteSession(lost)
  <2>1. IdsOf(t) = {}
    BY <1>5 DEF IdsOf
  <2>2. \A lost \in IdsOf(chat.sessions) : lost = id
    BY <1>3, <2>1
  <2>3. CASE stored.sessions = chat.sessions
    BY <2>2, <2>3
  <2>4. CASE stored.sessions = <<>>
    BY <2>4 DEF IdsOf
  <2> QED
    BY <1>2, <2>3, <2>4
<1>6. CASE t # <<>> /\ Render(AfterDelete(id)) /\ UNCHANGED clock
  <2> DEFINE act == IF chat.active = id THEN t[1].id ELSE chat.active
             c == AfterDelete(id)
  <2>1. act \in IdsOf(t)
    <3>1. 1 \in DOMAIN t
      BY <1>3, <1>6
    <3>2. t[1].id \in IdsOf(t)
      BY <3>1 DEF IdsOf
    <3> QED
      BY <1>2, <1>3, <3>2 DEF HasActive
  <2>2. act \in 0 .. MaxSession
    <3>1. PICK i \in DOMAIN t : t[i].id = act
      BY <2>1 DEF IdsOf
    <3>2. t[i] \in Session
      BY <1>3
    <3> QED
      BY <1>2, <3>1, <3>2 DEF Session
  <2>3. c = [chat EXCEPT !.sessions = t, !.active = act]
    BY DEF AfterDelete
  <2> HIDE DEF c, act, t
  <2>4. c \in Chats /\ c.sessions = t /\ c.seq = chat.seq /\ c.active = act
    BY <1>2, <1>3, <2>2, <2>3 DEF Chats
  <2>5. \A i \in DOMAIN t : t[i].id < chat.seq
    BY <1>2, <1>3 DEF GoodChat, IdsOf
  <2>6. GoodChat(c, asked, clock) /\ HasActive(c)
    BY <1>3, <2>1, <2>4, <2>5 DEF GoodChat, HasActive
  <2>7. clock' = clock /\ Render(c)
    BY <1>6 DEF c
  <2>8. GoodChat(c, asked, clock') /\ clock' \in 0 .. MaxClock
    BY <1>2, <2>6, <2>7
  <2>9. ChatInv' /\ stored' = c
    BY <1>1, <2>6, <2>7, <2>8, OtherChat
  <2> QED
    BY <1>4, <2>4, <2>9
<1>7. CASE /\ t = <<>> /\ chat.seq <= MaxSession /\ Tick
           /\ Render([sessions |-> <<NewSession(chat.seq, clock + 1)>>,
                      seq |-> chat.seq + 1, active |-> chat.seq])
  <2> DEFINE f == NewSession(chat.seq, clock + 1)
             one == <<f>>
             none == <<>>
             c == [sessions |-> one, seq |-> chat.seq + 1, active |-> chat.seq]
  <2>1. clock' = clock + 1 /\ clock + 1 \in 0 .. MaxClock /\ clock + 1 \in Nat
    BY <1>7, TickFacts
  <2>2. chat.seq <= MaxSession /\ Tick /\ Render(c)
    BY <1>7
  <2>3. /\ f \in Session /\ f.id = chat.seq /\ f.updatedAt = clock + 1 /\ f.messages = <<>>
        /\ chat.seq \in 1 .. MaxSession
    BY <1>1, <2>2, FreshGood
  <2> HIDE DEF f
  <2>4. one \in Seq(Session) /\ Len(one) = 1 /\ one[1] = f /\ DOMAIN one = {1}
    BY <2>3
  <2> HIDE DEF one
  <2>5. c \in Chats /\ c.sessions = one /\ c.seq = chat.seq + 1 /\ c.active = chat.seq
    <3>1. chat.seq + 1 \in 0 .. MaxSession + 1 /\ chat.seq \in 0 .. MaxSession
      BY <1>2, <2>3
    <3> QED
      BY <2>4, <3>1 DEF Chats
  <2> HIDE DEF c
  <2>6. GoodList(one, asked, clock + 1)
    <3>1. one[1].updatedAt <= clock + 1
      BY <2>1, <2>3, <2>4
    <3> QED
      BY <2>3, <2>4, <3>1 DEF GoodList
  <2>7. GoodChat(c, asked, clock + 1) /\ HasActive(c)
    <3>1. Len(one) <= MaxSessions
      <4>1. 1 <= MaxSessions
        BY ChatAssumption
      <4> QED
        BY <2>4, <4>1
    <3>2. chat.seq < chat.seq + 1
      BY <2>3
    <3>3. \A i \in DOMAIN one : one[i].id < chat.seq + 1
      BY <2>3, <2>4, <3>2
    <3>4. chat.seq \in IdsOf(one)
      BY <2>3, <2>4 DEF IdsOf
    <3> QED
      BY <2>5, <2>6, <3>1, <3>3, <3>4 DEF GoodChat, HasActive
  <2>8. GoodChat(c, asked, clock') /\ clock' \in 0 .. MaxClock
    BY <2>1, <2>7
  <2>9. ChatInv' /\ stored' = c
    BY <1>1, <2>2, <2>7, <2>8, OtherChat
  <2> QED
    BY <1>5, <1>7, <2>9
<1> QED
  BY <1>6, <1>7 DEF DeleteSession


----------------------------------------------------------------------------
(* The chats: all steps *)

LEMMA EditStepKeeps ==
    ASSUME ChatInv, EditStep
    PROVE  ChatInv' /\ HistoryStep
<1>1. ASSUME ChatInv' /\ IdsKept PROVE ChatInv' /\ HistoryStep
  BY <1>1 DEF HistoryStep
<1>2. ASSUME NEW i, EditQuestion(i) \/ DeleteMessage(i) PROVE ChatInv' /\ HistoryStep
  BY <1>1, <1>2, EditQuestionStep, DeleteMessageStep
<1>3. ASSUME NEW id, SwitchSession(id) PROVE ChatInv' /\ HistoryStep
  <2>1. /\ Ready /\ id \in IdsOf(chat.sessions) /\ Render([chat EXCEPT !.active = id])
        /\ UNCHANGED <<tabVars, loadedRef, timer, arriving, asks, asked, clock>>
    BY <1>3 DEF SwitchSession
  <2>2. ChatInv' /\ IdsKept
    BY <2>1, ActiveStep
  <2> QED
    BY <1>1, <2>2
<1>4. ASSUME NEW id, Rename(id) PROVE ChatInv' /\ HistoryStep
  BY <1>1, <1>4, RenameStep
<1>5. ASSUME NEW id, DeleteSession(id) PROVE ChatInv' /\ HistoryStep
  <2>1. ChatInv' /\ IdsKept
    BY <1>5, DeleteSessionStep DEF IdsKept
  <2> QED
    BY <1>1, <2>1
<1>6. ASSUME NewChat PROVE ChatInv' /\ HistoryStep
  BY <1>1, <1>6, NewChatStep
<1> QED
  BY <1>2, <1>3, <1>4, <1>5, <1>6 DEF EditStep

\* The page opens over what the browser stores.
LEMMA OpenStep ==
    ASSUME ChatInv, OpenChat
    PROVE  ChatInv' /\ HistoryStep
<1>1. /\ Mount /\ chat' = Fallback /\ loadedRef' = FALSE /\ timer' = TRUE /\ arriving' = {Loaded}
      /\ stored' = stored /\ UNCHANGED <<asks, asked, clock>>
  BY DEF OpenChat, Persist
<1>2. TabInv'
  BY <1>1, TabStep, ChatAssumption DEF ChatInv
<1>3. ChatData'
  <2>1. /\ GoodChat(stored, asked, clock) /\ clock \in 0 .. MaxClock
        /\ asked \in [Questions -> 0 .. MaxSession] /\ clock \in Nat
    BY ChatAssumption DEF ChatInv, ChatData
  <2>2. GoodChat(Fallback, asked, clock) /\ HasActive(Fallback)
    BY <2>1, FallbackGood
  <2>3. GoodChat(chat', asked', clock') /\ HasActive(chat') /\ GoodChat(stored', asked', clock')
    BY <1>1, <2>1, <2>2
  <2> QED
    BY <1>1, <2>1, <2>3 DEF ChatData, HasActive, IdsOf, Questions
<1>4. Waiting'
  <2>1. mount \in Nat /\ mount' = mount + 1
    BY <1>1, ChatAssumption DEF ChatInv, TabInv, Mount
  <2>2. asks \subseteq [page : Mounts, session : 1 .. MaxSession, q : Questions]
    BY DEF ChatInv, Waiting
  <2>3. ASSUME NEW x \in asks
        PROVE  asked[x.q] = x.session /\ x.page <= mount' /\ x.page # mount'
    <3>1. x.page <= mount /\ asked[x.q] = x.session
      BY DEF ChatInv, Waiting
    <3>2. x.page \in Nat
      BY <2>2 DEF Mounts
    <3> QED
      BY <2>1, <3>1, <3>2
  <2> QED
    BY <1>1, <2>2, <2>3 DEF Waiting, Mounts, Questions
<1>5. Loaded' = Loaded
  BY <1>1 DEF Loaded, Fallback
<1>6. Loading' /\ StoredIsShown'
  BY <1>1, <1>5 DEF Loading, StoredIsShown
<1> QED
  BY <1>1, <1>2, <1>3, <1>4, <1>6, SameKeeps DEF ChatInv

\* The loaded chat is rendered, and stored again if the timer has fired.
LEMMA RenderLoadedStep ==
    ASSUME ChatInv, NEW c \in arriving, RenderLoaded(c)
    PROVE  ChatInv' /\ HistoryStep
<1>1. /\ Render(c) /\ arriving' = {} /\ c = Loaded
      /\ UNCHANGED <<tabVars, loadedRef, timer, asks, asked, clock>>
  BY DEF RenderLoaded, ChatInv, Loading
<1>2. /\ GoodChat(stored, asked, clock) /\ clock \in 0 .. MaxClock /\ clock \in Nat
      /\ asked \in [Questions -> 0 .. MaxSession]
  BY ChatAssumption DEF ChatInv, ChatData
<1>3. GoodChat(c, asked, clock) /\ HasActive(c) /\ stored.sessions \in {c.sessions, <<>>}
  BY <1>1, <1>2, LoadedGood
<1>4. chat' = c /\ stored' = IF loadedRef THEN c ELSE stored
  BY <1>1, <1>3, RenderStores
<1>5. TabInv'
  BY <1>1 DEF ChatInv, TabInv, tabVars, Mounts
<1>6. ChatData'
  <2>1. GoodChat(chat', asked', clock') /\ HasActive(chat') /\ GoodChat(stored', asked', clock')
    BY <1>1, <1>2, <1>3, <1>4
  <2> QED
    BY <1>1, <1>2, <2>1 DEF ChatData, HasActive, IdsOf, Questions
<1>7. Waiting'
  BY <1>1 DEF ChatInv, Waiting, tabVars, Mounts, Questions
<1>8. Loading' /\ StoredIsShown'
  BY <1>1, <1>3, <1>4 DEF ChatInv, Loading, StoredIsShown, tabVars
<1>9. stored'.sessions = stored.sessions \/ stored.sessions = <<>>
  BY <1>3, <1>4
<1> QED
  BY <1>5, <1>6, <1>7, <1>8, <1>9, SameKeeps DEF ChatInv

\* The timer fires, or the page goes.
LEMMA TimerStep ==
    ASSUME ChatInv, TimerFires \/ CloseChat
    PROVE  ChatInv' /\ HistoryStep
<1>1. UNCHANGED <<chat, stored, asks, asked, clock>>
  BY DEF TimerFires, CloseChat
<1>2. TabInv' /\ mount' = mount /\ (mounted' => mounted)
  <2>1. CASE CloseChat
    BY <2>1, TabStep, ChatAssumption DEF CloseChat, ChatInv, Unmount
  <2>2. CASE TimerFires
    BY <2>2 DEF TimerFires, ChatInv, TabInv, tabVars, Mounts
  <2> QED
    BY <2>1, <2>2
<1>3. ChatData'
  BY <1>1 DEF ChatInv, ChatData, HasActive, IdsOf, Questions
<1>4. arriving' \subseteq arriving /\ (timer' => timer)
  BY DEF TimerFires, CloseChat
<1>5. Waiting'
  BY <1>1, <1>2, <1>4 DEF ChatInv, Waiting, Mounts, Questions
<1>6. Loaded' = Loaded
  BY <1>1 DEF Loaded, Fallback
<1>7. Loading' /\ StoredIsShown'
  <2>1. loadedRef \in BOOLEAN /\ arriving \subseteq {Loaded} /\ StoredIsShown
    BY DEF ChatInv, Loading
  <2>2. CASE CloseChat
    <3>1. ~mounted' /\ timer' = FALSE /\ arriving' = {} /\ loadedRef' = loadedRef
      BY <2>2 DEF CloseChat, Unmount
    <3> QED
      BY <2>1, <3>1 DEF Loading, StoredIsShown
  <2>3. CASE TimerFires
    <3>1. mounted' = mounted /\ timer' = FALSE /\ arriving' = arriving /\ loadedRef' = TRUE
      BY <2>3 DEF TimerFires, tabVars
    <3>2. Loading'
      BY <1>6, <2>1, <3>1 DEF Loading
    <3>3. StoredIsShown'
      BY <1>1, <2>1, <3>1 DEF StoredIsShown
    <3> QED
      BY <3>2, <3>3
  <2> QED
    BY <2>2, <2>3
<1> QED
  BY <1>1, <1>2, <1>3, <1>5, <1>7, SameKeeps DEF ChatInv

LEMMA ChatStep ==
    ASSUME ChatInv, [ChatNext]_chatVars
    PROVE  ChatInv' /\ HistoryStep
<1>1. CASE UNCHANGED chatVars
  BY <1>1, AskEnds DEF chatVars
<1>2. ASSUME NEW x \in asks, AskFails(x) PROVE ChatInv' /\ HistoryStep
  <2>1. asks' \subseteq asks
    BY <1>2 DEF AskFails
  <2>2. UNCHANGED <<tabVars, chat, stored, loadedRef, timer, arriving, asked, clock>>
    BY <1>2 DEF AskFails
  <2> QED
    BY <2>1, <2>2, AskEnds
<1>3. CASE OpenChat \/ CloseChat \/ TimerFires \/ EditStep
  BY <1>3, OpenStep, TimerStep, EditStepKeeps
<1>4. ASSUME NEW c \in arriving, RenderLoaded(c) PROVE ChatInv' /\ HistoryStep
  BY <1>4, RenderLoadedStep
<1>5. ASSUME NEW q \in Questions, Ask(q) PROVE ChatInv' /\ HistoryStep
  BY <1>5, AskStep
<1>6. ASSUME NEW x \in asks, AnswerArrives(x) PROVE ChatInv' /\ HistoryStep
  BY <1>6, AnswerStep
<1> QED
  BY <1>1, <1>2, <1>3, <1>4, <1>5, <1>6 DEF ChatNext

LEMMA ChatInitInv == ChatInit => ChatInv
<1> SUFFICES ASSUME ChatInit PROVE ChatInv
  OBVIOUS
<1>1. TabInv
  BY ChatAssumption, TabInitInv DEF ChatInit
<1>2. 0 \in 0 .. MaxClock /\ 0 \in 0 .. MaxSession /\ 0 \in 0 .. MaxSession + 1 /\ MaxSessions \in Nat
  BY ChatAssumption
<1>3. asked \in [Questions -> 0 .. MaxSession] /\ clock \in 0 .. MaxClock /\ clock \in Nat
  BY <1>2 DEF ChatInit
<1>4. GoodChat(chat, asked, clock) /\ HasActive(chat)
  <2>1. chat = Fallback
    BY DEF ChatInit
  <2> QED
    BY <1>3, <2>1, FallbackGood
<1>5. GoodChat(stored, asked, clock)
  <2> DEFINE none == <<>>
  <2>1. none \in Seq(Session) /\ Len(none) = 0 /\ DOMAIN none = {}
    OBVIOUS
  <2>2. stored = [sessions |-> none, seq |-> 0, active |-> 0]
    BY DEF ChatInit, Nothing
  <2> HIDE DEF none
  <2>3. stored \in Chats /\ stored.sessions = none
    BY <1>2, <2>1, <2>2 DEF Chats
  <2>4. Len(none) <= MaxSessions
    BY <1>2, <2>1
  <2> QED
    BY <2>1, <2>3, <2>4 DEF GoodChat, GoodList
<1>6. Waiting /\ Loading /\ StoredIsShown
  BY DEF ChatInit, TabInit, Waiting, Loading, StoredIsShown
<1> QED
  BY <1>1, <1>3, <1>4, <1>5, <1>6 DEF ChatInv, ChatData

\* The invariant: what is stored is a good chat at any time, and is the one on the
\* screen from the moment its load was rendered.
THEOREM ChatInvariant == ChatSpec => []ChatInv
BY ChatInitInv, ChatStep, PTL DEF ChatSpec

LEMMA ChatIsTyped == ChatInv => ChatTypeOK
<1> SUFFICES ASSUME ChatInv PROVE ChatTypeOK
  OBVIOUS
<1>1. chat \in Chats /\ stored \in Chats /\ GoodChat(stored, asked, clock) /\ clock \in Nat
  BY ChatAssumption DEF ChatInv, ChatData, GoodChat
<1>2. Loaded \in Chats
  BY <1>1, LoadedGood DEF GoodChat
<1> QED
  BY <1>1, <1>2 DEF ChatInv, ChatData, GoodChat, Waiting, Loading, ChatTypeOK

\* Lists of sessions stay within their limit, on the screen and in the browser.
THEOREM ChatTypeCorrect == ChatSpec => []ChatTypeOK
BY ChatInvariant, ChatIsTyped, PTL

LEMMA ChatIsOne == ChatInv => OneActive
<1> SUFFICES ASSUME ChatInv PROVE OneActive
  OBVIOUS
<1>1. /\ GoodList(chat.sessions, asked, clock) /\ HasActive(chat)
      /\ \A i \in DOMAIN chat.sessions : chat.sessions[i].id < chat.seq
  BY DEF ChatInv, ChatData, GoodChat
<1> QED
  BY <1>1 DEF GoodList, HasActive, IdsOf, OneActive

\* The session on the screen exists, and no id is given twice, through trims,
\* deletions and reloads.
THEOREM OneSessionActive == ChatSpec => []OneActive
BY ChatInvariant, ChatIsOne, PTL

LEMMA ChatIsHome == ChatInv => AnswersComeHome
<1> SUFFICES ASSUME ChatInv PROVE AnswersComeHome
  OBVIOUS
<1>1. GoodList(chat.sessions, asked, clock) /\ GoodList(stored.sessions, asked, clock)
  BY DEF ChatInv, ChatData, GoodChat
<1> QED
  BY <1>1 DEF GoodList, AnswersComeHome

\* An answer stays with its question, whatever the user did while it was awaited.
THEOREM AnswersGoHome == ChatSpec => []AnswersComeHome
BY ChatInvariant, ChatIsHome, PTL

\* No effect of a mount overwrites the stored history: sessions and messages go only
\* as the user asks.
THEOREM HistoryStays == ChatSpec => HistoryKept
<1>1. ChatInv /\ [ChatNext]_chatVars => [HistoryStep]_chatVars
  BY ChatStep
<1> QED
  BY <1>1, ChatInvariant, PTL DEF ChatSpec, HistoryKept, HistoryStep, IdsKept, KeptStored
=============================================================================
