---------------------------- MODULE PreviewPage ----------------------------
(***************************************************************************)
(* The preview of a chapter, pages/student/Preview.tsx with the records    *)
(* that api/questions.py and api/preview.py keep: the student picks a      *)
(* chapter, studies, answers its paper, has it graded question by          *)
(* question, and completes the chapter.  The task shown, the chapter       *)
(* picked and the loops still running can each be of a different chapter.  *)
(***************************************************************************)
EXTENDS Tab, Lists, SequencesExt

CONSTANTS Chapters,
          NoChapter,
          Problems,     \* questions of the bank
          Paper,        \* preview_questions of each chapter
          MaxPicks,     \* bound on the tasks asked for at once
          MaxVisits     \* bound on how often the page is opened

ASSUME PreviewAssumption ==
    /\ Paper \in [Chapters -> Seq(Problems)]
    /\ NoChapter \notin Chapters
    /\ MaxPicks \in Nat /\ MaxVisits \in Nat /\ MaxMounts \in Nat

VARIABLES
    preview,      \* React state of the page
    taskFetches,  \* GET /preview/task in flight
    gradings,     \* loops of submitPreviewPaper
    completions,  \* POST /preview/submit in flight
    recorded,     \* questions with an AnswerRecord
    completed,    \* chapters with a PreviewRecord
    mixed,        \* history: chapters completed while another one's task was shown
    crossed       \* history: the chapter was left before its completion was answered

previewVars == <<tabVars, preview, taskFetches, gradings, completions, recorded, completed,
                 mixed, crossed>>

\* State with no task yet; checking is checkingPaper, studied is materialsReady.
FreshPreview == [selected |-> NoChapter, shown |-> NoChapter, studied |-> FALSE,
                 answered |-> {}, results |-> {}, submitted |-> FALSE, checking |-> FALSE]

PaperOf(c)  == IF c = NoChapter THEN {} ELSE Range(Paper[c])
AllAnswered == PaperOf(preview.shown) \subseteq preview.answered
AllChecked  == PaperOf(preview.shown) \subseteq preview.results

PreviewInit ==
    /\ TabInit
    /\ preview = FreshPreview
    /\ taskFetches = {} /\ gradings = {} /\ completions = {}
    /\ recorded = {} /\ completed = {} /\ mixed = {} /\ crossed = FALSE

----------------------------------------------------------------------------
(* The chapter and its task *)

OpenPreview ==
    /\ Mount /\ mount < MaxVisits
    /\ UNCHANGED <<preview, taskFetches, gradings, completions, recorded, completed, mixed, crossed>>

\* The state goes with the page; its promises go on.
ClosePreview ==
    /\ Unmount
    /\ preview' = FreshPreview /\ crossed' = FALSE
    /\ UNCHANGED <<taskFetches, gradings, completions, recorded, completed, mixed>>

Picks(c) ==
    /\ mounted /\ preview.selected # c
    /\ \E n \in 1 .. MaxPicks :
          /\ n \notin {f.n : f \in taskFetches}
          /\ \A i \in 1 .. n - 1 : i \in {f.n : f \in taskFetches}
          /\ taskFetches' = taskFetches \cup {[page |-> mount, n |-> n, chapter |-> c]}
    /\ UNCHANGED <<tabVars, gradings, completions, recorded, completed, mixed>>

\* Mutant: the effect forgets setSubmitted(false).
PickKeeps(c) ==
    /\ Picks(c)
    /\ preview' = [FreshPreview EXCEPT !.selected = c, !.shown = preview.shown,
                                       !.checking = preview.checking, !.submitted = preview.submitted]
    /\ crossed' = FALSE

\* The student, or the list of chapters, picks another chapter: its task is asked
\* for, the old one stays on the screen, and answers and results start anew.
Pick(c) ==
    /\ Picks(c)
    /\ preview' = [FreshPreview EXCEPT !.selected = c, !.shown = preview.shown,
                                       !.checking = preview.checking]
    /\ crossed' = FALSE

\* A course without chapters, or no course, is picked.
PickNone ==
    /\ mounted /\ preview.selected # NoChapter
    /\ preview' = [preview EXCEPT !.selected = NoChapter, !.shown = NoChapter]
    /\ UNCHANGED <<tabVars, taskFetches, gradings, completions, recorded, completed, mixed, crossed>>

\* A task is shown in the order of arrival; an error shows nothing.
TaskArrives(f) ==
    /\ taskFetches' = taskFetches \ {f}
    /\ preview' \in {preview} \cup
           (IF Alive(f.page) THEN {[preview EXCEPT !.shown = f.chapter]} ELSE {})
    /\ UNCHANGED <<tabVars, gradings, completions, recorded, completed, mixed, crossed>>

Study ==
    /\ mounted /\ preview.shown # NoChapter /\ ~preview.studied
    /\ preview' = [preview EXCEPT !.studied = TRUE]
    /\ UNCHANGED <<tabVars, taskFetches, gradings, completions, recorded, completed, mixed, crossed>>

AnswerProblem(x) ==
    /\ mounted /\ preview.studied /\ ~AllChecked
    /\ x \in PaperOf(preview.shown) \ preview.answered
    /\ preview' = [preview EXCEPT !.answered = @ \cup {x}]
    /\ UNCHANGED <<tabVars, taskFetches, gradings, completions, recorded, completed, mixed, crossed>>

----------------------------------------------------------------------------
(* submitPreviewPaper *)

\* What the loop has still to send, once the questions graded before are skipped.
Ungraded(s, done) == Keeping(s, {i \in DOMAIN s : s[i] \notin done})

\* The button asks for an answer to every question.
SubmitPaper ==
    /\ mounted /\ preview.studied /\ ~preview.submitted
    /\ preview.shown # NoChapter /\ Paper[preview.shown] # <<>>
    /\ AllAnswered /\ ~AllChecked /\ ~preview.checking
    /\ preview' = [preview EXCEPT !.checking = TRUE]
    /\ gradings' = gradings \cup
           {[page |-> mount, phase |-> "sent", done |-> preview.results,
             left |-> Ungraded(Paper[preview.shown], preview.results)]}
    /\ UNCHANGED <<tabVars, taskFetches, completions, recorded, completed, mixed, crossed>>

\* submit_answer stores the record and answers.
RecordAnswer(g) ==
    /\ g.phase = "sent"
    /\ recorded' = recorded \cup {Head(g.left)}
    /\ gradings' = (gradings \ {g}) \cup {[g EXCEPT !.phase = "graded"]}
    /\ UNCHANGED <<tabVars, preview, taskFetches, completions, completed, mixed, crossed>>

\* The next question, or the end of the loop: its results replace those of the page.
GradeNext(g) ==
    LET done == g.done \cup {Head(g.left)}
        left == Ungraded(g.left, done) IN
    /\ g.phase = "graded"
    /\ IF left # <<>>
       THEN /\ gradings' = (gradings \ {g}) \cup {[g EXCEPT !.phase = "sent", !.done = done, !.left = left]}
            /\ UNCHANGED preview
       ELSE /\ gradings' = gradings \ {g}
            /\ preview' = IF Alive(g.page) THEN [preview EXCEPT !.results = done, !.checking = FALSE]
                          ELSE preview
    /\ UNCHANGED <<tabVars, taskFetches, completions, recorded, completed, mixed, crossed>>

\* Mutant: a question that failed is taken for graded.
GradeFailsDone(g) ==
    /\ gradings' = gradings \ {g}
    /\ preview' = IF Alive(g.page)
                  THEN [preview EXCEPT !.results = g.done \cup {Head(g.left)}, !.checking = FALSE]
                  ELSE preview
    /\ UNCHANGED <<tabVars, taskFetches, completions, recorded, completed, mixed, crossed>>

\* A request or its answer is lost: the loop ends and its results with it, the
\* records it made stay.
GradeFails(g) ==
    /\ gradings' = gradings \ {g}
    /\ preview' = IF Alive(g.page) THEN [preview EXCEPT !.checking = FALSE] ELSE preview
    /\ UNCHANGED <<tabVars, taskFetches, completions, recorded, completed, mixed, crossed>>

Grade(g) == RecordAnswer(g) \/ GradeNext(g) \/ GradeFails(g)

----------------------------------------------------------------------------
(* Completing the chapter *)

\* Mutant: a paper that is answered need not be graded.
CanCompleteAnswered ==
    preview.shown # NoChapter /\ preview.studied /\ AllAnswered

CanComplete == preview.shown # NoChapter /\ preview.studied /\ AllChecked

\* handleSubmit completes the chapter picked, when the task shown is done.
Complete ==
    /\ mounted /\ CanComplete /\ ~preview.submitted
    /\ preview.selected # NoChapter
    /\ completions' = completions \cup
           {[page |-> mount, chapter |-> preview.selected, phase |-> "sent"]}
    /\ mixed' = IF preview.shown = preview.selected THEN mixed ELSE mixed \cup {preview.selected}
    /\ UNCHANGED <<tabVars, preview, taskFetches, gradings, recorded, completed, crossed>>

RecordPreview(x) ==
    /\ x.phase = "sent"
    /\ completed' = completed \cup {x.chapter}
    /\ completions' = (completions \ {x}) \cup {[x EXCEPT !.phase = "done"]}
    /\ UNCHANGED <<tabVars, preview, taskFetches, gradings, recorded, mixed, crossed>>

\* The answer ends the preview of whatever chapter is picked by now.
CompleteAnswered(x) ==
    /\ x.phase = "done"
    /\ completions' = completions \ {x}
    /\ IF Alive(x.page)
       THEN /\ preview' = [preview EXCEPT !.submitted = TRUE]
            /\ crossed' = (crossed \/ preview.selected # x.chapter)
       ELSE UNCHANGED <<preview, crossed>>
    /\ UNCHANGED <<tabVars, taskFetches, gradings, recorded, completed, mixed>>

CompleteFails(x) ==
    /\ completions' = completions \ {x}
    /\ UNCHANGED <<tabVars, preview, taskFetches, gradings, recorded, completed, mixed, crossed>>

PreviewNext ==
    \/ OpenPreview \/ ClosePreview
    \/ \E c \in Chapters : Pick(c)
    \/ PickNone \/ Study \/ SubmitPaper \/ Complete
    \/ \E x \in Problems : AnswerProblem(x)
    \/ \E f \in taskFetches : TaskArrives(f)
    \/ \E g \in gradings : Grade(g)
    \/ \E x \in completions : RecordPreview(x) \/ CompleteAnswered(x) \/ CompleteFails(x)

PreviewSpec == PreviewInit /\ [][PreviewNext]_previewVars

----------------------------------------------------------------------------
(* Properties *)

PreviewState ==
    [selected : Chapters \cup {NoChapter}, shown : Chapters \cup {NoChapter}, studied : BOOLEAN,
     answered : SUBSET Problems, results : SUBSET Problems, submitted : BOOLEAN, checking : BOOLEAN]

PreviewTypeOK ==
    /\ mount \in 0 .. MaxMounts /\ mounted \in BOOLEAN
    /\ preview \in PreviewState
    /\ taskFetches \subseteq [page : Mounts, n : 1 .. MaxPicks, chapter : Chapters]
    /\ gradings \subseteq [page : Mounts, phase : {"sent", "graded"}, done : SUBSET Problems,
                           left : Seq(Problems) \ {<<>>}]
    /\ completions \subseteq [page : Mounts, chapter : Chapters, phase : {"sent", "done"}]
    /\ recorded \subseteq Problems /\ completed \subseteq Chapters
    /\ mixed \subseteq Chapters /\ crossed \in BOOLEAN

\* A grade on the screen has its record, though loops fail half way and the results
\* of a chapter may be written over those of another.
GradesAreRecorded == preview.results \subseteq recorded

\* A completed chapter had its whole paper graded, unless the page showed the task
\* of another chapter when the button was pressed.
CompletedWasGraded ==
    \A c \in completed \ mixed : PaperOf(c) \subseteq recorded

\* The page says that the chapter is completed only when it is, unless the student
\* left the chapter whose answer says so.
SubmittedIsCompleted ==
    preview.submitted /\ preview.selected # NoChapter /\ ~crossed => preview.selected \in completed
=============================================================================
