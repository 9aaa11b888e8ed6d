------------------------------ MODULE ChatPage ------------------------------
(***************************************************************************)
(* The chats of pages/student/InClass.tsx (students, teachers and admins): *)
(* sessions of questions and answers in React state, written to            *)
(* localStorage after every change and read back when the page opens.      *)
(* Several questions can be open at once, in several sessions, while the   *)
(* user switches, edits, deletes and leaves.                               *)
(***************************************************************************)
EXTENDS Tab, Lists, SequencesExt

CONSTANTS MaxSessions,   \* MAX_CHAT_SESSIONS_PER_USER (100)
          MaxSession,    \* bound on the ids of sessions
          MaxAsks,       \* bound on the questions
          MaxClock       \* bound on the updates of a session

ASSUME ChatAssumption ==
    /\ MaxSessions \in Nat \ {0} /\ MaxSession \in Nat \ {0} /\ MaxMounts \in Nat
    /\ MaxAsks \in Nat /\ MaxClock \in Nat

VARIABLES
    chat,      \* React state: sessions, sessionSeq, activeSessionId
    stored,    \* the same three in localStorage
    loadedRef, \* storageLoadedRef
    timer,     \* its setTimeout(0) has not fired
    arriving,  \* the state set by the load effect, before it is rendered
    asks,      \* POST /qa/ask in flight
    asked,     \* history: the session of each question, 0 before it is asked
    clock      \* Date.now()

chatVars == <<tabVars, chat, stored, loadedRef, timer, arriving, asks, asked, clock>>

Questions == 1 .. MaxAsks
Message   == [q : Questions, role : {"user", "assistant"}]
NewSession(id, now) == [id |-> id, messages |-> <<>>, updatedAt |-> now]
Fallback  == [sessions |-> <<NewSession(1, 0)>>, seq |-> 2, active |-> 1]
Nothing   == [sessions |-> <<>>, seq |-> 0, active |-> 0]

IdsOf(ss) == {ss[i].id : i \in DOMAIN ss}
Current   == CHOOSE i \in DOMAIN chat.sessions : chat.sessions[i].id = chat.active
Messages  == chat.sessions[Current].messages

ByUpdate(ss) == Sorted(ss, [i \in DOMAIN ss |-> -ss[i].updatedAt])

\* Mutant: the limit is off by one.
TrimLate(ss) ==
    IF Len(ss) <= MaxSessions + 1 THEN ss
    ELSE SubSeq(ByUpdate(ss), 1, MaxSessions)

\* trimSessionsToMax: the most recently updated ones.
Trim(ss) ==
    IF Len(ss) <= MaxSessions THEN ss
    ELSE SubSeq(ByUpdate(ss), 1, MaxSessions)

\* loadChatState
Loaded ==
    IF stored.sessions = <<>> THEN Fallback
    ELSE LET ss == Trim(stored.sessions)
             n  == 1 + CHOOSE i \in IdsOf(ss) : \A j \in IdsOf(ss) : j <= i
         IN  [sessions |-> ss,
              seq |-> IF stored.seq > n THEN stored.seq ELSE n,
              active |-> IF stored.active \in IdsOf(ss) THEN stored.active ELSE ss[1].id]

ChatInit ==
    /\ TabInit
    /\ chat = Fallback /\ stored = Nothing
    /\ loadedRef = FALSE /\ timer = FALSE /\ arriving = {}
    /\ asks = {} /\ asked = [q \in Questions |-> 0]
    /\ clock = 0

----------------------------------------------------------------------------
(* Rendering and storage *)

\* Mutant: the persist effect does not look at storageLoadedRef.
PersistAlways(c, ref) == stored' = [c EXCEPT !.sessions = Trim(@)]

\* The persist effect, after a render of the state c.
Persist(c, ref) == stored' = IF ref THEN [c EXCEPT !.sessions = Trim(@)] ELSE stored

Render(c) == chat' = c /\ Persist(c, loadedRef)

\* The first render has the fallback; the load effect reads the storage, and then
\* the persist effect runs for the first time.
OpenChat ==
    /\ Mount
    /\ chat' = Fallback
    /\ loadedRef' = FALSE /\ timer' = TRUE
    /\ arriving' = {Loaded}
    /\ Persist(Fallback, FALSE)
    /\ UNCHANGED <<asks, asked, clock>>

\* The loaded state is rendered, before or after the timer fires.
RenderLoaded(c) ==
    /\ c \in arriving
    /\ Render(c)
    /\ arriving' = {}
    /\ UNCHANGED <<tabVars, loadedRef, timer, asks, asked, clock>>

TimerFires ==
    /\ timer /\ timer' = FALSE
    /\ loadedRef' = TRUE
    /\ UNCHANGED <<tabVars, chat, stored, arriving, asks, asked, clock>>

\* The page goes, with its timer; answers on their way find no state.
CloseChat ==
    /\ Unmount
    /\ timer' = FALSE /\ arriving' = {}
    /\ UNCHANGED <<chat, stored, loadedRef, asks, asked, clock>>

----------------------------------------------------------------------------
(* What the user does *)

\* Nobody clicks before a timer of 0 ms that the mount itself set.
Ready == mounted /\ arriving = {} /\ ~timer

Tick == clock < MaxClock /\ clock' = clock + 1

\* updateActiveSession, of a session that may be gone.
Put(id, ms) ==
    [chat EXCEPT !.sessions = [i \in DOMAIN @ |->
        IF @[i].id # id THEN @[i]
        ELSE [@[i] EXCEPT !.messages = ms, !.updatedAt = clock + 1]]]

\* handleAsk; Enter asks again while an answer is awaited.
Ask(q) ==
    /\ Ready /\ Tick
    /\ asked[q] = 0 /\ \A r \in Questions : r < q => asked[r] # 0
    /\ asked' = [asked EXCEPT ![q] = chat.active]
    /\ asks' = asks \cup {[page |-> mount, session |-> chat.active, q |-> q]}
    /\ Render(Put(chat.active, Append(Messages, [q |-> q, role |-> "user"])))
    /\ UNCHANGED <<tabVars, loadedRef, timer, arriving>>

\* Mutant: the answer goes to the session that is open when it arrives.
TargetNow(x) == chat.active

\* The closure of handleAsk keeps the session that was active.
Target(x) == x.session

\* The answer is appended to a session that is still there.
AnswerArrives(x) ==
    LET id == Target(x) IN
    /\ x \in asks /\ asks' = asks \ {x}
    /\ IF Alive(x.page) /\ id \in IdsOf(chat.sessions)
       THEN LET i == CHOOSE i \in DOMAIN chat.sessions : chat.sessions[i].id = id
            IN  /\ Render(Put(id, Append(chat.sessions[i].messages,
                                         [q |-> x.q, role |-> "assistant"])))
                /\ Tick
       ELSE UNCHANGED <<chat, stored, clock>>
    /\ UNCHANGED <<tabVars, loadedRef, timer, arriving, asked>>

\* An error only ends the loading state.
AskFails(x) ==
    /\ x \in asks /\ asks' = asks \ {x}
    /\ UNCHANGED <<tabVars, chat, stored, loadedRef, timer, arriving, asked, clock>>

\* handleEditQuestion takes the question back, with everything after it.
EditQuestion(i) ==
    /\ Ready /\ Tick
    /\ i \in DOMAIN Messages /\ Messages[i].role = "user"
    /\ Render(Put(chat.active, SubSeq(Messages, 1, i - 1)))
    /\ UNCHANGED <<tabVars, loadedRef, timer, arriving, asks, asked>>

\* handleConfirmDeleteMessage: a question with an answer below it, an answer with a
\* question above it.
Pair(i) ==
    {i} \cup {j \in DOMAIN Messages :
                 \/ j = i + 1 /\ Messages[i].role = "user" /\ Messages[j].role = "assistant"
                 \/ j = i - 1 /\ Messages[i].role = "assistant" /\ Messages[j].role = "user"}

DeleteMessage(i) ==
    /\ Ready /\ Tick
    /\ i \in DOMAIN Messages
    /\ LET gone == Pair(i)
           last == CHOOSE j \in gone : \A k \in gone : k <= j
           fst  == CHOOSE j \in gone : \A k \in gone : j <= k
       IN  Render(Put(chat.active, SubSeq(Messages, 1, fst - 1)
                                   \o SubSeq(Messages, last + 1, Len(Messages))))
    /\ UNCHANGED <<tabVars, loadedRef, timer, arriving, asks, asked>>

SwitchSession(id) ==
    /\ Ready
    /\ id \in IdsOf(chat.sessions)
    /\ Render([chat EXCEPT !.active = id])
    /\ UNCHANGED <<tabVars, loadedRef, timer, arriving, asks, asked, clock>>

\* submitRename touches a session without changing its messages.
Rename(id) ==
    /\ Ready /\ Tick
    /\ \E i \in DOMAIN chat.sessions :
          chat.sessions[i].id = id /\ Render(Put(id, chat.sessions[i].messages))
    /\ UNCHANGED <<tabVars, loadedRef, timer, arriving, asks, asked>>

Unused == {i \in DOMAIN chat.sessions :
              \A j \in DOMAIN chat.sessions[i].messages : chat.sessions[i].messages[j].role # "user"}

\* createNewSession: the first session without a question, or a new one.
NewChat ==
    /\ Ready
    /\ \/ /\ Unused # {}
          /\ LET i == CHOOSE i \in Unused : \A j \in Unused : i <= j
             IN  Render([chat EXCEPT !.active = chat.sessions[i].id])
          /\ UNCHANGED clock
       \/ /\ Unused = {} /\ chat.seq <= MaxSession /\ Tick
          /\ Render([sessions |-> Trim(<<NewSession(chat.seq, clock + 1)>> \o chat.sessions),
                     seq |-> chat.seq + 1, active |-> chat.seq])
    /\ UNCHANGED <<tabVars, loadedRef, timer, arriving, asks, asked>>

Rest(id) == Keeping(chat.sessions, {i \in DOMAIN chat.sessions : chat.sessions[i].id # id})

\* Mutant: the active session is not moved.
AfterDeleteStays(id) == [chat EXCEPT !.sessions = Rest(id)]

\* The state after a session that is not the last one is deleted.
AfterDelete(id) ==
    [chat EXCEPT !.sessions = Rest(id),
                 !.active = IF chat.active = id THEN Rest(id)[1].id ELSE chat.active]

\* handleDeleteSession; the last session is replaced by a new one.
DeleteSession(id) ==
    /\ Ready
    /\ id \in IdsOf(chat.sessions)
    /\ \/ /\ Rest(id) # <<>>
          /\ Render(AfterDelete(id))
          /\ UNCHANGED clock
       \/ /\ Rest(id) = <<>> /\ chat.seq <= MaxSession /\ Tick
          /\ Render([sessions |-> <<NewSession(chat.seq, clock + 1)>>,
                     seq |-> chat.seq + 1, active |-> chat.seq])
    /\ UNCHANGED <<tabVars, loadedRef, timer, arriving, asks, asked>>

EditStep ==
    \/ \E i \in 1 .. 2 * MaxAsks : EditQuestion(i) \/ DeleteMessage(i)
    \/ \E id \in 1 .. MaxSession : SwitchSession(id) \/ Rename(id) \/ DeleteSession(id)
    \/ NewChat

ChatNext ==
    \/ OpenChat \/ CloseChat \/ TimerFires
    \/ \E c \in arriving : RenderLoaded(c)
    \/ \E q \in Questions : Ask(q)
    \/ \E x \in asks : AnswerArrives(x) \/ AskFails(x)
    \/ EditStep

ChatSpec == ChatInit /\ [][ChatNext]_chatVars

----------------------------------------------------------------------------
(* Properties *)

Session  == [id : 1 .. MaxSession, messages : Seq(Message), updatedAt : 0 .. MaxClock]
Chats    == [sessions : Seq(Session), seq : 0 .. MaxSession + 1, active : 0 .. MaxSession]

ChatTypeOK ==
    /\ chat \in Chats /\ stored \in Chats /\ arriving \subseteq Chats
    /\ Len(chat.sessions) <= MaxSessions /\ Len(stored.sessions) <= MaxSessions
    /\ loadedRef \in BOOLEAN /\ timer \in BOOLEAN
    /\ asks \subseteq [page : Mounts, session : 1 .. MaxSession, q : Questions]
    /\ asked \in [Questions -> 0 .. MaxSession]
    /\ clock \in 0 .. MaxClock

\* The session on the screen is one of the sessions, whose ids are different and
\* below the next one, so no new session takes over the messages of another.
OneActive ==
    /\ chat.active \in IdsOf(chat.sessions)
    /\ \A i, j \in DOMAIN chat.sessions : chat.sessions[i].id = chat.sessions[j].id => i = j
    /\ \A id \in IdsOf(chat.sessions) : id < chat.seq

\* An answer is only ever shown, and stored, in the session of its question, though
\* the user may have switched, deleted or reloaded meanwhile.
AnswersComeHome ==
    \A ss \in {chat.sessions, stored.sessions} : \A i \in DOMAIN ss : \A j \in DOMAIN ss[i].messages :
        asked[ss[i].messages[j].q] = ss[i].id

\* The comment of storageLoadedRef, "避免首次挂载用 fallback 覆盖已有历史": a stored
\* session disappears when the user deletes it or when a new one trims it, and a
\* stored message when the user edits or deletes it, whatever order the effects of
\* a mount run in.
HistoryKept ==
    [][LET Kept(m) == \E i \in DOMAIN stored'.sessions :
                          m \in Range(stored'.sessions[i].messages)
       IN  /\ \A id \in IdsOf(stored.sessions) \ IdsOf(stored'.sessions) : DeleteSession(id) \/ NewChat
           /\ \A i \in DOMAIN stored.sessions : \A m \in Range(stored.sessions[i].messages) :
                 Kept(m) \/ EditStep]_chatVars
=============================================================================
