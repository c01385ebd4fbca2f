------------------------------- MODULE ChatPage -------------------------------
(***************************************************************************)
(* The page of the assistant (AiAssistantPage.tsx) with its store          *)
(* (useChatStore.ts) in the tabs of one browser, over the chat of the      *)
(* server: each question goes out twice, as GET /ai/stream for the stages  *)
(* shown meanwhile and as POST /ai/chat for the answer, and the server     *)
(* runs a turn for each (ai.controller.ts).                                *)
(*                                                                         *)
(* Requests may be lost, late, or overtake each other, and an answer may   *)
(* come after the page has given up, was reloaded, or not at all.  A       *)
(* message on the page is the question it belongs to and its kind; the     *)
(* stages of a stream are left out: the page is waiting as long as they    *)
(* come, and drops the stream when it stops.                               *)
(***************************************************************************)
EXTENDS ChatMemory

CONSTANTS
    Questions, Tabs,
    ChatOf, StreamOf      \* the turns that the two requests of a question become

\* Each question is asked once; asking the same again (Regenerate) is another one.
TurnsOf(q) == {ChatOf[q], StreamOf[q]}

ASSUME TurnsOfQuestions ==
    /\ ChatOf \in [Questions -> Turns] /\ StreamOf \in [Questions -> Turns]
    /\ \A q \in Questions : ChatOf[q] # StreamOf[q]
    /\ \A q, p \in Questions : q # p => TurnsOf(q) \cap TurnsOf(p) = {}
    /\ Turns = UNION {TurnsOf(q) : q \in Questions}
ASSUME TabsAssumption == "none" \notin Questions \cup Tabs

VARIABLES
    store,     \* the store of each tab: sessionId and messages
    saved,     \* what the tabs persist of it in localStorage, one for all of them
    waiting,   \* the question each tab awaits the answer of (isStreaming)
    sent,      \* the requests that have not reached the server, and may never
    under,     \* the sessionId each question was sent with
    answers,   \* the turns whose answer is on its way to the page
    by         \* the tab that has asked each question

page == <<store, saved, waiting, sent, under, answers, by>>

EmptyChat == [sessionId |-> "none", messages |-> <<>>]

PageInit ==
    /\ Init
    /\ store = [b \in Tabs |-> EmptyChat]
    /\ saved = EmptyChat
    /\ waiting = [b \in Tabs |-> "none"]
    /\ sent = {}
    /\ under = [q \in Questions |-> "none"]
    /\ answers = {}
    /\ by = [q \in Questions |-> "none"]

-----------------------------------------------------------------------------
(* The store, which is persisted with each change                            *)

\* Mutant: the messages alone are persisted.
Partialize_Messages(chat) == [chat EXCEPT !.sessionId = "none"]

Partialize(chat) == chat

Set(b, chat) ==
    /\ store' = [store EXCEPT ![b] = chat]
    /\ saved' = Partialize(chat)

Added(chat, q, kind) == [chat EXCEPT !.messages = Append(@, [of |-> q, kind |-> kind])]

-----------------------------------------------------------------------------
(* The page                                                                  *)

\* handleSend, and handleRegenerate
Send(b, q) ==
    /\ waiting[b] = "none" /\ by[q] = "none"
    /\ Set(b, Added(store[b], q, "question"))
    /\ waiting' = [waiting EXCEPT ![b] = q]
    /\ under' = [under EXCEPT ![q] = store[b].sessionId]
    /\ sent' = sent \cup TurnsOf(q)
    /\ by' = [by EXCEPT ![q] = b]
    /\ UNCHANGED <<answers, vars>>

\* A stage of the stream is a change of the store like any other.
Progress(b) ==
    /\ waiting[b] # "none"
    /\ Set(b, store[b])
    /\ UNCHANGED <<waiting, sent, under, answers, by, vars>>

Receive(b) ==
    LET q == waiting[b]
    IN  /\ q # "none" /\ ChatOf[q] \in answers
        /\ Set(b, Added([store[b] EXCEPT !.sessionId = in[ChatOf[q]]], q, "answer"))
        /\ waiting' = [waiting EXCEPT ![b] = "none"]
        /\ answers' = answers \ {ChatOf[q]}
        /\ UNCHANGED <<sent, under, by, vars>>

\* The request has failed, or nothing has come in time.
Fail(b) ==
    /\ waiting[b] # "none"
    /\ Set(b, Added(store[b], waiting[b], "error"))
    /\ waiting' = [waiting EXCEPT ![b] = "none"]
    /\ answers' = answers \ {ChatOf[waiting[b]]}
    /\ UNCHANGED <<sent, under, by, vars>>

\* The button is there when there are messages and nothing is awaited.
ClearChat(b) ==
    /\ waiting[b] = "none" /\ store[b].messages # <<>>
    /\ Set(b, EmptyChat)
    /\ UNCHANGED <<waiting, sent, under, answers, by, vars>>

\* The page is opened or loaded again: what was saved last, and nothing awaited.
Reload(b) ==
    /\ store' = [store EXCEPT ![b] = saved]
    /\ waiting' = [waiting EXCEPT ![b] = "none"]
    /\ answers' = {t \in answers : waiting[b] = "none" \/ t # ChatOf[waiting[b]]}
    /\ UNCHANGED <<saved, sent, under, by, vars>>

-----------------------------------------------------------------------------
(* The server                                                                *)

\* An id that was never drawn
Unused == {s \in Sessions : \A t \in Turns : in[t] # s}

\* A request that is lost never arrives.
\* chat and streamChat: getOrCreateSession takes the id of the request, if it has one.
Arrive(q, t) ==
    /\ t \in sent
    /\ IF under[q] # "none" THEN Ask(t, under[q])
       ELSE Unused # {} /\ Ask(t, CHOOSE s \in Unused : TRUE)
    /\ sent' = sent \ {t}
    /\ UNCHANGED <<store, saved, waiting, under, answers, by>>

\* What the turn of a stream answers is not looked at, nor is what comes too late.
Awaited(t) == \E b \in Tabs : waiting[b] # "none" /\ t = ChatOf[waiting[b]]

ServeTurn(t) ==
    \/ (Classify(t) \/ Execute(t)) /\ UNCHANGED page
    \/ /\ Generate(t)
       /\ answers' = IF Awaited(t) THEN answers \cup {t} ELSE answers
       /\ UNCHANGED <<store, saved, waiting, sent, under, by>>

ServeSummary(t) == Summarise(t) /\ UNCHANGED page

-----------------------------------------------------------------------------
PageNext ==
    \/ \E b \in Tabs :
          \/ \E q \in Questions : Send(b, q)
          \/ Progress(b) \/ Receive(b) \/ Fail(b) \/ ClearChat(b) \/ Reload(b)
    \/ \E q \in Questions : \E t \in TurnsOf(q) : Arrive(q, t)
    \/ \E t \in Turns : ServeTurn(t) \/ ServeSummary(t)
    \/ Crash /\ UNCHANGED page

pageVars == <<vars, page>>

PageSpec == PageInit /\ [][PageNext]_pageVars

\* As in ChatMemory; nothing is assumed of the network or of the user.
PageFairSpec ==
    PageSpec /\ \A t \in Turns : WF_pageVars(ServeTurn(t)) /\ WF_pageVars(ServeSummary(t))

-----------------------------------------------------------------------------
Shows(chat, q, kind) == In([of |-> q, kind |-> kind], chat.messages)

\* The answers a tab shows were given in the session that its next question goes to:
\* the assistant remembers what the user sees, however many tabs there are and
\* whatever was lost or reloaded (unless the server has forgotten it).
AnswersAreOfTheSession ==
    \A b \in Tabs, q \in Questions, s \in Sessions :
        Shows(store[b], q, "answer") /\ In(Reply(ChatOf[q]), said[s])
            => s = store[b].sessionId

\* As long as no other tab has asked anything, the questions that the session of a tab
\* holds are all on the page: what was cleared, or failed in a session that the page
\* never heard of, is not remembered behind its back.
SessionIsOnThePage ==
    \A b \in Tabs, q \in Questions : \A t \in TurnsOf(q) :
        /\ \A p \in Questions : by[p] \in {b, "none"}
        /\ store[b].sessionId # "none"
        /\ In(Question(t), said[store[b].sessionId])
        => Shows(store[b], q, "question")

\* What a page shows of a conversation and what the server keeps of it go together.
PageAndSessionAgree == AnswersAreOfTheSession /\ SessionIsOnThePage
=============================================================================
